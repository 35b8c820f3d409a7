--------------------------- MODULE InvTreeProofs ---------------------------
(***************************************************************************)
(* What the loops over the uplinks of scope.hpp compute in a well linked   *)
(* array of nested scopes, and that an insertion keeps it well linked.     *)
(*                                                                         *)
(* A loop is the least set closed under prev, so that a fact "the loop     *)
(* passes m" is shown for every closed set, and a fact "the loop passes    *)
(* only P" by showing P closed.                                            *)
(*                                                                         *)
(* The second half is about the trees of nodes made of such an array: the  *)
(* links of Tree, its iterators, that getTree shows the contents of the    *)
(* array, and that translate copies a tree, node by node from a stack, to  *)
(* one that shows the same.                                                *)
(***************************************************************************)
EXTENDS ScopedInstance, FiniteSetTheorems, WellFoundedInduction, TLAPS

(* Every nonempty set of naturals has a least element.                     *)
LEMMA NatMin ==
  ASSUME NEW T \in SUBSET Nat, T # {}
  PROVE  \E m \in T : \A n \in T : m <= n
<1>1. PICK m \in T : \A n \in T : ~(<<n, m>> \in OpToRel(<, Nat))
  BY NatLessThanWellFounded, WFMin
<1>2. \A n \in T : n \in Nat /\ ~(n < m)
  BY <1>1 DEF OpToRel
<1>3. \A n \in T : m <= n
  BY <1>2
<1>4. QED
  BY <1>3

(* A nonempty set over which a measure ranges in Nat has elements with the *)
(* least and, if the measure is bounded, with the greatest measure.        *)
LEMMA LeastMeasure ==
  ASSUME NEW S, NEW f \in [S -> Nat], S # {}
  PROVE  \E m \in S : \A n \in S : f[m] <= f[n]
<1> DEFINE T == {f[x] : x \in S}
<1>1. PICK m \in T : \A n \in T : m <= n
  <2>1. T \in SUBSET Nat /\ T # {}
    OBVIOUS
  <2>2. QED
    BY <2>1, NatMin
<1>2. QED
  BY <1>1

-----------------------------------------------------------------------------
(* Scopes.                                                                 *)

ProperScopes == {s \in [start : Nat, end : Nat] : s.start < s.end}

(* The larger of two scopes inside a third one leaves less room around it. *)
LEMMA LessRoom ==
  \A a, b, c, d, f, g \in Nat :
    a <= b /\ c <= d /\ (a # b \/ c # d) => (g - d) + (a - f) < (g - c) + (b - f)
OBVIOUS

LEMMA ContainsTransitive ==
  ASSUME NEW s \in ProperScopes, NEW t \in ProperScopes, NEW u \in ProperScopes,
         Contains(s, t), Contains(t, u)
  PROVE  Contains(s, u)
BY DEF ProperScopes, Contains

LEMMA ContainsReflexive ==
  ASSUME NEW s \in ProperScopes
  PROVE  Contains(s, s)
BY DEF ProperScopes, Contains

LEMMA ContainsAntisymmetric ==
  ASSUME NEW s \in ProperScopes, NEW t \in ProperScopes, Contains(s, t), Contains(t, s)
  PROVE  s = t
BY DEF ProperScopes, Contains

(* Nested scopes that share a step are comparable.                         *)
LEMMA SharedStep ==
  ASSUME NEW s \in ProperScopes, NEW t \in ProperScopes, ~Crossing(s, t),
         NEW x \in Nat, Covers(s, x), Covers(t, x)
  PROVE  Contains(s, t) \/ Contains(t, s)
BY DEF ProperScopes, Contains, Crossing, Covers

LEMMA ContainedCovers ==
  ASSUME NEW s \in ProperScopes, NEW t \in ProperScopes, Contains(s, t),
         NEW x \in Nat, Covers(t, x)
  PROVE  Covers(s, x)
BY DEF ProperScopes, Contains, Covers

(* The elements own of an array have proper, nested scopes.                *)
NestedElements(ar, own) ==
  /\ own \subseteq DOMAIN ar
  /\ NoLink \notin DOMAIN ar
  /\ \A i \in own : ar[i].scope \in ProperScopes
  /\ \A i, j \in own : ~Crossing(ar[i].scope, ar[j].scope)

(* Of the elements that cover a step one is inside all the others.         *)
LEMMA SmallestElement ==
  ASSUME NEW ar, NEW own, NestedElements(ar, own),
         NEW S \in SUBSET own, S # {},
         NEW x \in Nat, \A i \in S : Covers(ar[i].scope, x)
  PROVE  \E m \in S : \A j \in S : Contains(ar[j].scope, ar[m].scope)
<1> DEFINE f == [i \in S |-> ar[i].scope.end - ar[i].scope.start]
<1>1. f \in [S -> Nat]
  BY DEF NestedElements, ProperScopes
<1>2. PICK m \in S : \A n \in S : f[m] <= f[n]
  BY <1>1, LeastMeasure
<1>3. ASSUME NEW j \in S PROVE Contains(ar[j].scope, ar[m].scope)
  <2>1. /\ ar[j].scope \in ProperScopes /\ ar[m].scope \in ProperScopes
        /\ ~Crossing(ar[j].scope, ar[m].scope)
    BY DEF NestedElements
  <2>2. Contains(ar[j].scope, ar[m].scope) \/ Contains(ar[m].scope, ar[j].scope)
    BY <2>1, SharedStep
  <2>3. ar[m].scope.end - ar[m].scope.start <= ar[j].scope.end - ar[j].scope.start
    BY <1>2
  <2>4. QED
    BY <2>1, <2>2, <2>3 DEF ProperScopes, Contains
<1>4. QED
  BY <1>3

(* Of the elements that cover a step and lie inside a scope one includes   *)
(* all the others.                                                         *)
LEMMA LargestElement ==
  ASSUME NEW ar, NEW own, NestedElements(ar, own),
         NEW S \in SUBSET own, S # {},
         NEW x \in Nat, \A i \in S : Covers(ar[i].scope, x),
         NEW s \in ProperScopes, \A i \in S : Contains(s, ar[i].scope)
  PROVE  \E m \in S : \A j \in S : Contains(ar[m].scope, ar[j].scope)
<1> DEFINE f == [i \in S |-> (s.end - s.start) - (ar[i].scope.end - ar[i].scope.start)]
<1>1. f \in [S -> Nat]
  BY DEF NestedElements, ProperScopes, Contains
<1>2. PICK m \in S : \A n \in S : f[m] <= f[n]
  BY <1>1, LeastMeasure
<1>3. ASSUME NEW j \in S PROVE Contains(ar[m].scope, ar[j].scope)
  <2>1. /\ ar[j].scope \in ProperScopes /\ ar[m].scope \in ProperScopes
        /\ ~Crossing(ar[j].scope, ar[m].scope)
    BY DEF NestedElements
  <2>2. Contains(ar[j].scope, ar[m].scope) \/ Contains(ar[m].scope, ar[j].scope)
    BY <2>1, SharedStep
  <2>3. f[m] <= f[j]
    BY <1>2
  <2>4. ar[j].scope.end - ar[j].scope.start <= ar[m].scope.end - ar[m].scope.start
    BY <2>1, <2>3 DEF ProperScopes
  <2>5. QED
    BY <2>1, <2>2, <2>4 DEF ProperScopes, Contains
<1>4. QED
  BY <1>3

-----------------------------------------------------------------------------
(* Walks along the uplinks of well linked elements.                        *)

Linked(ar, own) ==
  /\ NestedElements(ar, own)
  /\ \A i, j \in own : ar[i].scope = ar[j].scope => i = j
  /\ \A i \in own : LeadsToEncloser(ar, own, ar[i].scope, ar[i].prev)

(* The elements on the list of x: those that include its scope.            *)
Above(ar, own, x) == {j \in own : Contains(ar[j].scope, ar[x].scope)}

(* An uplink stays below every element that encloses where it starts.      *)
LEMMA UplinkBelow ==
  ASSUME NEW ar, NEW own, Linked(ar, own),
         NEW i \in own, NEW m \in own, m # i, Contains(ar[m].scope, ar[i].scope)
  PROVE  /\ ar[i].prev # NoLink /\ ar[i].prev \in own /\ ar[i].prev # i
         /\ Contains(ar[m].scope, ar[ar[i].prev].scope)
         /\ Contains(ar[ar[i].prev].scope, ar[i].scope)
<1>1. m \in Enclosing(ar, own, ar[i].scope)
  BY DEF Linked, Enclosing
<1>2. /\ ar[i].prev \in Enclosing(ar, own, ar[i].scope)
      /\ Contains(ar[m].scope, ar[ar[i].prev].scope)
  BY <1>1 DEF Linked, LeadsToEncloser
<1>3. QED
  BY <1>2 DEF Linked, NestedElements, Enclosing

LEMMA UplinkAbove ==
  ASSUME NEW ar, NEW own, Linked(ar, own), NEW i \in own, ar[i].prev # NoLink
  PROVE  /\ ar[i].prev \in own /\ ar[i].prev # i
         /\ Contains(ar[ar[i].prev].scope, ar[i].scope)
BY DEF Linked, LeadsToEncloser, Enclosing

(* A walk passes only what a closed set holds.                             *)
LEMMA WalkWithin ==
  ASSUME NEW ar, NEW x, NEW Stop, NEW P, P \subseteq DOMAIN ar, x \in P,
         \A i \in P \ Stop : ar[i].prev # NoLink => ar[i].prev \in P
  PROVE  Walk(ar, x, Stop) \subseteq P
BY DEF Walk, Closed

LEMMA WalkAbove ==
  ASSUME NEW ar, NEW own, Linked(ar, own), NEW x \in own, NEW Stop
  PROVE  Walk(ar, x, Stop) \subseteq Above(ar, own, x)
<1> DEFINE P == Above(ar, own, x)
<1>1. P \subseteq DOMAIN ar /\ x \in P
  BY ContainsReflexive DEF Above, Linked, NestedElements
<1>2. ASSUME NEW i \in P \ Stop, ar[i].prev # NoLink PROVE ar[i].prev \in P
  <2>1. /\ ar[i].prev \in own /\ Contains(ar[ar[i].prev].scope, ar[i].scope)
    BY <1>2, UplinkAbove DEF Above
  <2>2. Contains(ar[ar[i].prev].scope, ar[x].scope)
    BY <2>1, ContainsTransitive DEF Above, Linked, NestedElements
  <2>3. QED
    BY <2>1, <2>2 DEF Above
<1>3. QED
  BY <1>1, <1>2, WalkWithin

(* A walk arrives at m if nothing below m stops it.                        *)
LEMMA WalkArrives ==
  ASSUME NEW ar, NEW own, Linked(ar, own), NEW x \in own, NEW Stop,
         NEW m \in Above(ar, own, x),
         \A j \in Above(ar, own, x) : Contains(ar[m].scope, ar[j].scope) /\ j # m => j \notin Stop
  PROVE  m \in Walk(ar, x, Stop)
<1> SUFFICES ASSUME NEW C \in Closed(ar, x, Stop), m \notin C
             PROVE  FALSE
  BY DEF Walk, Above, Linked, NestedElements
<1> DEFINE S == {j \in C \cap Above(ar, own, x) : Contains(ar[m].scope, ar[j].scope)}
<1>1. /\ \A i \in own : ar[i].scope \in ProperScopes
      /\ m \in own /\ NestedElements(ar, own)
  BY DEF Above, Linked, NestedElements
<1>2. S \in SUBSET own /\ x \in S
  BY <1>1, ContainsReflexive DEF Above, Closed
<1>3. ar[x].scope.start \in Nat /\ \A i \in S : Covers(ar[i].scope, ar[x].scope.start)
  BY <1>1, <1>2 DEF Above, Covers, Contains, ProperScopes
<1>4. PICK top \in S : \A j \in S : Contains(ar[top].scope, ar[j].scope)
  BY <1>1, <1>2, <1>3, LargestElement
<1>5. top # m /\ top \in own /\ top \in C \ Stop
  BY <1>2
<1>6. /\ ar[top].prev # NoLink /\ ar[top].prev \in own /\ ar[top].prev # top
      /\ Contains(ar[m].scope, ar[ar[top].prev].scope)
      /\ Contains(ar[ar[top].prev].scope, ar[top].scope)
  BY <1>1, <1>5, UplinkBelow
<1>7. ar[top].prev \in C
  BY <1>5, <1>6 DEF Closed
<1>8. Contains(ar[ar[top].prev].scope, ar[x].scope)
  BY <1>1, <1>6, ContainsTransitive DEF Above
<1>9. ar[top].prev \in S
  BY <1>6, <1>7, <1>8 DEF Above
<1>10. ar[ar[top].prev].scope = ar[top].scope
  BY <1>1, <1>4, <1>5, <1>6, <1>9, ContainsAntisymmetric
<1>11. QED
  BY <1>5, <1>6, <1>10 DEF Linked

(* What a loop stops at: the first element above x that is in Stop.        *)
LEMMA StopsAtFirst ==
  ASSUME NEW ar, NEW own, Linked(ar, own), NEW x \in own, NEW Stop,
         NEW m \in Above(ar, own, x), m \in Stop,
         \A j \in Above(ar, own, x) : Contains(ar[m].scope, ar[j].scope) /\ j # m => j \notin Stop
  PROVE  StopsAt(ar, x, Stop) = m
<1> DEFINE P == {j \in Above(ar, own, x) : Contains(ar[m].scope, ar[j].scope)}
<1>1. /\ \A i \in own : ar[i].scope \in ProperScopes
      /\ m \in own /\ NestedElements(ar, own)
  BY DEF Above, Linked, NestedElements
<1>2. P \subseteq DOMAIN ar /\ x \in P
  BY <1>1, ContainsReflexive DEF Above, NestedElements
<1>3. ASSUME NEW i \in P \ Stop PROVE ar[i].prev \in P
  <2>1. i \in own /\ i # m
    BY <1>3 DEF Above
  <2>2. /\ ar[i].prev \in own
        /\ Contains(ar[m].scope, ar[ar[i].prev].scope)
        /\ Contains(ar[ar[i].prev].scope, ar[i].scope)
    BY <1>1, <2>1, UplinkBelow
  <2>3. Contains(ar[ar[i].prev].scope, ar[x].scope)
    BY <1>1, <2>1, <2>2, ContainsTransitive DEF Above
  <2>4. QED
    BY <2>2, <2>3 DEF Above
<1>4. Walk(ar, x, Stop) \subseteq P
  <2> HIDE DEF P
  <2>1. QED
    BY <1>2, <1>3, WalkWithin
<1>5. m \in Walk(ar, x, Stop)
  BY WalkArrives
<1>6. Walk(ar, x, Stop) \cap Stop = {m}
  BY <1>4, <1>5
<1>7. QED
  BY <1>6 DEF StopsAt

LEMMA StopsNowhere ==
  ASSUME NEW ar, NEW own, Linked(ar, own), NEW x \in own, NEW Stop,
         Above(ar, own, x) \cap Stop = {}
  PROVE  StopsAt(ar, x, Stop) = NoLink
BY WalkAbove DEF StopsAt

(* A loop stops if it can, and at the smallest element above x.             *)
LEMMA StopsSomewhere ==
  ASSUME NEW ar, NEW own, Linked(ar, own), NEW x \in own, NEW Stop,
         Above(ar, own, x) \cap Stop # {}
  PROVE  /\ StopsAt(ar, x, Stop) # NoLink
         /\ StopsAt(ar, x, Stop) \in Above(ar, own, x) \cap Stop
         /\ \A j \in Above(ar, own, x) \cap Stop :
              Contains(ar[j].scope, ar[StopsAt(ar, x, Stop)].scope)
<1> DEFINE S == Above(ar, own, x) \cap Stop
<1>1. S # {}
  OBVIOUS
<1>2. /\ \A i \in own : ar[i].scope \in ProperScopes
      /\ NestedElements(ar, own)
  BY DEF Linked, NestedElements
<1>3. S \in SUBSET own
  BY DEF Above
<1>4. ar[x].scope.start \in Nat /\ \A i \in S : Covers(ar[i].scope, ar[x].scope.start)
  BY <1>2, <1>3 DEF Above, Covers, Contains, ProperScopes
<1>5. PICK m \in S : \A j \in S : Contains(ar[j].scope, ar[m].scope)
  BY <1>1, <1>2, <1>3, <1>4, SmallestElement
<1>6. ASSUME NEW j \in Above(ar, own, x), Contains(ar[m].scope, ar[j].scope), j # m
      PROVE  j \notin Stop
  <2> SUFFICES ASSUME j \in Stop PROVE FALSE
    OBVIOUS
  <2>1. Contains(ar[j].scope, ar[m].scope)
    BY <1>5, <1>6
  <2>2. ar[j].scope = ar[m].scope
    BY <1>2, <1>3, <1>6, <2>1, ContainsAntisymmetric DEF Above
  <2>3. QED
    BY <1>3, <1>6, <2>2 DEF Above, Linked
<1>7. StopsAt(ar, x, Stop) = m
  BY <1>5, <1>6, StopsAtFirst
<1>8. QED
  BY <1>2, <1>3, <1>5, <1>7 DEF NestedElements

LEMMA StopsAtSmallest ==
  ASSUME NEW ar, NEW own, Linked(ar, own), NEW x \in own, NEW Stop,
         StopsAt(ar, x, Stop) # NoLink
  PROVE  /\ StopsAt(ar, x, Stop) \in Above(ar, own, x) \cap Stop
         /\ \A j \in Above(ar, own, x) \cap Stop :
              Contains(ar[j].scope, ar[StopsAt(ar, x, Stop)].scope)
<1>1. Above(ar, own, x) \cap Stop # {}
  BY StopsNowhere
<1>2. QED
  BY <1>1, StopsSomewhere

-----------------------------------------------------------------------------
(* What an insertion finds.  A scope that no element has yet is fresh.     *)

Fresh(ar, own, s) ==
  /\ s \in ProperScopes
  /\ \A i \in own : ar[i].scope # s /\ ~Crossing(ar[i].scope, s)

(* The element of a list that is the last one inside the scope.            *)
LastInside(ar, s, i) ==
  /\ Contains(s, ar[i].scope)
  /\ ar[i].prev # NoLink => ~Contains(s, ar[ar[i].prev].scope)

LEMMA InnerlastIs ==
  ASSUME NEW ar, NEW own, Linked(ar, own), NEW s, Fresh(ar, own, s),
         NEW x \in own, NEW i \in Above(ar, own, x), LastInside(ar, s, i)
  PROVE  Innerlast(ar, x, s) = i
<1> DEFINE Stop == NotInside(ar, s)
           In == {j \in Above(ar, own, x) : Contains(ar[i].scope, ar[j].scope)}
           P == In \cup ({ar[i].prev} \ {NoLink})
<1>1. /\ \A j \in own : ar[j].scope \in ProperScopes
      /\ i \in own /\ own \subseteq DOMAIN ar /\ s \in ProperScopes
      /\ NoLink \notin DOMAIN ar
  BY DEF Above, Linked, NestedElements, Fresh
<1>2. \A j \in In : j \in own /\ Contains(s, ar[j].scope) /\ j \notin Stop
  BY <1>1, ContainsTransitive DEF Above, LastInside, NotInside, Fresh
<1>3. ar[i].prev # NoLink => ar[i].prev \in own /\ ar[i].prev \in Stop
  BY <1>1, UplinkAbove DEF LastInside, NotInside
<1>4. i \in In /\ x \in In
  BY <1>1, ContainsReflexive DEF Above
<1>5. ASSUME NEW j \in In, j # i
      PROVE  ar[j].prev # NoLink /\ ar[j].prev \in In
  <2>1. j \in own
    BY <1>2
  <2>2. /\ ar[j].prev # NoLink /\ ar[j].prev \in own
        /\ Contains(ar[i].scope, ar[ar[j].prev].scope)
        /\ Contains(ar[ar[j].prev].scope, ar[j].scope)
    BY <1>1, <1>5, <2>1, UplinkBelow
  <2>3. Contains(ar[ar[j].prev].scope, ar[x].scope)
    BY <1>1, <2>1, <2>2, ContainsTransitive DEF Above
  <2>4. QED
    BY <2>2, <2>3 DEF Above
<1>6. P \subseteq DOMAIN ar /\ x \in P
  BY <1>1, <1>2, <1>3, <1>4
<1>7. \A j \in P \ Stop : ar[j].prev # NoLink => ar[j].prev \in P
  BY <1>3, <1>5
<1>8. Walk(ar, x, Stop) \subseteq P
  <2> HIDE DEF P, Stop
  <2>1. QED
    BY <1>6, <1>7, WalkWithin
<1>9. i \in Walk(ar, x, Stop)
  BY <1>2, WalkArrives
<1>10. Walk(ar, x, Stop) \ Stop \subseteq In
  BY <1>3, <1>8
<1>11. ar[i].prev \in Stop \cup {NoLink}
  BY <1>3
<1>12. \A j \in In : j # i => ar[j].prev \notin Stop \cup {NoLink}
  BY <1>2, <1>5
<1>13. i \in Walk(ar, x, Stop) \ Stop
  BY <1>2, <1>4, <1>9
<1>14. (CHOOSE j \in Walk(ar, x, Stop) \ Stop : ar[j].prev \in Stop \cup {NoLink}) = i
  BY <1>10, <1>11, <1>12, <1>13
<1>15. QED
  BY <1>13, <1>14 DEF Innerlast, LastPassed

(* A list that starts inside a scope has a last element inside it.         *)
LEMMA LastInsideExists ==
  ASSUME NEW ar, NEW own, Linked(ar, own), NEW s, Fresh(ar, own, s),
         NEW x \in own, Contains(s, ar[x].scope)
  PROVE  \E i \in Above(ar, own, x) : LastInside(ar, s, i)
<1> DEFINE S == {j \in Above(ar, own, x) : Contains(s, ar[j].scope)}
<1>1. /\ \A j \in own : ar[j].scope \in ProperScopes
      /\ NestedElements(ar, own) /\ s \in ProperScopes
  BY DEF Linked, NestedElements, Fresh
<1>2. S \in SUBSET own /\ x \in S
  BY <1>1, ContainsReflexive DEF Above
<1>3. ar[x].scope.start \in Nat /\ \A i \in S : Covers(ar[i].scope, ar[x].scope.start)
  BY <1>1, <1>2 DEF Above, Covers, Contains, ProperScopes
<1>4. PICK top \in S : \A j \in S : Contains(ar[top].scope, ar[j].scope)
  BY <1>1, <1>2, <1>3, LargestElement
<1>5. ASSUME ar[top].prev # NoLink, Contains(s, ar[ar[top].prev].scope) PROVE FALSE
  <2>1. /\ ar[top].prev \in own /\ ar[top].prev # top
        /\ Contains(ar[ar[top].prev].scope, ar[top].scope)
    BY <1>2, <1>5, UplinkAbove
  <2>2. Contains(ar[ar[top].prev].scope, ar[x].scope)
    BY <1>1, <1>2, <2>1, ContainsTransitive DEF Above
  <2>3. ar[top].prev \in S
    BY <1>5, <2>1, <2>2 DEF Above
  <2>4. ar[ar[top].prev].scope = ar[top].scope
    BY <1>1, <1>2, <1>4, <2>1, <2>3, ContainsAntisymmetric
  <2>5. QED
    BY <1>2, <2>1, <2>4 DEF Linked
<1>6. QED
  BY <1>5 DEF LastInside

(* A list that does not start inside a scope has none.                     *)
LEMMA InnerlastNone ==
  ASSUME NEW ar, NEW own, Linked(ar, own), NEW s, NEW x \in own,
         ~Contains(s, ar[x].scope)
  PROVE  Innerlast(ar, x, s) = NoLink
<1>1. x \in NotInside(ar, s) /\ x \in DOMAIN ar
  BY DEF NotInside, Linked, NestedElements
<1> DEFINE P == {x}
           Stop == NotInside(ar, s)
<1>2. /\ P \subseteq DOMAIN ar /\ x \in P
      /\ \A i \in P \ Stop : ar[i].prev # NoLink => ar[i].prev \in P
  BY <1>1
<1>3. Walk(ar, x, Stop) \subseteq P
  <2> HIDE DEF P, Stop
  <2>1. QED
    BY <1>2, WalkWithin
<1>4. QED
  BY <1>1, <1>3 DEF Innerlast, LastPassed

LEMMA InnerlastSome ==
  ASSUME NEW ar, NEW own, Linked(ar, own), NEW s, Fresh(ar, own, s),
         NEW x \in own, Contains(s, ar[x].scope)
  PROVE  /\ Innerlast(ar, x, s) \in own /\ Innerlast(ar, x, s) # NoLink
         /\ LastInside(ar, s, Innerlast(ar, x, s))
<1>1. PICK i \in Above(ar, own, x) : LastInside(ar, s, i)
  BY LastInsideExists
<1>2. Innerlast(ar, x, s) = i
  BY <1>1, InnerlastIs
<1>3. QED
  BY <1>1, <1>2 DEF Above, Linked, NestedElements

-----------------------------------------------------------------------------
(* The search tree.                                                        *)

(* The first of the lists that end after k.                                *)
LEMMA UpperBound ==
  ASSUME NEW ends, DOMAIN ends \subseteq Nat, NEW k \in Nat, EndsAfter(ends, k) # {}
  PROVE  /\ upper_bound(ends, k) \in DOMAIN ends /\ k < upper_bound(ends, k)
         /\ \A e \in DOMAIN ends : k < e => upper_bound(ends, k) <= e
<1>1. EndsAfter(ends, k) \in SUBSET Nat
  BY DEF EndsAfter
<1>2. \E m \in EndsAfter(ends, k) : \A n \in EndsAfter(ends, k) : m <= n
  BY <1>1, NatMin
<1>3. /\ upper_bound(ends, k) \in EndsAfter(ends, k)
      /\ \A f \in EndsAfter(ends, k) : upper_bound(ends, k) <= f
  BY <1>2 DEF upper_bound
<1>4. QED
  BY <1>3 DEF EndsAfter

(* The list of an end holds every element that covers the step before the  *)
(* end and ends there or later.                                            *)
LEMMA ListHolds ==
  ASSUME NEW ar, NEW own, NEW ends, Linked(ar, own), EndsLeadToInnermost(ar, ends, own),
         NEW e \in DOMAIN ends, NEW j \in own,
         ar[j].scope.start < e, e <= ar[j].scope.end
  PROVE  j \in Above(ar, own, ends[e])
<1> DEFINE x == ends[e]
<1>1. /\ x \in own /\ ar[x].scope.end = e
      /\ ar[j].scope.end = e => ar[j].scope.start <= ar[x].scope.start
  BY DEF EndsLeadToInnermost
<1>2. /\ ar[x].scope \in ProperScopes /\ ar[j].scope \in ProperScopes
      /\ ~Crossing(ar[x].scope, ar[j].scope)
  BY <1>1 DEF Linked, NestedElements
<1>3. Contains(ar[j].scope, ar[x].scope)
  BY <1>1, <1>2 DEF Crossing, Contains, ProperScopes
<1>4. QED
  BY <1>3 DEF Above

(* The elements that enclose a fresh scope and end where it ends or later  *)
(* are found from the list of its end, where the walk meets the smallest.  *)
LEMMA MeetsEncloser ==
  ASSUME NEW ar, NEW own, NEW ends, Linked(ar, own), EndsLeadToInnermost(ar, ends, own),
         NEW s, Fresh(ar, own, s), s.end \in DOMAIN ends
  PROVE  LET met == Meets(ar, ends[s.end], s)
         IN  IF met = NoLink THEN Enclosing(ar, own, s) = {}
             ELSE LeadsToEncloser(ar, own, s, met)
<1> DEFINE x == ends[s.end]
           met == Meets(ar, x, s)
<1>1. /\ x \in own /\ ar[x].scope.end = s.end
      /\ \A j \in own : ar[j].scope \in ProperScopes /\ ar[j].scope # s
                        /\ ~Crossing(ar[j].scope, s)
      /\ own \subseteq DOMAIN ar /\ s \in ProperScopes
  BY DEF EndsLeadToInnermost, Linked, NestedElements, Fresh
<1>2. ASSUME NEW j \in Above(ar, own, x) PROVE Contains(s, ar[j].scope) \/ Contains(ar[j].scope, s)
  BY <1>1 DEF Above, Contains, Crossing, ProperScopes
<1>3. Enclosing(ar, own, s) \subseteq Above(ar, own, x) \cap NotInside(ar, s)
  <2> SUFFICES ASSUME NEW j \in Enclosing(ar, own, s)
               PROVE  j \in Above(ar, own, x) \cap NotInside(ar, s)
    OBVIOUS
  <2>1. j \in own /\ Contains(ar[j].scope, s)
    BY DEF Enclosing
  <2>2. ~Contains(s, ar[j].scope)
    BY <1>1, <2>1, ContainsAntisymmetric
  <2>3. ar[j].scope.start < s.end /\ s.end <= ar[j].scope.end
    BY <1>1, <2>1 DEF Contains, ProperScopes
  <2>4. j \in Above(ar, own, x)
    BY <2>1, <2>3, ListHolds
  <2>5. QED
    BY <1>1, <2>1, <2>2, <2>4 DEF NotInside
<1>4. CASE met = NoLink
  <2>1. ASSUME NEW j \in Enclosing(ar, own, s) PROVE FALSE
    <3>1. j \in Above(ar, own, x) \cap NotInside(ar, s)
      BY <1>3
    <3>2. Above(ar, own, x) \cap NotInside(ar, s) # {}
      BY <3>1
    <3>3. met # NoLink
      BY <1>1, <3>2, StopsSomewhere DEF Meets
    <3>4. QED
      BY <1>4, <3>3
  <2>2. QED
    BY <1>4, <2>1
<1>5. CASE met # NoLink
  <2>1. /\ met \in Above(ar, own, x) \cap NotInside(ar, s)
        /\ \A j \in Above(ar, own, x) \cap NotInside(ar, s) : Contains(ar[j].scope, ar[met].scope)
    BY <1>1, <1>5, StopsAtSmallest DEF Meets
  <2>2. met \in own /\ Contains(ar[met].scope, s)
    BY <1>1, <1>2, <2>1 DEF NotInside, Above
  <2>3. met \in Enclosing(ar, own, s)
    BY <1>1, <2>2 DEF Enclosing
  <2>4. QED
    BY <1>3, <1>5, <2>1, <2>3 DEF LeadsToEncloser
<1>6. QED
  BY <1>4, <1>5

(* Enclosing elements that all end later are found from the next list.     *)
LEMMA UplinkLeads ==
  ASSUME NEW ar, NEW own, NEW ends, Linked(ar, own), EndsLeadToInnermost(ar, ends, own),
         NEW s, Fresh(ar, own, s),
         \A j \in Enclosing(ar, own, s) : ar[j].scope.end # s.end
  PROVE  LeadsToEncloser(ar, own, s, Uplink(ar, ends, s))
<1> DEFINE next == upper_bound(ends, s.end)
           Stop == {j \in DOMAIN ar : Contains(ar[j].scope, s)}
<1>1. /\ \A j \in own : ar[j].scope \in ProperScopes /\ ar[j].scope # s
      /\ own \subseteq DOMAIN ar /\ s \in ProperScopes
      /\ DOMAIN ends = {ar[i].scope.end : i \in own}
  BY DEF EndsLeadToInnermost, Linked, NestedElements, Fresh
<1>2. DOMAIN ends \subseteq Nat /\ s.end \in Nat
  BY <1>1 DEF ProperScopes
<1>3. \A j \in Enclosing(ar, own, s) : j \in own /\ s.end < ar[j].scope.end /\ ar[j].scope.end \in DOMAIN ends
  BY <1>1 DEF Enclosing, Contains, ProperScopes
<1>4. CASE EndsAfter(ends, s.end) = {}
  <2>1. Enclosing(ar, own, s) = {}
    BY <1>3, <1>4 DEF EndsAfter
  <2>2. QED
    BY <1>4, <2>1 DEF Uplink, LeadsToEncloser
<1>5. CASE EndsAfter(ends, s.end) # {}
  <2>1. /\ next \in DOMAIN ends /\ s.end < next
        /\ \A e \in DOMAIN ends : s.end < e => next <= e
    BY <1>2, <1>5, UpperBound
  <2>2. ends[next] \in own
    BY <2>1 DEF EndsLeadToInnermost
  <2>3. ASSUME NEW j \in Enclosing(ar, own, s) PROVE j \in Above(ar, own, ends[next])
    <3>1. j \in own /\ next <= ar[j].scope.end
      BY <1>3, <2>1
    <3>2. ar[j].scope.start < next
      BY <1>1, <1>2, <2>1, <3>1 DEF Enclosing, Contains, ProperScopes
    <3>3. QED
      BY <2>1, <3>1, <3>2, ListHolds
  <2>4. Above(ar, own, ends[next]) \cap Stop = Enclosing(ar, own, s)
    BY <1>1, <2>3 DEF Above, Enclosing
  <2>5. Uplink(ar, ends, s) = StopsAt(ar, ends[next], Stop)
    BY <1>5 DEF Uplink, rightNeighborUpLink
  <2>6. CASE Enclosing(ar, own, s) = {}
    <3>1. StopsAt(ar, ends[next], Stop) = NoLink
      BY <2>2, <2>4, <2>6, StopsNowhere
    <3>2. QED
      BY <2>5, <2>6, <3>1 DEF LeadsToEncloser
  <2>7. CASE Enclosing(ar, own, s) # {}
    <3>1. /\ StopsAt(ar, ends[next], Stop) \in Above(ar, own, ends[next]) \cap Stop
          /\ \A j \in Above(ar, own, ends[next]) \cap Stop :
               Contains(ar[j].scope, ar[StopsAt(ar, ends[next], Stop)].scope)
      BY <2>2, <2>4, <2>7, StopsSomewhere
    <3>2. QED
      BY <2>4, <2>5, <3>1 DEF LeadsToEncloser
  <2>8. QED
    BY <2>6, <2>7
<1>6. QED
  BY <1>4, <1>5

(* The new element leads to the smallest scope that encloses it.           *)
LEMMA NewPrevLeads ==
  ASSUME NEW ar, NEW own, NEW ends, Linked(ar, own), EndsLeadToInnermost(ar, ends, own),
         NEW s, Fresh(ar, own, s)
  PROVE  LeadsToEncloser(ar, own, s, NewPrev(ar, ends, s))
<1>1. CASE s.end \in DOMAIN ends /\ Meets(ar, ends[s.end], s) # NoLink
  BY <1>1, MeetsEncloser DEF NewPrev
<1>2. CASE s.end \in DOMAIN ends /\ Meets(ar, ends[s.end], s) = NoLink
  <2>1. Enclosing(ar, own, s) = {}
    BY <1>2, MeetsEncloser
  <2>2. QED
    BY <1>2, <2>1, UplinkLeads DEF NewPrev
<1>3. CASE s.end \notin DOMAIN ends
  <2>1. \A j \in Enclosing(ar, own, s) : ar[j].scope.end # s.end
    BY <1>3 DEF EndsLeadToInnermost, Enclosing
  <2>2. QED
    BY <1>3, <2>1, UplinkLeads DEF NewPrev
<1>4. QED
  BY <1>1, <1>2, <1>3

(* A scope is known if and only if an element has it ...                   *)
LEMMA KnownIff ==
  ASSUME NEW ar, NEW own, NEW ends, Linked(ar, own), EndsLeadToInnermost(ar, ends, own),
         NEW s \in ProperScopes
  PROVE  /\ Known(ar, ends, s) <=> \E i \in own : ar[i].scope = s
         /\ \A i \in own : ar[i].scope = s => Meets(ar, ends[s.end], s) = i
<1>1. ASSUME NEW i \in own, ar[i].scope = s
      PROVE  s.end \in DOMAIN ends /\ Meets(ar, ends[s.end], s) = i
  <2>1. s.end \in DOMAIN ends
    BY <1>1 DEF EndsLeadToInnermost
  <2>2. ends[s.end] \in own
    BY <2>1 DEF EndsLeadToInnermost
  <2>3. ar[i].scope.start < s.end /\ s.end <= ar[i].scope.end
    BY <1>1 DEF ProperScopes
  <2>4. i \in Above(ar, own, ends[s.end])
    BY <2>1, <2>3, ListHolds
  <2>5. i \in NotInside(ar, s)
    BY <1>1 DEF NotInside, Linked, NestedElements
  <2>6. ASSUME NEW j \in Above(ar, own, ends[s.end]), Contains(ar[i].scope, ar[j].scope), j # i
        PROVE  j \notin NotInside(ar, s)
    <3>1. ar[j].scope # s
      BY <1>1, <2>6 DEF Above, Linked
    <3>2. QED
      BY <1>1, <2>6, <3>1 DEF NotInside
  <2>7. QED
    BY <2>1, <2>2, <2>4, <2>5, <2>6, StopsAtFirst DEF Meets
<1>2. ASSUME NEW i \in own, ar[i].scope = s PROVE Known(ar, ends, s)
  <2>1. i # NoLink
    BY DEF Linked, NestedElements
  <2>2. QED
    BY <1>1, <1>2, <2>1 DEF Known
<1>3. ASSUME Known(ar, ends, s) PROVE \E i \in own : ar[i].scope = s
  <2>1. /\ s.end \in DOMAIN ends /\ Meets(ar, ends[s.end], s) # NoLink
        /\ ar[Meets(ar, ends[s.end], s)].scope = s
    BY <1>3 DEF Known
  <2>2. Meets(ar, ends[s.end], s) \in Above(ar, own, ends[s.end])
    BY <2>1, StopsAtSmallest DEF Meets, EndsLeadToInnermost
  <2>3. QED
    BY <2>1, <2>2 DEF Above
<1>4. QED
  BY <1>1, <1>2, <1>3

(* ... and no scope nested with the others is in conflict with them.       *)
LEMMA NotRefused ==
  ASSUME NEW ar, NEW own, NEW ends, Linked(ar, own), EndsLeadToInnermost(ar, ends, own),
         NEW s \in ProperScopes, \A i \in own : ~Crossing(ar[i].scope, s)
  PROVE  ~HierarchyError(ar, ends, s)
<1>1. CASE \E i \in own : ar[i].scope = s
  <2>1. PICK i \in own : ar[i].scope = s
    BY <1>1
  <2>2. Meets(ar, ends[s.end], s) = i
    BY <2>1, KnownIff
  <2>3. QED
    BY <2>1, <2>2, ContainsReflexive DEF HierarchyError
<1>2. CASE \A i \in own : ar[i].scope # s
  <2>1. Fresh(ar, own, s)
    BY <1>2 DEF Fresh
  <2>2. ASSUME s.end \in DOMAIN ends, Meets(ar, ends[s.end], s) # NoLink
        PROVE  Contains(ar[Meets(ar, ends[s.end], s)].scope, s)
    BY <2>1, <2>2, MeetsEncloser DEF LeadsToEncloser, Enclosing
  <2>3. QED
    BY <2>2 DEF HierarchyError
<1>3. QED
  BY <1>1, <1>2

-----------------------------------------------------------------------------
(* Insertion.                                                              *)

Item(V) == [scope : ProperScopes, value : V, prev : Nat]

Lists(ends, s) == {ends[e] : e \in {f \in DOMAIN ends : s.start < f /\ f <= s.end}}

(* The elements linked to the new one are the last ones inside its scope.  *)
LEMMA Relinked ==
  ASSUME NEW V, NEW ar, \A j \in DOMAIN ar : ar[j] \in Item(V), NEW own, NEW ends,
         Linked(ar, own), EndsLeadToInnermost(ar, ends, own), NEW s, Fresh(ar, own, s),
         NEW n, NEW i \in DOMAIN ar
  PROVE  LET linked == linkLeftNeighbours(ar, Lists(ends, s), s, n)
         IN  /\ linked[i].scope = ar[i].scope /\ linked[i].value = ar[i].value
             /\ i \in own /\ LastInside(ar, s, i) => linked[i].prev = n
             /\ ~(i \in own /\ LastInside(ar, s, i)) => linked[i].prev = ar[i].prev
<1> DEFINE lists == Lists(ends, s)
           open(x) == LET met == Meets(ar, x, s)
                      IN  met = NoLink \/ ar[met].scope # s
           preds == {Innerlast(ar, x, s) : x \in {y \in lists : open(y)}}
<1>1. /\ \A j \in own : ar[j].scope \in ProperScopes /\ ar[j].scope # s
      /\ own \subseteq DOMAIN ar /\ s \in ProperScopes /\ NoLink \notin DOMAIN ar
      /\ \A e \in DOMAIN ends : ends[e] \in own
  BY DEF EndsLeadToInnermost, Linked, NestedElements, Fresh
<1>2. lists \subseteq own
  BY <1>1 DEF Lists
<1>3. ASSUME NEW x \in lists PROVE open(x)
  <2>1. Meets(ar, x, s) # NoLink => Meets(ar, x, s) \in own
    BY <1>2, StopsAtSmallest DEF Meets, Above
  <2>2. QED
    BY <1>1, <2>1
<1>4. preds = {Innerlast(ar, x, s) : x \in lists}
  BY <1>3
<1>5. ASSUME i \in preds PROVE i \in own /\ LastInside(ar, s, i)
  <2>1. PICK x \in lists : i = Innerlast(ar, x, s)
    BY <1>4, <1>5
  <2>2. x \in own /\ Contains(s, ar[x].scope)
    BY <1>1, <1>2, <2>1, InnerlastNone
  <2>3. QED
    BY <2>1, <2>2, InnerlastSome
<1>6. ASSUME i \in own, LastInside(ar, s, i) PROVE i \in preds
  <2> DEFINE e == ar[i].scope.end
  <2>1. s.start < e /\ e <= s.end /\ ar[i].scope.start < e /\ e <= ar[i].scope.end
    BY <1>1, <1>6 DEF LastInside, Contains, ProperScopes
  <2>2. e \in DOMAIN ends
    BY <1>6 DEF EndsLeadToInnermost
  <2>3. ends[e] \in lists
    BY <2>1, <2>2 DEF Lists
  <2>4. i \in Above(ar, own, ends[e])
    BY <1>6, <2>1, <2>2, ListHolds
  <2>5. Innerlast(ar, ends[e], s) = i
    BY <1>2, <1>6, <2>3, <2>4, InnerlastIs
  <2>6. QED
    BY <1>4, <2>3, <2>5
<1>7. linkLeftNeighbours(ar, lists, s, n)[i]
        = IF i \in preds THEN [ar[i] EXCEPT !.prev = n] ELSE ar[i]
  BY DEF linkLeftNeighbours
<1>8. ar[i] \in Item(V)
  OBVIOUS
<1>9. /\ [ar[i] EXCEPT !.prev = n].scope = ar[i].scope
      /\ [ar[i] EXCEPT !.prev = n].value = ar[i].value
      /\ [ar[i] EXCEPT !.prev = n].prev = n
  BY <1>8 DEF Item
<1>10. QED
  BY <1>5, <1>6, <1>7, <1>9

(* The array after an insertion.                                           *)
IsInsertion(ar, own, ends, s, v, new) ==
  LET n == Len(ar) + 1
  IN  /\ DOMAIN new = DOMAIN ar \cup {n} /\ Len(new) = n /\ n \notin DOMAIN ar
      /\ new[n] = [scope |-> s, value |-> v, prev |-> NewPrev(ar, ends, s)]
      /\ \A i \in DOMAIN ar :
           /\ new[i].scope = ar[i].scope /\ new[i].value = ar[i].value
           /\ i \in own /\ LastInside(ar, s, i) => new[i].prev = n
           /\ ~(i \in own /\ LastInside(ar, s, i)) => new[i].prev = ar[i].prev

LEMMA InsertedItems ==
  ASSUME NEW V, NEW ar \in Seq(Item(V)), NEW own, NEW ends, Linked(ar, own),
         EndsLeadToInnermost(ar, ends, own), NEW s, Fresh(ar, own, s), NEW v
  PROVE  IsInsertion(ar, own, ends, s, v, Inserted(ar, ends, s, v))
<1> DEFINE n == Len(ar) + 1
           linked == linkLeftNeighbours(ar, Lists(ends, s), s, n)
           item == [scope |-> s, value |-> v, prev |-> NewPrev(ar, ends, s)]
           new == Inserted(ar, ends, s, v)
<1>1. Len(ar) \in Nat /\ DOMAIN ar = 1 .. Len(ar) /\ \A i \in DOMAIN ar : ar[i] \in Item(V)
  OBVIOUS
<1>2. new = Append(linked, item)
  BY DEF Inserted, Lists
<1>3. DOMAIN linked = DOMAIN ar
  BY DEF linkLeftNeighbours
<1>4. \A i \in DOMAIN ar :
        /\ linked[i].scope = ar[i].scope /\ linked[i].value = ar[i].value
        /\ i \in own /\ LastInside(ar, s, i) => linked[i].prev = n
        /\ ~(i \in own /\ LastInside(ar, s, i)) => linked[i].prev = ar[i].prev
  BY <1>1, Relinked
<1>5. linked = [i \in 1 .. Len(ar) |-> linked[i]]
  BY <1>1, <1>3 DEF linkLeftNeighbours
<1>6. linked \in Seq({linked[i] : i \in 1 .. Len(ar)}) /\ Len(linked) = Len(ar)
  <2> HIDE DEF linked
  <2>1. QED
    BY <1>1, <1>5
<1>7. /\ DOMAIN new = 1 .. n /\ Len(new) = n /\ new[n] = item
      /\ \A i \in 1 .. Len(ar) : new[i] = linked[i]
  <2> HIDE DEF linked, item, new
  <2>1. QED
    BY <1>1, <1>2, <1>6
<1>8. QED
  BY <1>1, <1>4, <1>7 DEF IsInsertion

(* The types of the new element and of the new array.                      *)
LEMMA StopsAtType ==
  ASSUME NEW ar, NEW x, NEW Stop
  PROVE  StopsAt(ar, x, Stop) \in DOMAIN ar \cup {NoLink}
BY DEF StopsAt, Walk

LEMMA NewPrevType ==
  ASSUME NEW ar, DOMAIN ar \subseteq Nat, NEW ends, NEW s
  PROVE  NewPrev(ar, ends, s) \in Nat
<1>1. NoLink \in Nat
  BY DEF NoLink
<1>2. /\ NewPrev(ar, ends, s) = Meets(ar, ends[s.end], s)
      \/ NewPrev(ar, ends, s) = NoLink
      \/ NewPrev(ar, ends, s) = rightNeighborUpLink(ar, ends[upper_bound(ends, s.end)], s)
  BY DEF NewPrev, Uplink
<1>3. QED
  BY <1>1, <1>2, StopsAtType DEF Meets, rightNeighborUpLink

LEMMA InsertedType ==
  ASSUME NEW S, NEW V, NEW ar \in Seq([scope : S, value : V, prev : Nat]), NEW ends,
         NEW s \in S, NEW v \in V
  PROVE  /\ Inserted(ar, ends, s, v) \in Seq([scope : S, value : V, prev : Nat])
         /\ Len(Inserted(ar, ends, s, v)) = Len(ar) + 1
<1> DEFINE Element == [scope : S, value : V, prev : Nat]
           n == Len(ar) + 1
           linked == linkLeftNeighbours(ar, Lists(ends, s), s, n)
           item == [scope |-> s, value |-> v, prev |-> NewPrev(ar, ends, s)]
<1>0. ar \in Seq(Element) /\ \A i \in Nat, x \in Element : [x EXCEPT !.prev = i] \in Element
  OBVIOUS
<1>1. /\ Len(ar) \in Nat /\ DOMAIN ar = 1 .. Len(ar) /\ n \in Nat
      /\ \A i \in DOMAIN ar : ar[i] \in Element
  <2> HIDE DEF Element
  <2>1. QED
    BY <1>0
<1>2. linked \in [1 .. Len(ar) -> Element]
  <2> HIDE DEF Element
  <2>1. \A i \in DOMAIN ar : [ar[i] EXCEPT !.prev = n] \in Element
    BY <1>0, <1>1
  <2>2. QED
    BY <1>1, <2>1 DEF linkLeftNeighbours
<1>3. item \in Element
  BY <1>1, NewPrevType
<1>4. Inserted(ar, ends, s, v) = Append(linked, item)
  BY DEF Inserted, Lists
<1>5. QED
  <2> HIDE DEF linked, item, Element
  <2>1. linked \in Seq(Element) /\ Len(linked) = Len(ar)
    BY <1>1, <1>2
  <2>2. Inserted(ar, ends, s, v) \in Seq(Element) /\ Len(Inserted(ar, ends, s, v)) = Len(ar) + 1
    BY <1>3, <1>4, <2>1
  <2>3. QED
    BY <2>2 DEF Element

-----------------------------------------------------------------------------
LEMMA NestedItems ==
  ASSUME NEW V, NEW ar \in Seq(Item(V)), NEW own, own \subseteq DOMAIN ar,
         \A i, j \in own : ~Crossing(ar[i].scope, ar[j].scope)
  PROVE  NestedElements(ar, own)
<1>1. DOMAIN ar = 1 .. Len(ar) /\ NoLink \notin DOMAIN ar
  BY DEF NoLink
<1>2. \A i \in DOMAIN ar : ar[i] \in Item(V)
  OBVIOUS
<1>3. \A i \in own : ar[i].scope \in ProperScopes
  BY <1>2 DEF Item
<1>4. QED
  BY <1>1, <1>3 DEF NestedElements

(* The search tree stays right.                                            *)
LEMMA InsertedEnds ==
  ASSUME NEW V, NEW ar \in Seq(Item(V)), NEW own, NEW ends, Linked(ar, own),
         EndsLeadToInnermost(ar, ends, own), NEW s, Fresh(ar, own, s), NEW v
  PROVE  EndsLeadToInnermost(Inserted(ar, ends, s, v), NewEnds(ar, ends, s), own \cup {Len(ar) + 1})
<1> DEFINE n == Len(ar) + 1
           new == Inserted(ar, ends, s, v)
           tree == NewEnds(ar, ends, s)
<1>1. /\ n \notin DOMAIN ar /\ new[n].scope = s
      /\ \A i \in DOMAIN ar : new[i].scope = ar[i].scope
  <2>1. IsInsertion(ar, own, ends, s, v, new)
    BY InsertedItems
  <2>2. QED
    BY <2>1 DEF IsInsertion
<1>2. /\ \A j \in own : ar[j].scope \in ProperScopes
      /\ own \subseteq DOMAIN ar /\ s \in ProperScopes
      /\ DOMAIN ends = {ar[i].scope.end : i \in own}
      /\ \A e \in DOMAIN ends :
           /\ ends[e] \in own /\ ar[ends[e]].scope.end = e
           /\ \A i \in own : ar[i].scope.end = e => ar[i].scope.start <= ar[ends[e]].scope.start
  BY DEF EndsLeadToInnermost, Linked, NestedElements, Fresh
<1>3. DOMAIN tree = DOMAIN ends \cup {s.end}
  BY DEF NewEnds
<1>4. DOMAIN tree = {new[i].scope.end : i \in own \cup {n}}
  <2>1. {new[i].scope.end : i \in own} = {ar[i].scope.end : i \in own}
    BY <1>1, <1>2
  <2>2. {new[i].scope.end : i \in own \cup {n}} = {new[i].scope.end : i \in own} \cup {s.end}
    BY <1>1
  <2>3. QED
    BY <1>2, <1>3, <2>1, <2>2
<1>5. ASSUME NEW e \in DOMAIN tree
      PROVE  /\ tree[e] \in own \cup {n} /\ new[tree[e]].scope.end = e
             /\ \A i \in own \cup {n} : new[i].scope.end = e => new[i].scope.start <= new[tree[e]].scope.start
  <2>1. CASE e # s.end
    <3>1. tree[e] = ends[e] /\ e \in DOMAIN ends
      BY <1>3, <2>1 DEF NewEnds
    <3>2. QED
      BY <1>1, <1>2, <2>1, <3>1
  <2>2. CASE e = s.end /\ e \notin DOMAIN ends
    <3>1. tree[e] = n
      BY <2>2 DEF NewEnds
    <3>2. \A i \in own : ar[i].scope.end # e
      BY <1>2, <2>2
    <3>3. QED
      BY <1>1, <1>2, <2>2, <3>1, <3>2 DEF ProperScopes
  <2>3. CASE e = s.end /\ e \in DOMAIN ends /\ Contains(s, ar[ends[e]].scope)
    <3>1. Innerlast(ar, ends[e], s) # NoLink
      BY <1>2, <2>3, InnerlastSome
    <3>2. tree[e] = ends[e]
      BY <2>3, <3>1 DEF NewEnds
    <3>3. s.start <= ar[ends[e]].scope.start
      BY <2>3 DEF Contains
    <3>4. tree[e] \in own /\ new[tree[e]].scope.end = e /\ new[tree[e]].scope.start = ar[ends[e]].scope.start
      BY <1>1, <1>2, <2>3, <3>2
    <3>5. ASSUME NEW i \in own \cup {n}, new[i].scope.end = e
          PROVE  new[i].scope.start <= ar[ends[e]].scope.start
      <4>1. CASE i \in own
        BY <1>1, <1>2, <2>3, <3>5, <4>1
      <4>2. CASE i = n
        BY <1>1, <3>3, <4>2
      <4>3. QED
        BY <4>1, <4>2
    <3>6. QED
      BY <3>4, <3>5
  <2>4. CASE e = s.end /\ e \in DOMAIN ends /\ ~Contains(s, ar[ends[e]].scope)
    <3>1. Innerlast(ar, ends[e], s) = NoLink
      BY <1>2, <2>4, InnerlastNone
    <3>2. tree[e] = n
      BY <2>4, <3>1 DEF NewEnds
    <3>3. ar[ends[e]].scope.start <= s.start
      BY <1>2, <2>4 DEF Contains, ProperScopes
    <3>4. /\ s.start \in Nat /\ ar[ends[e]].scope.start \in Nat
          /\ \A i \in own : ar[i].scope.start \in Nat
      BY <1>2, <2>4 DEF ProperScopes
    <3>5. ASSUME NEW i \in own, ar[i].scope.end = e PROVE ar[i].scope.start <= s.start
      <4>1. ar[i].scope.start <= ar[ends[e]].scope.start
        BY <1>2, <2>4, <3>5
      <4>2. QED
        BY <3>3, <3>4, <4>1
    <3>6. \A i \in own \cup {n} : new[i].scope.end = e => new[i].scope.start <= s.start
      BY <1>1, <1>2, <3>4, <3>5
    <3>7. QED
      BY <1>1, <2>4, <3>2, <3>6
  <2>5. QED
    BY <2>1, <2>2, <2>3, <2>4
<1>6. QED
  BY <1>4, <1>5 DEF EndsLeadToInnermost

(* The elements below the new one lead to the smallest encloser still.     *)
LEMMA InsertedBelow ==
  ASSUME NEW V, NEW ar \in Seq(Item(V)), NEW own, NEW ends, Linked(ar, own),
         EndsLeadToInnermost(ar, ends, own), NEW s, Fresh(ar, own, s), NEW v,
         NEW i \in own
  PROVE  LET new == Inserted(ar, ends, s, v)
         IN  LeadsToEncloser(new, own \cup {Len(ar) + 1}, new[i].scope, new[i].prev)
<1> DEFINE n == Len(ar) + 1
           new == Inserted(ar, ends, s, v)
           all == own \cup {n}
<1>1. IsInsertion(ar, own, ends, s, v, new)
  BY InsertedItems
<1>2. /\ \A j \in own : ar[j].scope \in ProperScopes /\ ar[j].scope # s /\ ~Crossing(ar[j].scope, s)
      /\ own \subseteq DOMAIN ar /\ s \in ProperScopes
      /\ LeadsToEncloser(ar, own, ar[i].scope, ar[i].prev)
      /\ NoLink \notin DOMAIN ar
  BY DEF Linked, NestedElements, Fresh
<1>3. /\ n \notin DOMAIN ar /\ new[n].scope = s
      /\ \A j \in own : new[j].scope = ar[j].scope
  BY <1>1, <1>2 DEF IsInsertion
<1>4. n # NoLink
  BY DEF NoLink
<1>5. \A j : j \in Enclosing(new, all, ar[i].scope)
               <=> \/ j \in Enclosing(ar, own, ar[i].scope)
                   \/ j = n /\ Contains(s, ar[i].scope)
  BY <1>2, <1>3 DEF Enclosing
<1>6. CASE LastInside(ar, s, i)
  <2>1. new[i].prev = n
    BY <1>1, <1>2, <1>6 DEF IsInsertion
  <2>2. n \in Enclosing(new, all, ar[i].scope)
    BY <1>5, <1>6 DEF LastInside
  <2>3. ASSUME NEW j \in Enclosing(ar, own, ar[i].scope) PROVE Contains(ar[j].scope, s)
    <3> DEFINE up == ar[i].prev
    <3>1. up \in own /\ Contains(ar[up].scope, ar[i].scope) /\ Contains(ar[j].scope, ar[up].scope)
      BY <1>2, <2>3 DEF LeadsToEncloser, Enclosing
    <3>2. ~Contains(s, ar[up].scope)
      BY <1>2, <1>6, <3>1 DEF LastInside
    <3>3. /\ Covers(ar[up].scope, ar[i].scope.start) /\ Covers(s, ar[i].scope.start)
          /\ ar[i].scope.start \in Nat
      BY <1>2, <1>6, <3>1 DEF LastInside, Covers, Contains, ProperScopes
    <3>4. Contains(ar[up].scope, s)
      BY <1>2, <3>1, <3>2, <3>3, SharedStep
    <3>5. QED
      BY <1>2, <3>1, <3>4, ContainsTransitive DEF Enclosing
  <2>4. \A j \in Enclosing(new, all, ar[i].scope) : Contains(new[j].scope, s)
    <3>1. \A j \in Enclosing(ar, own, ar[i].scope) : Contains(new[j].scope, s)
      BY <1>3, <2>3 DEF Enclosing
    <3>2. Contains(new[n].scope, s)
      BY <1>2, <1>3, ContainsReflexive
    <3>3. QED
      BY <1>5, <3>1, <3>2
  <2>5. QED
    BY <1>3, <2>1, <2>2, <2>4 DEF LeadsToEncloser
<1>7. CASE ~LastInside(ar, s, i)
  <2>1. new[i].prev = ar[i].prev
    BY <1>1, <1>2, <1>7 DEF IsInsertion
  <2>2. CASE Contains(s, ar[i].scope)
    <3>1. ar[i].prev # NoLink /\ Contains(s, ar[ar[i].prev].scope)
      BY <1>7, <2>2 DEF LastInside
    <3>2. /\ ar[i].prev \in Enclosing(ar, own, ar[i].scope) /\ ar[i].prev \in own
          /\ \A j \in Enclosing(ar, own, ar[i].scope) : Contains(ar[j].scope, ar[ar[i].prev].scope)
      BY <1>2, <3>1 DEF LeadsToEncloser, Enclosing
    <3>3. \A j \in Enclosing(new, all, ar[i].scope) : Contains(new[j].scope, ar[ar[i].prev].scope)
      BY <1>3, <1>5, <3>1, <3>2 DEF Enclosing
    <3>4. QED
      BY <1>3, <1>5, <2>1, <3>2, <3>3 DEF LeadsToEncloser
  <2>3. CASE ~Contains(s, ar[i].scope)
    <3>1. Enclosing(new, all, ar[i].scope) = Enclosing(ar, own, ar[i].scope)
      BY <1>5, <2>3
    <3>2. \A j \in Enclosing(ar, own, ar[i].scope) : new[j].scope = ar[j].scope
      BY <1>3 DEF Enclosing
    <3>3. QED
      BY <1>2, <1>3, <2>1, <3>1, <3>2 DEF LeadsToEncloser
  <2>4. QED
    BY <2>2, <2>3
<1>8. QED
  BY <1>6, <1>7

(* An insertion keeps the elements of its key well linked ...              *)
LEMMA InsertedWellLinked ==
  ASSUME NEW V, NEW ar \in Seq(Item(V)), NEW own, NEW ends,
         NestedElements(ar, own), WellLinked(ar, ends, own), NEW s, Fresh(ar, own, s), NEW v
  PROVE  WellLinked(Inserted(ar, ends, s, v), NewEnds(ar, ends, s), own \cup {Len(ar) + 1})
<1> DEFINE n == Len(ar) + 1
           new == Inserted(ar, ends, s, v)
           all == own \cup {n}
<1>1. Linked(ar, own) /\ EndsLeadToInnermost(ar, ends, own)
  BY DEF WellLinked, Linked
<1>2. IsInsertion(ar, own, ends, s, v, new)
  BY <1>1, InsertedItems
<1>3. /\ \A j \in own : ar[j].scope # s
      /\ own \subseteq DOMAIN ar
      /\ \A i, j \in own : ar[i].scope = ar[j].scope => i = j
  BY <1>1 DEF Linked, NestedElements, Fresh
<1>4. /\ n \notin DOMAIN ar /\ new[n].scope = s /\ new[n].prev = NewPrev(ar, ends, s)
      /\ \A j \in own : new[j].scope = ar[j].scope
  BY <1>2, <1>3 DEF IsInsertion
<1>5. \A i, j \in all : new[i].scope = new[j].scope => i = j
  BY <1>3, <1>4
<1>6. EndsLeadToInnermost(new, NewEnds(ar, ends, s), all)
  BY <1>1, InsertedEnds
<1>7. \A i \in own : LeadsToEncloser(new, all, new[i].scope, new[i].prev)
  BY <1>1, InsertedBelow
<1>8. LeadsToEncloser(new, all, new[n].scope, new[n].prev)
  <2>1. LeadsToEncloser(ar, own, s, NewPrev(ar, ends, s))
    BY <1>1, NewPrevLeads
  <2>2. \A j : j \in Enclosing(new, all, s) <=> j \in Enclosing(ar, own, s)
    BY <1>4 DEF Enclosing
  <2>3. \A j \in Enclosing(ar, own, s) : new[j].scope = ar[j].scope
    BY <1>4 DEF Enclosing
  <2>4. QED
    BY <1>4, <2>1, <2>2, <2>3 DEF LeadsToEncloser
<1>9. \A i \in all : LeadsToEncloser(new, all, new[i].scope, new[i].prev)
  BY <1>7, <1>8
<1>10. QED
  BY <1>5, <1>6, <1>9 DEF WellLinked

(* ... and leaves those of another key alone.                              *)
LEMMA WellLinkedElsewhere ==
  ASSUME NEW ar, NEW new, NEW ends, NEW own, WellLinked(ar, ends, own),
         \A i \in own : new[i].scope = ar[i].scope /\ new[i].prev = ar[i].prev
  PROVE  WellLinked(new, ends, own)
<1>1. EndsLeadToInnermost(new, ends, own)
  <2>1. {new[i].scope.end : i \in own} = {ar[i].scope.end : i \in own}
    OBVIOUS
  <2>2. QED
    BY <2>1 DEF WellLinked, EndsLeadToInnermost
<1>2. ASSUME NEW i \in own PROVE LeadsToEncloser(new, own, new[i].scope, new[i].prev)
  <2>1. LeadsToEncloser(ar, own, ar[i].scope, ar[i].prev)
    BY DEF WellLinked
  <2>2. Enclosing(new, own, ar[i].scope) = Enclosing(ar, own, ar[i].scope)
    BY DEF Enclosing
  <2>3. \A j \in Enclosing(ar, own, ar[i].scope) : j \in own
    BY DEF Enclosing
  <2>4. QED
    BY <2>1, <2>2, <2>3 DEF LeadsToEncloser
<1>3. \A i, j \in own : new[i].scope = new[j].scope => i = j
  BY DEF WellLinked
<1>4. QED
  BY <1>1, <1>2, <1>3 DEF WellLinked

-----------------------------------------------------------------------------
(* Queries.                                                                *)

VisibleElements(ar, own, step) == {j \in own : Covers(ar[j].scope, step)}

LEMMA VisibleOnList ==
  ASSUME NEW ar, NEW own, NEW ends, Linked(ar, own), EndsLeadToInnermost(ar, ends, own),
         NEW step \in Nat, EndsAfter(ends, step) # {}
  PROVE  LET x == ends[upper_bound(ends, step)]
         IN  /\ x \in own
             /\ Above(ar, own, x) \cap {j \in DOMAIN ar : ar[j].scope.start <= step}
                  = VisibleElements(ar, own, step)
<1> DEFINE next == upper_bound(ends, step)
           x == ends[next]
<1>1. /\ \A j \in own : ar[j].scope \in ProperScopes /\ j \in DOMAIN ar
      /\ DOMAIN ends = {ar[i].scope.end : i \in own}
  BY DEF EndsLeadToInnermost, Linked, NestedElements
<1>2. DOMAIN ends \subseteq Nat
  BY <1>1 DEF ProperScopes
<1>3. /\ next \in DOMAIN ends /\ step < next
      /\ \A e \in DOMAIN ends : step < e => next <= e
  BY <1>2, UpperBound
<1>4. x \in own /\ ar[x].scope.end = next
  BY <1>3 DEF EndsLeadToInnermost
<1>5. ASSUME NEW j \in Above(ar, own, x), ar[j].scope.start <= step
      PROVE  Covers(ar[j].scope, step)
  <2>1. j \in own /\ ar[j].scope.end \in Nat /\ next \in Nat /\ next <= ar[j].scope.end
    BY <1>1, <1>2, <1>3, <1>4 DEF Above, Contains, ProperScopes
  <2>2. QED
    BY <1>3, <1>5, <2>1 DEF Covers
<1>6. ASSUME NEW j \in own, Covers(ar[j].scope, step) PROVE j \in Above(ar, own, x)
  <2>1. next <= ar[j].scope.end
    BY <1>1, <1>3, <1>6 DEF Covers
  <2>2. ar[j].scope.start < next
    <3>1. ar[j].scope.start \in Nat /\ next \in Nat /\ ar[j].scope.start <= step
      BY <1>1, <1>2, <1>3, <1>6 DEF Covers, ProperScopes
    <3>2. QED
      BY <1>3, <3>1
  <2>3. QED
    BY <1>3, <2>1, <2>2, ListHolds
<1>7. QED
  BY <1>1, <1>4, <1>5, <1>6 DEF VisibleElements, Above, Covers

(* The first element on the list of a step is the smallest visible one.    *)
LEMMA FirstVisible ==
  ASSUME NEW ar, NEW own, NEW ends, Linked(ar, own), EndsLeadToInnermost(ar, ends, own),
         NEW step \in Nat, EndsAfter(ends, step) # {}
  PROVE  LET i == first(ar, ends[upper_bound(ends, step)], step)
         IN  \/ i = NoLink /\ VisibleElements(ar, own, step) = {}
             \/ /\ i # NoLink /\ i \in VisibleElements(ar, own, step)
                /\ \A j \in VisibleElements(ar, own, step) : Contains(ar[j].scope, ar[i].scope)
<1> DEFINE x == ends[upper_bound(ends, step)]
           Stop == {j \in DOMAIN ar : ar[j].scope.start <= step}
<1>1. x \in own /\ Above(ar, own, x) \cap Stop = VisibleElements(ar, own, step)
  BY VisibleOnList
<1>2. first(ar, x, step) = StopsAt(ar, x, Stop)
  BY DEF first
<1>3. CASE VisibleElements(ar, own, step) = {}
  <2>1. StopsAt(ar, x, Stop) = NoLink
    <3> HIDE DEF x, Stop
    <3>1. QED
      BY <1>1, <1>3, StopsNowhere
  <2>2. QED
    BY <1>2, <1>3, <2>1
<1>4. CASE VisibleElements(ar, own, step) # {}
  <2>1. /\ StopsAt(ar, x, Stop) # NoLink
        /\ StopsAt(ar, x, Stop) \in Above(ar, own, x) \cap Stop
        /\ \A j \in Above(ar, own, x) \cap Stop :
             Contains(ar[j].scope, ar[StopsAt(ar, x, Stop)].scope)
    <3> HIDE DEF x, Stop
    <3>1. QED
      BY <1>1, <1>4, StopsSomewhere
  <2>2. QED
    BY <1>1, <1>2, <2>1
<1>5. QED
  BY <1>3, <1>4

LEMMA NothingVisible ==
  ASSUME NEW ar, NEW own, NEW ends, Linked(ar, own), EndsLeadToInnermost(ar, ends, own),
         NEW step \in Nat, EndsAfter(ends, step) = {}
  PROVE  VisibleElements(ar, own, step) = {}
BY DEF EndsAfter, EndsLeadToInnermost, VisibleElements, Covers

(* get returns the value of the smallest visible element.                  *)
LEMMA GetSmallest ==
  ASSUME NEW ar, NEW own, NEW ends, Linked(ar, own), EndsLeadToInnermost(ar, ends, own),
         NEW step \in Nat
  PROVE  \/ VisibleElements(ar, own, step) = {} /\ get(ar, ends, step) = NullVal
         \/ \E i \in VisibleElements(ar, own, step) :
              /\ \A j \in VisibleElements(ar, own, step) : Contains(ar[j].scope, ar[i].scope)
              /\ get(ar, ends, step) = ar[i].value
<1>1. CASE EndsAfter(ends, step) = {}
  BY <1>1, NothingVisible DEF get
<1>2. CASE EndsAfter(ends, step) # {}
  <2> DEFINE i == first(ar, ends[upper_bound(ends, step)], step)
  <2>1. get(ar, ends, step) = IF i = NoLink THEN NullVal ELSE ar[i].value
    BY <1>2 DEF get, getInnerValue
  <2>2. \/ i = NoLink /\ VisibleElements(ar, own, step) = {}
        \/ /\ i # NoLink /\ i \in VisibleElements(ar, own, step)
           /\ \A j \in VisibleElements(ar, own, step) : Contains(ar[j].scope, ar[i].scope)
    BY <1>2, FirstVisible
  <2> HIDE DEF i
  <2>3. QED
    BY <2>1, <2>2
<1>3. QED
  BY <1>1, <1>2

(* match_range visits all visible elements and no others.                  *)
LEMMA MatchRangeVisible ==
  ASSUME NEW ar, NEW own, NEW ends, Linked(ar, own), EndsLeadToInnermost(ar, ends, own),
         NEW step \in Nat
  PROVE  match_range(ar, ends, step) = VisibleElements(ar, own, step)
<1>1. CASE EndsAfter(ends, step) = {}
  BY <1>1, NothingVisible DEF match_range
<1>2. CASE EndsAfter(ends, step) # {}
  <2> DEFINE i == first(ar, ends[upper_bound(ends, step)], step)
  <2>1. match_range(ar, ends, step) = IF i = NoLink THEN {} ELSE Walk(ar, i, {})
    BY <1>2 DEF match_range
  <2>2. \/ i = NoLink /\ VisibleElements(ar, own, step) = {}
        \/ /\ i # NoLink /\ i \in VisibleElements(ar, own, step)
           /\ \A j \in VisibleElements(ar, own, step) : Contains(ar[j].scope, ar[i].scope)
    BY <1>2, FirstVisible
  <2> HIDE DEF i
  <2>3. CASE i # NoLink
    <3>1. i \in own /\ Covers(ar[i].scope, step) /\ \A j \in own : ar[j].scope \in ProperScopes
      BY <2>2, <2>3 DEF VisibleElements, Linked, NestedElements
    <3>2. Above(ar, own, i) = VisibleElements(ar, own, step)
      BY <2>2, <2>3, <3>1, ContainedCovers DEF VisibleElements, Above
    <3>3. \A j \in Above(ar, own, i) : j \in Walk(ar, i, {})
      BY <3>1, WalkArrives
    <3>4. Walk(ar, i, {}) \subseteq Above(ar, own, i)
      BY <3>1, WalkAbove
    <3>5. QED
      BY <2>1, <2>3, <3>2, <3>3, <3>4
  <2>4. QED
    BY <2>1, <2>2, <2>3
<1>3. QED
  BY <1>1, <1>2

(* getDef returns the value of exactly the scope asked for.                *)
LEMMA GetDefExact ==
  ASSUME NEW ar, NEW own, NEW ends, Linked(ar, own), EndsLeadToInnermost(ar, ends, own),
         NEW s \in ProperScopes
  PROVE  \/ (\A i \in own : ar[i].scope # s) /\ getDef(ar, ends, s) = NullVal
         \/ \E i \in own : ar[i].scope = s /\ getDef(ar, ends, s) = ar[i].value
<1> DEFINE x == ends[s.end]
           Stop == {j \in DOMAIN ar : \/ ar[j].scope.end # s.end
                                      \/ ar[j].scope.start <= s.start}
           found == StopsAt(ar, x, Stop)
<1>1. CASE s.end \notin DOMAIN ends
  BY <1>1 DEF getDef, EndsLeadToInnermost
<1>2. CASE s.end \in DOMAIN ends
  <2>1. x \in own /\ ar[x].scope.end = s.end
    BY <1>2 DEF EndsLeadToInnermost
  <2>2. getDef(ar, ends, s) = IF found # NoLink /\ ar[found].scope = s THEN ar[found].value ELSE NullVal
    BY <1>2 DEF getDef, findUpValue
  <2>3. found # NoLink => found \in own
    <3> HIDE DEF x, Stop
    <3>1. QED
      BY <2>1, StopsAtSmallest DEF Above
  <2>4. ASSUME NEW i \in own, ar[i].scope = s PROVE found = i
    <3>1. i \in Above(ar, own, x)
      BY <1>2, <2>4, ListHolds DEF ProperScopes
    <3>2. i \in Stop
      BY <2>4 DEF Linked, NestedElements, ProperScopes
    <3>3. ASSUME NEW j \in Above(ar, own, x), Contains(ar[i].scope, ar[j].scope), j # i
          PROVE  j \notin Stop
      <4>1. j \in own /\ ar[j].scope \in ProperScopes /\ ar[x].scope \in ProperScopes
            /\ ar[j].scope # s
        BY <2>1, <2>4, <3>3 DEF Above, Linked, NestedElements
      <4>2. ar[j].scope.end = s.end /\ s.start <= ar[j].scope.start
        BY <2>1, <2>4, <3>3, <4>1 DEF Above, Contains, ProperScopes
      <4>3. ar[j].scope.start # s.start
        BY <4>1, <4>2 DEF ProperScopes
      <4>4. QED
        BY <4>1, <4>2, <4>3 DEF ProperScopes
    <3>4. QED
      <4> HIDE DEF x, Stop
      <4>1. QED
        BY <2>1, <3>1, <3>2, <3>3, StopsAtFirst
  <2>5. \A i \in own : i # NoLink
    BY DEF Linked, NestedElements
  <2> HIDE DEF found
  <2>6. QED
    BY <2>2, <2>3, <2>4, <2>5
<1>3. QED
  BY <1>1, <1>2

-----------------------------------------------------------------------------
(* The definitions the elements stand for.                                 *)

LEMMA ContentsOf ==
  ASSUME NEW ar, NEW own, \A i, j \in own : ar[i].scope = ar[j].scope => i = j
  PROVE  /\ DOMAIN Contents(ar, own) = {ar[i].scope : i \in own}
         /\ \A i \in own : Contents(ar, own)[ar[i].scope] = ar[i].value
<1>1. ASSUME NEW i \in own
      PROVE  (CHOOSE j \in own : ar[j].scope = ar[i].scope) = i
  OBVIOUS
<1>2. QED
  BY <1>1 DEF Contents

LEMMA ContentsElsewhere ==
  ASSUME NEW ar, NEW new, NEW own,
         \A i \in own : new[i].scope = ar[i].scope /\ new[i].value = ar[i].value,
         \A i, j \in own : ar[i].scope = ar[j].scope => i = j
  PROVE  Contents(new, own) = Contents(ar, own)
<1>1. /\ DOMAIN Contents(ar, own) = {ar[i].scope : i \in own}
      /\ \A i \in own : Contents(ar, own)[ar[i].scope] = ar[i].value
  BY ContentsOf
<1>2. /\ DOMAIN Contents(new, own) = {new[i].scope : i \in own}
      /\ \A i \in own : Contents(new, own)[new[i].scope] = new[i].value
  <2>1. \A i, j \in own : new[i].scope = new[j].scope => i = j
    OBVIOUS
  <2>2. QED
    BY <2>1, ContentsOf
<1>3. DOMAIN Contents(new, own) = DOMAIN Contents(ar, own)
  BY <1>1, <1>2
<1>4. \A s \in DOMAIN Contents(ar, own) : Contents(new, own)[s] = Contents(ar, own)[s]
  BY <1>1, <1>2
<1>5. QED
  BY <1>3, <1>4 DEF Contents

Plus(f, s, v) == [t \in DOMAIN f \cup {s} |-> IF t = s THEN v ELSE f[t]]

LEMMA ContentsInserted ==
  ASSUME NEW ar, NEW own, NEW ends, NEW s, NEW v, NEW new,
         IsInsertion(ar, own, ends, s, v, new), own \subseteq DOMAIN ar,
         \A i, j \in own : ar[i].scope = ar[j].scope => i = j,
         \A i \in own : ar[i].scope # s
  PROVE  Contents(new, own \cup {Len(ar) + 1}) = Plus(Contents(ar, own), s, v)
<1> DEFINE n == Len(ar) + 1
           all == own \cup {n}
           put == [t \in DOMAIN Contents(ar, own) \cup {s} |->
                     IF t = s THEN v ELSE Contents(ar, own)[t]]
<1>1. /\ n \notin own /\ new[n].scope = s /\ new[n].value = v
      /\ \A i \in own : new[i].scope = ar[i].scope /\ new[i].value = ar[i].value
  BY DEF IsInsertion
<1>2. /\ DOMAIN Contents(ar, own) = {ar[i].scope : i \in own}
      /\ \A i \in own : Contents(ar, own)[ar[i].scope] = ar[i].value
  BY ContentsOf
<1>3. \A i, j \in all : new[i].scope = new[j].scope => i = j
  BY <1>1
<1>4. /\ DOMAIN Contents(new, all) = {new[i].scope : i \in all}
      /\ \A i \in all : Contents(new, all)[new[i].scope] = new[i].value
  <2> HIDE DEF all
  <2>1. QED
    BY <1>3, ContentsOf
<1>5. DOMAIN Contents(new, all) = DOMAIN put
  <2>1. \A t : t \in {new[i].scope : i \in all} <=> t \in {ar[i].scope : i \in own} \/ t = s
    BY <1>1
  <2>2. QED
    BY <1>2, <1>4, <2>1
<1>6. ASSUME NEW t \in DOMAIN put PROVE Contents(new, all)[t] = put[t]
  <2>1. CASE t = s
    BY <1>1, <1>4, <2>1
  <2>2. CASE t # s
    <3>1. PICK i \in own : t = ar[i].scope
      BY <1>2, <2>2
    <3>2. i \in all /\ new[i].scope = t /\ new[i].value = ar[i].value
      BY <1>1, <3>1
    <3>3. Contents(new, all)[t] = ar[i].value
      BY <1>4, <3>2
    <3>4. put[t] = Contents(ar, own)[t]
      BY <2>2
    <3>5. QED
      BY <1>2, <3>1, <3>3, <3>4
  <2>3. QED
    BY <2>1, <2>2
<1>7. QED
  BY <1>5, <1>6 DEF Contents, Plus

(* What queries return in terms of these definitions.                      *)
VisibleIn(defs, step) == {s \in DOMAIN defs : Covers(s, step)}

LookupIn(defs, step) ==
  IF VisibleIn(defs, step) = {} THEN NullVal
  ELSE defs[CHOOSE s \in VisibleIn(defs, step) : \A t \in VisibleIn(defs, step) : Contains(t, s)]

LEMMA LinkedContents ==
  ASSUME NEW ar, NEW own, Linked(ar, own)
  PROVE  /\ DOMAIN Contents(ar, own) = {ar[i].scope : i \in own}
         /\ \A i \in own : Contents(ar, own)[ar[i].scope] = ar[i].value
BY ContentsOf DEF Linked

LEMMA VisibleScopes ==
  ASSUME NEW ar, NEW own, Linked(ar, own), NEW step
  PROVE  VisibleIn(Contents(ar, own), step) = {ar[i].scope : i \in VisibleElements(ar, own, step)}
<1>1. DOMAIN Contents(ar, own) = {ar[i].scope : i \in own}
  BY LinkedContents
<1>2. QED
  BY <1>1 DEF VisibleIn, VisibleElements

LEMMA MatchRangeScopes ==
  ASSUME NEW ar, NEW own, NEW ends, Linked(ar, own), EndsLeadToInnermost(ar, ends, own),
         NEW step \in Nat
  PROVE  {ar[i].scope : i \in match_range(ar, ends, step)} = VisibleIn(Contents(ar, own), step)
BY VisibleScopes, MatchRangeVisible

LEMMA GetInnermost ==
  ASSUME NEW ar, NEW own, NEW ends, Linked(ar, own), EndsLeadToInnermost(ar, ends, own),
         NEW step \in Nat
  PROVE  get(ar, ends, step) = LookupIn(Contents(ar, own), step)
<1> DEFINE defs == Contents(ar, own)
           seen == VisibleElements(ar, own, step)
           vis == VisibleIn(defs, step)
<1>1. /\ \A i \in own : defs[ar[i].scope] = ar[i].value
      /\ \A i \in own : ar[i].scope \in ProperScopes
      /\ vis = {ar[i].scope : i \in seen}
  <2>1. \A i \in own : defs[ar[i].scope] = ar[i].value
    BY LinkedContents
  <2>2. vis = {ar[i].scope : i \in seen}
    BY VisibleScopes
  <2>3. QED
    BY <2>1, <2>2 DEF Linked, NestedElements
<1>2. CASE seen = {} /\ get(ar, ends, step) = NullVal
  BY <1>1, <1>2 DEF LookupIn
<1>3. ASSUME NEW i \in seen, \A j \in seen : Contains(ar[j].scope, ar[i].scope),
             get(ar, ends, step) = ar[i].value
      PROVE  get(ar, ends, step) = LookupIn(defs, step)
  <2> DEFINE s == ar[i].scope
  <2>1. i \in own /\ seen \subseteq own
    BY DEF VisibleElements
  <2>2. s \in vis /\ \A t \in vis : Contains(t, s)
    BY <1>1, <1>3
  <2>3. \A t \in vis : t \in ProperScopes
    BY <1>1, <2>1
  <2>4. \A u \in vis : (\A t \in vis : Contains(t, u)) => u = s
    BY <2>2, <2>3, ContainsAntisymmetric
  <2>5. (CHOOSE u \in vis : \A t \in vis : Contains(t, u)) = s
    BY <2>2, <2>4
  <2>6. QED
    BY <1>1, <1>3, <2>1, <2>2, <2>5 DEF LookupIn
<1>4. QED
  BY <1>2, <1>3, GetSmallest

LEMMA GetDefOfScope ==
  ASSUME NEW ar, NEW own, NEW ends, Linked(ar, own), EndsLeadToInnermost(ar, ends, own),
         NEW s \in ProperScopes
  PROVE  getDef(ar, ends, s)
           = IF s \in DOMAIN Contents(ar, own) THEN Contents(ar, own)[s] ELSE NullVal
<1>1. \/ (\A i \in own : ar[i].scope # s) /\ getDef(ar, ends, s) = NullVal
      \/ \E i \in own : ar[i].scope = s /\ getDef(ar, ends, s) = ar[i].value
  BY GetDefExact
<1>2. DOMAIN Contents(ar, own) = {ar[i].scope : i \in own}
  BY LinkedContents
<1>3. \A i \in own : Contents(ar, own)[ar[i].scope] = ar[i].value
  BY LinkedContents
<1>4. QED
  BY <1>1, <1>2, <1>3

-----------------------------------------------------------------------------
(* Arrays whose scopes may overlap: the lists are not complete any more,   *)
(* but an uplink still leads to a bigger scope of the same key around.     *)

StrictlyInside(t, s) == Contains(s, t) /\ s # t

Ascending(ar, ends, own) ==
  /\ own \subseteq DOMAIN ar /\ NoLink \notin DOMAIN ar
  /\ \A i \in own : ar[i].scope \in ProperScopes
  /\ \A i \in own : ar[i].prev # NoLink =>
                      ar[i].prev \in own /\ StrictlyInside(ar[i].scope, ar[ar[i].prev].scope)
  /\ DOMAIN ends \subseteq Nat
  /\ \A e \in DOMAIN ends : ends[e] \in own /\ ar[ends[e]].scope.end = e

LEMMA AscendingWalk ==
  ASSUME NEW ar, NEW ends, NEW own, Ascending(ar, ends, own), NEW x \in own, NEW Stop
  PROVE  /\ Walk(ar, x, Stop) \subseteq Above(ar, own, x)
         /\ StopsAt(ar, x, Stop) # NoLink =>
              StopsAt(ar, x, Stop) \in Above(ar, own, x) \cap Stop
<1> DEFINE P == Above(ar, own, x)
<1>1. P \subseteq DOMAIN ar /\ x \in P
  BY ContainsReflexive DEF Above, Ascending
<1>2. ASSUME NEW i \in P \ Stop, ar[i].prev # NoLink PROVE ar[i].prev \in P
  <2>1. ar[i].prev \in own /\ Contains(ar[ar[i].prev].scope, ar[i].scope)
    BY <1>2 DEF Above, Ascending, StrictlyInside
  <2>2. Contains(ar[ar[i].prev].scope, ar[x].scope)
    BY <2>1, ContainsTransitive DEF Above, Ascending
  <2>3. QED
    BY <2>1, <2>2 DEF Above
<1>3. Walk(ar, x, Stop) \subseteq P
  <2> HIDE DEF P
  <2>1. QED
    BY <1>1, <1>2, WalkWithin
<1>4. QED
  BY <1>3 DEF StopsAt

(* The last element a loop passes inside a scope is there, as the scopes   *)
(* on a list grow.                                                         *)
LEMMA AscendingInnerlast ==
  ASSUME NEW ar, NEW ends, NEW own, Ascending(ar, ends, own), NEW x \in own,
         NEW s \in ProperScopes, Innerlast(ar, x, s) # NoLink
  PROVE  /\ Innerlast(ar, x, s) \in own
         /\ StrictlyInside(ar[Innerlast(ar, x, s)].scope, s)
         /\ Innerlast(ar, x, s) \in Walk(ar, x, NotInside(ar, s)) \ NotInside(ar, s)
<1> DEFINE Stop == NotInside(ar, s)
           passed == Walk(ar, x, Stop) \ Stop
           room == [j \in passed |-> (s.end - ar[j].scope.end) + (ar[j].scope.start - s.start)]
<1>1. passed \subseteq own
  BY AscendingWalk DEF Above
<1>2. ASSUME NEW j \in passed
      PROVE  /\ ar[j].scope \in ProperScopes /\ Contains(s, ar[j].scope) /\ ar[j].scope # s
             /\ room[j] \in Nat
  <2>1. ar[j].scope \in ProperScopes /\ Contains(s, ar[j].scope) /\ ar[j].scope # s
    BY <1>1 DEF Ascending, NotInside
  <2>2. QED
    BY <2>1 DEF ProperScopes, Contains
<1>3. passed # {}
  BY DEF Innerlast, LastPassed
<1>4. PICK j \in passed : \A k \in passed : room[j] <= room[k]
  <2>1. room \in [passed -> Nat]
    BY <1>2
  <2> HIDE DEF room, passed
  <2>2. QED
    BY <1>3, <2>1, LeastMeasure
<1>5. ar[j].prev \in Stop \cup {NoLink}
  <2> SUFFICES ASSUME ar[j].prev # NoLink, ar[j].prev \notin Stop PROVE FALSE
    OBVIOUS
  <2> DEFINE k == ar[j].prev
  <2>1. k \in own /\ Contains(ar[k].scope, ar[j].scope) /\ ar[k].scope # ar[j].scope
    BY <1>1 DEF Ascending, StrictlyInside
  <2>2. k \in Walk(ar, x, Stop)
    BY <2>1 DEF Walk, Closed, Ascending
  <2>3. k \in passed
    BY <2>2
  <2>4. /\ ar[k].scope \in ProperScopes /\ Contains(s, ar[k].scope)
        /\ ar[j].scope \in ProperScopes /\ Contains(s, ar[j].scope)
    BY <1>2, <2>3
  <2>5. (s.end - ar[k].scope.end) + (ar[k].scope.start - s.start)
          < (s.end - ar[j].scope.end) + (ar[j].scope.start - s.start)
    <3>1. /\ ar[j].scope \in [start : Nat, end : Nat] /\ ar[k].scope \in [start : Nat, end : Nat]
          /\ s \in [start : Nat, end : Nat]
      BY <2>4 DEF ProperScopes
    <3>2. ar[k].scope.start # ar[j].scope.start \/ ar[k].scope.end # ar[j].scope.end
      BY <2>1, <3>1
    <3>3. ar[k].scope.start <= ar[j].scope.start /\ ar[j].scope.end <= ar[k].scope.end
      BY <2>1, <3>1 DEF Contains
    <3>4. /\ ar[j].scope.start \in Nat /\ ar[k].scope.start \in Nat /\ s.start \in Nat
          /\ ar[j].scope.end \in Nat /\ ar[k].scope.end \in Nat /\ s.end \in Nat
      BY <3>1
    <3> HIDE DEF k
    <3>5. QED
      BY <3>2, <3>3, <3>4, LessRoom
  <2>6. room[j] \in Nat /\ room[k] \in Nat
    BY <1>2, <2>3
  <2>7. room[k] < room[j]
    BY <2>3, <2>5
  <2>8. QED
    <3> HIDE DEF room, passed, k
    <3>1. QED
      BY <1>4, <2>3, <2>6, <2>7
<1>6. Innerlast(ar, x, s) \in passed
  BY <1>3, <1>5 DEF Innerlast, LastPassed
<1>7. QED
  BY <1>1, <1>2, <1>6 DEF StrictlyInside

(* Only a scope that overlaps one of the key is refused.                   *)
LEMMA RefusedCrosses ==
  ASSUME NEW ar, NEW ends, NEW own, Ascending(ar, ends, own), NEW s \in ProperScopes,
         HierarchyError(ar, ends, s)
  PROVE  \E i \in own : Crossing(ar[i].scope, s)
<1> DEFINE x == ends[s.end]
           met == Meets(ar, x, s)
<1>1. x \in own /\ ar[x].scope.end = s.end /\ met # NoLink /\ ~Contains(ar[met].scope, s)
  BY DEF HierarchyError, Ascending
<1>2. met \in Above(ar, own, x) /\ met \in NotInside(ar, s)
  BY <1>1, AscendingWalk DEF Meets
<1>3. met \in own /\ Contains(ar[met].scope, ar[x].scope) /\ ~Contains(s, ar[met].scope)
  BY <1>1, <1>2, ContainsReflexive DEF Above, NotInside, Ascending
<1>4. ar[met].scope \in ProperScopes /\ ar[x].scope \in ProperScopes
  BY <1>1, <1>3 DEF Ascending
<1>5. Crossing(ar[met].scope, s)
  BY <1>1, <1>3, <1>4 DEF Crossing, Contains, ProperScopes
<1>6. QED
  BY <1>3, <1>5

(* The uplink of a new element leads to a bigger scope around it.          *)
LEMMA AscendingNewPrev ==
  ASSUME NEW ar, NEW ends, NEW own, Ascending(ar, ends, own), NEW s \in ProperScopes,
         ~Known(ar, ends, s), ~HierarchyError(ar, ends, s), NewPrev(ar, ends, s) # NoLink
  PROVE  /\ NewPrev(ar, ends, s) \in own
         /\ StrictlyInside(s, ar[NewPrev(ar, ends, s)].scope)
<1>1. CASE s.end \in DOMAIN ends /\ Meets(ar, ends[s.end], s) # NoLink
  <2> DEFINE met == Meets(ar, ends[s.end], s)
  <2>1. met \in own
    BY <1>1, AscendingWalk DEF Ascending, Meets, Above
  <2>2. ar[met].scope # s /\ Contains(ar[met].scope, s)
    BY <1>1 DEF Known, HierarchyError
  <2>3. QED
    BY <1>1, <2>1, <2>2 DEF NewPrev, StrictlyInside
<1>2. CASE ~(s.end \in DOMAIN ends /\ Meets(ar, ends[s.end], s) # NoLink)
  <2> DEFINE e == upper_bound(ends, s.end)
             x == ends[e]
             up == rightNeighborUpLink(ar, x, s)
  <2>1. NewPrev(ar, ends, s) = up /\ EndsAfter(ends, s.end) # {}
    BY <1>2 DEF NewPrev, Uplink
  <2>2. e \in DOMAIN ends /\ s.end < e
    <3>1. s.end \in Nat /\ DOMAIN ends \subseteq Nat
      BY DEF ProperScopes, Ascending
    <3>2. QED
      BY <2>1, <3>1, UpperBound
  <2>3. x \in own /\ ar[x].scope.end = e
    BY <2>2 DEF Ascending
  <2>4. up \in Above(ar, own, x) /\ Contains(ar[up].scope, s)
    BY <2>1, <2>3, AscendingWalk DEF rightNeighborUpLink
  <2>5. up \in own /\ Contains(ar[up].scope, ar[x].scope)
    BY <2>4 DEF Above
  <2>6. ar[up].scope \in ProperScopes /\ ar[x].scope \in ProperScopes
    BY <2>3, <2>5 DEF Ascending
  <2>7. ar[up].scope.end # s.end
    BY <2>2, <2>3, <2>5, <2>6 DEF Contains, ProperScopes
  <2>8. QED
    BY <2>1, <2>4, <2>5, <2>7 DEF StrictlyInside
<1>3. QED
  BY <1>1, <1>2

(* What an insertion changes, whatever scopes there are.                   *)
IsExtension(ar, own, ends, s, v, new) ==
  LET n == Len(ar) + 1
  IN  /\ DOMAIN new = DOMAIN ar \cup {n} /\ Len(new) = n /\ n \notin DOMAIN ar
      /\ new[n] = [scope |-> s, value |-> v, prev |-> NewPrev(ar, ends, s)]
      /\ \A i \in DOMAIN ar :
           /\ new[i].scope = ar[i].scope /\ new[i].value = ar[i].value
           /\ \/ new[i].prev = ar[i].prev
              \/ i \in own /\ StrictlyInside(ar[i].scope, s) /\ new[i].prev = n

LEMMA InsertedExtends ==
  ASSUME NEW V, NEW ar \in Seq(Item(V)), NEW ends, NEW own, Ascending(ar, ends, own),
         NEW s \in ProperScopes, NEW v
  PROVE  IsExtension(ar, own, ends, s, v, Inserted(ar, ends, s, v))
<1> DEFINE n == Len(ar) + 1
           linked == linkLeftNeighbours(ar, Lists(ends, s), s, n)
           item == [scope |-> s, value |-> v, prev |-> NewPrev(ar, ends, s)]
           new == Inserted(ar, ends, s, v)
<1>1. Len(ar) \in Nat /\ DOMAIN ar = 1 .. Len(ar) /\ \A i \in DOMAIN ar : ar[i] \in Item(V)
  OBVIOUS
<1>2. new = Append(linked, item)
  BY DEF Inserted, Lists
<1>3. DOMAIN linked = DOMAIN ar
  BY DEF linkLeftNeighbours
<1>4. ASSUME NEW i \in DOMAIN ar
      PROVE  /\ linked[i].scope = ar[i].scope /\ linked[i].value = ar[i].value
             /\ \/ linked[i].prev = ar[i].prev
                \/ i \in own /\ StrictlyInside(ar[i].scope, s) /\ linked[i].prev = n
  <2>1. linked[i] = ar[i] \/
        \E x \in Lists(ends, s) : i = Innerlast(ar, x, s) /\ linked[i] = [ar[i] EXCEPT !.prev = n]
    BY <1>1 DEF linkLeftNeighbours
  <2>2. CASE linked[i] = ar[i]
    BY <2>2
  <2>3. ASSUME NEW x \in Lists(ends, s), i = Innerlast(ar, x, s),
               linked[i] = [ar[i] EXCEPT !.prev = n]
        PROVE  /\ linked[i].scope = ar[i].scope /\ linked[i].value = ar[i].value
               /\ i \in own /\ StrictlyInside(ar[i].scope, s) /\ linked[i].prev = n
    <3>1. x \in own /\ NoLink \notin DOMAIN ar
      BY DEF Lists, Ascending
    <3>2. i \in own /\ StrictlyInside(ar[i].scope, s)
      BY <2>3, <3>1, AscendingInnerlast
    <3>3. ar[i] \in Item(V)
      BY <1>1
    <3>4. /\ [ar[i] EXCEPT !.prev = n].scope = ar[i].scope
          /\ [ar[i] EXCEPT !.prev = n].value = ar[i].value
          /\ [ar[i] EXCEPT !.prev = n].prev = n
      BY <3>3 DEF Item
    <3>5. QED
      BY <2>3, <3>2, <3>4
  <2>4. QED
    BY <2>1, <2>2, <2>3
<1>5. linked = [i \in 1 .. Len(ar) |-> linked[i]]
  BY <1>1, <1>3 DEF linkLeftNeighbours
<1>6. linked \in Seq({linked[i] : i \in 1 .. Len(ar)}) /\ Len(linked) = Len(ar)
  <2> HIDE DEF linked
  <2>1. QED
    BY <1>1, <1>5
<1>7. /\ DOMAIN new = 1 .. n /\ Len(new) = n /\ new[n] = item
      /\ \A i \in 1 .. Len(ar) : new[i] = linked[i]
  <2> HIDE DEF linked, item, new
  <2>1. QED
    BY <1>1, <1>2, <1>6
<1>8. QED
  BY <1>1, <1>4, <1>7 DEF IsExtension

LEMMA InsertedAscending ==
  ASSUME NEW V, NEW ar \in Seq(Item(V)), NEW ends, NEW own, Ascending(ar, ends, own),
         NEW s \in ProperScopes, NEW v, ~Known(ar, ends, s), ~HierarchyError(ar, ends, s)
  PROVE  Ascending(Inserted(ar, ends, s, v), NewEnds(ar, ends, s), own \cup {Len(ar) + 1})
<1> DEFINE n == Len(ar) + 1
           new == Inserted(ar, ends, s, v)
           all == own \cup {n}
<1>1. IsExtension(ar, own, ends, s, v, new)
  BY InsertedExtends
<1>2. /\ new[n].scope = s /\ new[n].prev = NewPrev(ar, ends, s) /\ n \notin DOMAIN ar
      /\ DOMAIN new = DOMAIN ar \cup {n} /\ own \subseteq DOMAIN ar
      /\ \A i \in own : new[i].scope = ar[i].scope
      /\ \A i \in own : \/ new[i].prev = ar[i].prev
                        \/ StrictlyInside(ar[i].scope, s) /\ new[i].prev = n
  BY <1>1 DEF IsExtension, Ascending
<1>3. NoLink \notin DOMAIN new
  <2>1. n # NoLink /\ NoLink \notin DOMAIN ar
    BY DEF NoLink, Ascending
  <2>2. QED
    BY <1>2, <2>1
<1>4. \A i \in all : new[i].scope \in ProperScopes
  BY <1>2 DEF Ascending
<1>5. ASSUME NEW i \in all, new[i].prev # NoLink
      PROVE  new[i].prev \in all /\ StrictlyInside(new[i].scope, new[new[i].prev].scope)
  <2>1. CASE i = n
    <3>1. NewPrev(ar, ends, s) \in own /\ StrictlyInside(s, ar[NewPrev(ar, ends, s)].scope)
      BY <1>2, <1>5, <2>1, AscendingNewPrev
    <3>2. QED
      BY <1>2, <2>1, <3>1
  <2>2. CASE i \in own /\ new[i].prev = ar[i].prev
    BY <1>2, <1>5, <2>2 DEF Ascending
  <2>3. CASE i \in own /\ StrictlyInside(ar[i].scope, s) /\ new[i].prev = n
    BY <1>2, <2>3
  <2>4. QED
    BY <1>2, <2>1, <2>2, <2>3
<1>6. /\ DOMAIN NewEnds(ar, ends, s) \subseteq Nat
      /\ \A e \in DOMAIN NewEnds(ar, ends, s) :
           NewEnds(ar, ends, s)[e] \in all /\ new[NewEnds(ar, ends, s)[e]].scope.end = e
  <2>1. s.end \in Nat
    BY DEF ProperScopes
  <2>2. /\ DOMAIN NewEnds(ar, ends, s) = DOMAIN ends \cup {s.end}
        /\ \A e \in DOMAIN NewEnds(ar, ends, s) :
             \/ NewEnds(ar, ends, s)[e] = n /\ e = s.end
             \/ NewEnds(ar, ends, s)[e] = ends[e] /\ e \in DOMAIN ends
    BY DEF NewEnds
  <2>3. QED
    BY <1>2, <2>1, <2>2 DEF Ascending
<1>7. QED
  BY <1>2, <1>3, <1>4, <1>5, <1>6 DEF Ascending

(* A change elsewhere leaves a list as it is.                              *)
LEMMA AscendingElsewhere ==
  ASSUME NEW ar, NEW new, NEW ends, NEW own, Ascending(ar, ends, own),
         DOMAIN ar \subseteq DOMAIN new, NoLink \notin DOMAIN new,
         \A i \in own : new[i].scope = ar[i].scope /\ new[i].prev = ar[i].prev
  PROVE  Ascending(new, ends, own)
BY DEF Ascending

(* What a query visits covers the step, whatever scopes there are.         *)
LEMMA MatchRangeCovers ==
  ASSUME NEW ar, NEW ends, NEW own, Ascending(ar, ends, own), NEW step \in Nat,
         NEW k \in match_range(ar, ends, step)
  PROVE  k \in own /\ Covers(ar[k].scope, step)
<1> DEFINE e == upper_bound(ends, step)
           x == ends[e]
           Stop == {j \in DOMAIN ar : ar[j].scope.start <= step}
           i == StopsAt(ar, x, Stop)
<1>1. /\ EndsAfter(ends, step) # {} /\ i # NoLink /\ k \in Walk(ar, i, {})
  BY DEF match_range, first
<1>2. e \in DOMAIN ends /\ step < e
  <2>1. DOMAIN ends \subseteq Nat
    BY DEF Ascending
  <2>2. QED
    BY <1>1, <2>1, UpperBound
<1>3. x \in own /\ ar[x].scope.end = e
  BY <1>2 DEF Ascending
<1>4. i \in own /\ Contains(ar[i].scope, ar[x].scope) /\ ar[i].scope.start <= step
  BY <1>1, <1>3, AscendingWalk DEF Above
<1>5. k \in own /\ Contains(ar[k].scope, ar[i].scope)
  BY <1>1, <1>4, AscendingWalk DEF Above
<1>6. /\ ar[x].scope \in ProperScopes /\ ar[i].scope \in ProperScopes
      /\ ar[k].scope \in ProperScopes /\ DOMAIN ends \subseteq Nat
  BY <1>3, <1>4, <1>5 DEF Ascending
<1>7. step \in Nat /\ step < ar[x].scope.end
  BY <1>2, <1>3
<1> HIDE DEF i, x, e, Stop
<1>8. Contains(ar[k].scope, ar[i].scope) /\ Contains(ar[i].scope, ar[x].scope)
  BY <1>4, <1>5
<1>9. ar[k].scope.start <= ar[i].scope.start /\ ar[x].scope.end <= ar[i].scope.end
      /\ ar[i].scope.end <= ar[k].scope.end
  BY <1>8 DEF Contains
<1>10. \A s \in ProperScopes : s.start \in Nat /\ s.end \in Nat
  BY DEF ProperScopes
<1>11. ar[k].scope.start <= step /\ step < ar[k].scope.end
  BY <1>4, <1>6, <1>7, <1>9, <1>10
<1>12. QED
  BY <1>5, <1>11 DEF Covers

-----------------------------------------------------------------------------
(* Induction up to a bound, for a set of naturals.                         *)
LEMMA UpTo ==
  ASSUME NEW n \in Nat, NEW P, 0 \in P, \A k \in 0 .. n - 1 : k \in P => k + 1 \in P
  PROVE  0 .. n \subseteq P
<1> DEFINE T == {k \in 0 .. n : k \notin P}
<1>1. SUFFICES ASSUME T # {} PROVE FALSE
  OBVIOUS
<1>2. T \in SUBSET Nat
  OBVIOUS
<1>3. PICK k \in T : \A m \in T : k <= m
  BY <1>1, <1>2, NatMin
<1>4. k \in Nat /\ k # 0 /\ k <= n
  BY <1>3
<1>5. k - 1 \in 0 .. n - 1 /\ k - 1 + 1 = k
  BY <1>4
<1>6. k - 1 \notin P
  BY <1>3, <1>5
<1>7. ~(k <= k - 1) /\ k - 1 \in 0 .. n
  BY <1>4
<1>8. QED
  BY <1>3, <1>6, <1>7

(* A bounded nonempty set of naturals has a greatest element.              *)
LEMMA NatMax ==
  ASSUME NEW T \in SUBSET Nat, T # {}, NEW b \in Nat, \A t \in T : t <= b
  PROVE  \E m \in T : \A n \in T : n <= m
<1> DEFINE f == [t \in T |-> b - t]
<1>1. f \in [T -> Nat]
  OBVIOUS
<1>2. PICK m \in T : \A n \in T : f[m] <= f[n]
  BY <1>1, LeastMeasure
<1>3. ASSUME NEW n \in T PROVE n <= m
  <2>1. b - m <= b - n
    BY <1>2
  <2>2. QED
    BY <2>1
<1>4. QED
  BY <1>3

-----------------------------------------------------------------------------
(* The lists that follow a link from index to index, as long as it leads   *)
(* to a lower measure.                                                     *)
Descending(size, link, measure) ==
  /\ size \in Nat /\ link \in [1 .. size -> 0 .. size] /\ measure \in [1 .. size -> Nat]
  /\ \A i \in 1 .. size : link[i] # 0 => measure[link[i]] < measure[i]

IsListing(lists, size, link) ==
  lists = [i \in 0 .. size |-> IF i = 0 THEN <<>> ELSE <<i>> \o lists[link[i]]]

IsListingTo(lists, size, link, indices) ==
  /\ DOMAIN lists = 0 .. size /\ lists[0] = <<>>
  /\ \A i \in indices : lists[i] = <<i>> \o lists[link[i]]

LEMMA ListingExists ==
  ASSUME NEW size, NEW link, NEW measure, Descending(size, link, measure)
  PROVE  \E lists : IsListing(lists, size, link)
<1> DEFINE Within(k) == {i \in 1 .. size : measure[i] < k}
           P == {k \in Nat : \E lists : IsListingTo(lists, size, link, Within(k))}
<1>1. /\ size \in Nat /\ link \in [1 .. size -> 0 .. size] /\ measure \in [1 .. size -> Nat]
      /\ \A i \in 1 .. size : link[i] # 0 => measure[link[i]] < measure[i]
  BY DEF Descending
<1>2. 0 \in P
  <2> DEFINE lists == [i \in 0 .. size |-> <<>>]
  <2>1. Within(0) = {}
    BY <1>1
  <2>2. DOMAIN lists = 0 .. size /\ lists[0] = <<>>
    BY <1>1
  <2>3. IsListingTo(lists, size, link, Within(0))
    BY <2>1, <2>2 DEF IsListingTo
  <2>4. QED
    BY <2>3
<1>3. ASSUME NEW k \in Nat, k \in P
      PROVE  k + 1 \in P
  <2>1. PICK lists : IsListingTo(lists, size, link, Within(k))
    BY <1>3
  <2> DEFINE more == [i \in 0 .. size |-> IF i # 0 /\ measure[i] = k THEN <<i>> \o lists[link[i]] ELSE lists[i]]
  <2>2. DOMAIN more = 0 .. size /\ more[0] = <<>>
    BY <1>1, <2>1 DEF IsListingTo
  <2>3. ASSUME NEW i \in Within(k + 1)
        PROVE  more[i] = <<i>> \o more[link[i]]
    <3>1. i \in 1 .. size /\ i \in 0 .. size /\ i # 0 /\ link[i] \in 0 .. size /\ measure[i] \in Nat
      BY <1>1
    <3>2. more[link[i]] = lists[link[i]]
      <4>1. link[i] # 0 => measure[link[i]] # k
        <5> SUFFICES ASSUME link[i] # 0, measure[link[i]] = k PROVE FALSE
          OBVIOUS
        <5>1. measure[i] < k + 1 /\ k < measure[i]
          BY <1>1, <3>1
        <5>2. QED
          BY <3>1, <5>1
      <4>2. QED
        BY <3>1, <4>1
    <3>3. CASE measure[i] = k
      BY <3>1, <3>2, <3>3
    <3>4. CASE measure[i] # k
      <4>1. measure[i] < k
        BY <3>1, <3>4
      <4>2. i \in Within(k)
        BY <3>1, <4>1
      <4>3. lists[i] = <<i>> \o lists[link[i]]
        BY <2>1, <4>2 DEF IsListingTo
      <4>4. QED
        BY <3>1, <3>2, <3>4, <4>3
    <3>5. QED
      BY <3>3, <3>4
  <2>4. IsListingTo(more, size, link, Within(k + 1))
    <3> HIDE DEF more, Within
    <3>1. QED
      BY <2>2, <2>3 DEF IsListingTo
  <2> HIDE DEF more, Within
  <2>5. QED
    BY <2>4
<1>4. PICK b \in Nat : \A i \in 1 .. size : measure[i] < b
  <2> DEFINE R == {measure[i] : i \in 1 .. size}
  <2>1. CASE size = 0
    BY <2>1
  <2>2. CASE size # 0
    <3> DEFINE Bounded == {k \in Nat : k <= size => \E c \in Nat : \A i \in 1 .. k : measure[i] < c}
    <3>1. 0 \in Bounded
      OBVIOUS
    <3>2. ASSUME NEW k \in 0 .. size - 1, k \in Bounded
          PROVE  k + 1 \in Bounded
      <4>1. PICK c \in Nat : \A i \in 1 .. k : measure[i] < c
        BY <1>1, <3>2
      <4>2. k + 1 \in 1 .. size /\ measure[k + 1] \in Nat
        BY <1>1
      <4> DEFINE d == c + measure[k + 1] + 1
      <4>3. d \in Nat
        BY <4>2
      <4>4. ASSUME NEW i \in 1 .. k + 1 PROVE measure[i] < d
        <5>1. i \in 1 .. size /\ measure[i] \in Nat
          BY <1>1
        <5>2. CASE i = k + 1
          BY <4>2, <5>2
        <5>3. CASE i # k + 1
          <6>1. measure[i] < c
            BY <4>1, <5>3
          <6>2. QED
            BY <4>2, <5>1, <6>1
        <5>4. QED
          BY <5>2, <5>3
      <4> HIDE DEF d
      <4>5. QED
        BY <4>3, <4>4
    <3> HIDE DEF Bounded
    <3>3. 0 .. size \subseteq Bounded
      BY <1>1, <3>1, <3>2, UpTo
    <3>4. size \in Bounded
      BY <1>1, <3>3
    <3>5. QED
      BY <1>1, <3>4 DEF Bounded
  <2>3. QED
    BY <2>1, <2>2
<1>5. b \in P
  <2>1. \A k \in 0 .. b - 1 : k \in P => k + 1 \in P
    <3>1. \A k \in 0 .. b - 1 : k \in Nat
      OBVIOUS
    <3> HIDE DEF P
    <3>2. QED
      BY <1>3, <3>1
  <2> HIDE DEF P
  <2>2. 0 .. b \subseteq P
    BY <1>2, <2>1, UpTo
  <2>3. QED
    BY <1>4, <2>2
<1>6. PICK lists : IsListingTo(lists, size, link, Within(b))
  BY <1>5
<1>7. Within(b) = 1 .. size
  BY <1>4
<1> DEFINE all == [i \in 0 .. size |-> lists[i]]
<1>8. all = [i \in 0 .. size |-> IF i = 0 THEN <<>> ELSE <<i>> \o all[link[i]]]
  <2>1. ASSUME NEW i \in 0 .. size
        PROVE  all[i] = IF i = 0 THEN <<>> ELSE <<i>> \o all[link[i]]
    <3>1. CASE i = 0
      BY <1>6, <3>1 DEF IsListingTo
    <3>2. CASE i # 0
      <4>1. i \in 1 .. size /\ link[i] \in 0 .. size
        BY <1>1, <3>2
      <4>2. lists[i] = <<i>> \o lists[link[i]]
        BY <1>6, <1>7, <4>1 DEF IsListingTo
      <4>3. all[i] = lists[i] /\ all[link[i]] = lists[link[i]]
        BY <4>1
      <4> HIDE DEF all
      <4>4. QED
        BY <3>2, <4>2, <4>3
    <3>3. QED
      BY <3>1, <3>2
  <2>2. QED
    BY <2>1
<1> HIDE DEF all
<1>9. QED
  BY <1>8 DEF IsListing

(* What the list of an index is: it follows the links from the index to    *)
(* their end.                                                              *)
Follows(list, i, size, link) ==
  /\ list \in Seq(1 .. size) /\ Len(list) \in Nat /\ DOMAIN list = 1 .. Len(list)
  /\ Len(list) >= 1 /\ list[1] = i
  /\ \A k \in 1 .. Len(list) : list[k] \in 1 .. size
  /\ \A k \in 1 .. Len(list) - 1 : list[k + 1] = link[list[k]]
  /\ link[list[Len(list)]] = 0

LEMMA ListingFollows ==
  ASSUME NEW size, NEW link, NEW measure, Descending(size, link, measure),
         NEW lists, IsListing(lists, size, link)
  PROVE  lists[0] = <<>> /\ \A i \in 1 .. size : Follows(lists[i], i, size, link)
<1>1. /\ size \in Nat /\ link \in [1 .. size -> 0 .. size] /\ measure \in [1 .. size -> Nat]
      /\ \A i \in 1 .. size : link[i] # 0 => measure[link[i]] < measure[i]
  BY DEF Descending
<1>2. lists[0] = <<>> /\ \A i \in 1 .. size : lists[i] = <<i>> \o lists[link[i]]
  <2>1. 0 \in 0 .. size /\ \A i \in 1 .. size : i \in 0 .. size /\ i # 0
    BY <1>1
  <2>2. \A i \in 0 .. size : lists[i] = IF i = 0 THEN <<>> ELSE <<i>> \o lists[link[i]]
    BY DEF IsListing
  <2>3. QED
    BY <2>1, <2>2
<1> DEFINE T == {i \in 1 .. size : ~Follows(lists[i], i, size, link)}
<1>3. T = {}
  <2> SUFFICES ASSUME T # {} PROVE FALSE
    OBVIOUS
  <2>1. [i \in T |-> measure[i]] \in [T -> Nat]
    BY <1>1
  <2>2. PICK i \in T : \A j \in T : [x \in T |-> measure[x]][i] <= [x \in T |-> measure[x]][j]
    BY <2>1, LeastMeasure
  <2>3. i \in 1 .. size /\ \A j \in T : measure[i] <= measure[j]
    BY <2>2
  <2> DEFINE rest == lists[link[i]]
             list == <<i>> \o rest
  <2>4. lists[i] = list
    BY <1>2, <2>3
  <2>5. CASE link[i] = 0
    <3>1. rest = <<>> /\ list = <<i>>
      <4>1. rest = <<>>
        BY <1>2, <2>5
      <4> HIDE DEF rest
      <4>2. <<i>> \o <<>> = <<i>>
        OBVIOUS
      <4>3. QED
        BY <4>1, <4>2
    <3>2. Len(list) = 1 /\ list[1] = i /\ DOMAIN list = 1 .. 1 /\ list \in Seq(1 .. size)
      BY <2>3, <3>1
    <3> HIDE DEF list
    <3>3. Follows(list, i, size, link)
      BY <2>3, <2>5, <3>2 DEF Follows
    <3>4. QED
      BY <2>2, <2>4, <3>3
  <2>6. CASE link[i] # 0
    <3>1. link[i] \in 1 .. size
      BY <1>1, <2>3, <2>6
    <3>2. Follows(rest, link[i], size, link)
      <4>1. measure[link[i]] < measure[i] /\ measure[i] \in Nat /\ measure[link[i]] \in Nat
        BY <1>1, <2>3, <2>6, <3>1
      <4>2. link[i] \notin T
        BY <2>3, <4>1
      <4>3. QED
        BY <3>1, <4>2
    <3>3. /\ rest \in Seq(1 .. size) /\ Len(rest) \in Nat /\ DOMAIN rest = 1 .. Len(rest)
          /\ Len(rest) >= 1 /\ rest[1] = link[i]
      BY <3>2 DEF Follows
    <3> HIDE DEF rest
    <3>4. /\ list \in Seq(1 .. size) /\ Len(list) = Len(rest) + 1 /\ DOMAIN list = 1 .. Len(list)
          /\ list[1] = i
      BY <2>3, <3>3
    <3>5. \A k \in 2 .. Len(list) : list[k] = rest[k - 1]
      BY <3>3
    <3> HIDE DEF list
    <3>6. ASSUME NEW k \in 1 .. Len(list)
          PROVE  list[k] \in 1 .. size
      <4>1. CASE k = 1
        BY <2>3, <3>4, <4>1
      <4>2. CASE k # 1
        <5>1. k \in 2 .. Len(list) /\ k - 1 \in 1 .. Len(rest)
          BY <3>3, <3>4, <4>2
        <5>2. QED
          BY <3>2, <3>5, <5>1 DEF Follows
      <4>3. QED
        BY <4>1, <4>2
    <3>7. ASSUME NEW k \in 1 .. Len(list) - 1
          PROVE  list[k + 1] = link[list[k]]
      <4>1. CASE k = 1
        BY <3>3, <3>4, <3>5, <4>1
      <4>2. CASE k # 1
        <5>1. k \in 2 .. Len(list) /\ k + 1 \in 2 .. Len(list) /\ k - 1 \in 1 .. Len(rest) - 1 /\ k + 1 - 1 = k - 1 + 1
          BY <3>3, <3>4, <4>2
        <5>2. list[k] = rest[k - 1] /\ list[k + 1] = rest[k - 1 + 1]
          BY <3>5, <5>1
        <5>3. rest[k - 1 + 1] = link[rest[k - 1]]
          BY <3>2, <5>1 DEF Follows
        <5>4. QED
          BY <5>2, <5>3
      <4>3. QED
        BY <4>1, <4>2
    <3>8. link[list[Len(list)]] = 0
      <4>1. list[Len(list)] = rest[Len(rest)]
        BY <3>3, <3>4, <3>5
      <4>2. QED
        BY <3>2, <4>1 DEF Follows
    <3>9. Len(list) \in Nat /\ Len(list) >= 1
      BY <3>3, <3>4
    <3>10. Follows(list, i, size, link)
      BY <3>4, <3>6, <3>7, <3>8, <3>9 DEF Follows
    <3>11. QED
      BY <2>2, <2>4, <3>10
  <2>7. QED
    BY <2>5, <2>6
<1>4. QED
  BY <1>2, <1>3

-----------------------------------------------------------------------------
(* The shape of a tree of nodes: the parents of the nodes determine all    *)
(* links.  Nodes come after their parents and are added as last children.  *)
Records(S, V) == [scope : S, value : V, next : Nat, chld : Nat]

NodeTrees(S, V) == [ar : Seq(Records(S, V)), last : Seq(Nat)]

Size(tree) == Len(tree.ar)

Kids(parent, i) == {j \in DOMAIN parent : parent[j] = i}

Younger(parent, i) == {j \in Kids(parent, parent[i]) : i < j}

IsLeast(indices, i) == IF indices = {} THEN i = NoNode ELSE i \in indices /\ \A j \in indices : i <= j

IsGreatest(indices, i) == i \in indices /\ \A j \in indices : j <= i

Shape(tree, parent) ==
  /\ Size(tree) \in Nat /\ Size(tree) >= 1 /\ Len(tree.last) = Size(tree)
  /\ parent \in [2 .. Size(tree) -> 1 .. Size(tree)]
  /\ \A i \in 2 .. Size(tree) : parent[i] < i
  /\ tree.ar[1].next = NoNode
  /\ \A i \in 1 .. Size(tree) : IsLeast(Kids(parent, i), tree.ar[i].chld)
  /\ \A i \in 2 .. Size(tree) : IsLeast(Younger(parent, i), tree.ar[i].next)
  /\ \A i \in 1 .. Size(tree) : Kids(parent, i) # {} => IsGreatest(Kids(parent, i), tree.last[tree.ar[i].chld])

LEMMA TreeItems ==
  ASSUME NEW S, NEW V, NEW tree \in NodeTrees(S, V)
  PROVE  /\ tree = [ar |-> tree.ar, last |-> tree.last]
         /\ tree.ar \in Seq(Records(S, V)) /\ tree.last \in Seq(Nat)
         /\ Size(tree) \in Nat /\ DOMAIN tree.ar = 1 .. Size(tree) /\ Len(tree.last) \in Nat
         /\ DOMAIN tree.last = 1 .. Len(tree.last)
         /\ \A i \in 1 .. Size(tree) : tree.ar[i] \in Records(S, V)
         /\ \A i \in 1 .. Len(tree.last) : tree.last[i] \in Nat
<1>1. /\ tree = [ar |-> tree.ar, last |-> tree.last]
      /\ tree.ar \in Seq(Records(S, V)) /\ tree.last \in Seq(Nat)
  BY DEF NodeTrees
<1>2. /\ Size(tree) \in Nat /\ DOMAIN tree.ar = 1 .. Size(tree) /\ Len(tree.last) \in Nat
      /\ DOMAIN tree.last = 1 .. Len(tree.last)
  BY <1>1 DEF Size
<1>3. \A i \in 1 .. Size(tree) : tree.ar[i] \in Records(S, V)
  BY <1>1, <1>2 DEF Size
<1>4. \A i \in 1 .. Len(tree.last) : tree.last[i] \in Nat
  BY <1>1, <1>2
<1>5. QED
  BY <1>1, <1>2, <1>3, <1>4

LEMMA RecordLinked ==
  ASSUME NEW S, NEW V, NEW record \in Records(S, V), NEW link \in Nat
  PROVE  /\ [record EXCEPT !.chld = link] \in Records(S, V) /\ [record EXCEPT !.next = link] \in Records(S, V)
         /\ [record EXCEPT !.chld = link].chld = link /\ [record EXCEPT !.next = link].next = link
         /\ [record EXCEPT !.chld = link].next = record.next /\ [record EXCEPT !.next = link].chld = record.chld
         /\ [record EXCEPT !.chld = link].scope = record.scope /\ [record EXCEPT !.next = link].scope = record.scope
         /\ [record EXCEPT !.chld = link].value = record.value /\ [record EXCEPT !.next = link].value = record.value
BY DEF Records

(* A tree of a root only.                                                  *)
LEMMA NewTreeShape ==
  ASSUME NEW S, NEW V, Root \in S, NEW value \in V
  PROVE  /\ NewTree(value) \in NodeTrees(S, V) /\ Size(NewTree(value)) = 1
         /\ NewTree(value).ar[1].scope = Root /\ NewTree(value).ar[1].value = value
         /\ Shape(NewTree(value), [i \in 2 .. 1 |-> 1])
<1> DEFINE node == Node(Root, value)
           parent == [i \in 2 .. 1 |-> 1]
           tree == NewTree(value)
<1>1. /\ node \in Records(S, V)
      /\ node.scope = Root /\ node.value = value /\ node.next = NoNode /\ node.chld = NoNode
  BY DEF Node, NoNode, Records
<1>2. tree = [ar |-> <<node>>, last |-> <<NoNode>>]
  BY DEF NewTree
<1> HIDE DEF node
<1>3. tree.ar = <<node>> /\ tree.last = <<0>>
  BY <1>2 DEF NoNode
<1>4. /\ tree.ar \in Seq(Records(S, V)) /\ tree.last \in Seq(Nat)
      /\ Len(tree.ar) = 1 /\ Len(tree.last) = 1 /\ tree.ar[1] = node
  BY <1>1, <1>3
<1>5. tree \in NodeTrees(S, V)
  BY <1>2, <1>3, <1>4 DEF NodeTrees
<1>6. parent \in [2 .. 1 -> 1 .. 1] /\ \A i : Kids(parent, i) = {}
  BY DEF Kids
<1> HIDE DEF tree, parent
<1>7. Shape(tree, parent)
  BY <1>1, <1>4, <1>6 DEF Shape, Size, IsLeast
<1>8. QED
  BY <1>1, <1>4, <1>5, <1>7 DEF Size, tree, parent

WithChild(parent, new, node) == [i \in 2 .. new |-> IF i = new THEN node ELSE parent[i]]

IsWithChild(more, parent, size, node) ==
  /\ more \in [2 .. size + 1 -> 1 .. size + 1]
  /\ \A i \in 2 .. size + 1 : more[i] < i
  /\ \A i \in 1 .. size : i # node => Kids(more, i) = Kids(parent, i)
  /\ Kids(more, node) = Kids(parent, node) \cup {size + 1}
  /\ Kids(more, size + 1) = {}
  /\ \A i \in 2 .. size : more[i] = parent[i]
  /\ more[size + 1] = node

LEMMA WithChildKids ==
  ASSUME NEW size \in Nat, size >= 1, NEW parent \in [2 .. size -> 1 .. size], NEW node \in 1 .. size,
         \A i \in 2 .. size : parent[i] < i
  PROVE  IsWithChild(WithChild(parent, size + 1, node), parent, size, node)
<1> DEFINE more == WithChild(parent, size + 1, node)
<1>1. /\ DOMAIN more = 2 .. size + 1 /\ more[size + 1] = node
      /\ \A i \in 2 .. size : more[i] = parent[i]
  BY DEF WithChild
<1>2. \A i \in 2 .. size : parent[i] \in 1 .. size
  OBVIOUS
<1>3. \A i \in 2 .. size + 1 : more[i] < i /\ more[i] \in 1 .. size
  BY <1>1, <1>2
<1>4. more \in [2 .. size + 1 -> 1 .. size + 1]
  BY <1>1, <1>3 DEF WithChild
<1> HIDE DEF more
<1>5. \A i \in 1 .. size : i # node => Kids(more, i) = Kids(parent, i)
  BY <1>1 DEF Kids
<1>6. Kids(more, node) = Kids(parent, node) \cup {size + 1}
  BY <1>1 DEF Kids
<1>7. Kids(more, size + 1) = {}
  BY <1>1, <1>3 DEF Kids
<1>8. QED
  BY <1>1, <1>3, <1>4, <1>5, <1>6, <1>7 DEF more, IsWithChild

LEMMA ShapeItems ==
  ASSUME NEW S, NEW V, NEW tree \in NodeTrees(S, V), NEW parent, Shape(tree, parent)
  PROVE  /\ tree = [ar |-> tree.ar, last |-> tree.last]
         /\ tree.ar \in Seq(Records(S, V)) /\ tree.last \in Seq(Nat)
         /\ Size(tree) \in Nat /\ Size(tree) >= 1 /\ Len(tree.last) = Size(tree)
         /\ DOMAIN tree.ar = 1 .. Size(tree) /\ DOMAIN tree.last = 1 .. Size(tree)
         /\ \A i \in 1 .. Size(tree) : tree.ar[i] \in Records(S, V) /\ tree.last[i] \in Nat
         /\ parent \in [2 .. Size(tree) -> 1 .. Size(tree)]
         /\ \A i \in 2 .. Size(tree) : parent[i] < i
<1>1. /\ Len(tree.last) = Size(tree) /\ Size(tree) >= 1
      /\ parent \in [2 .. Size(tree) -> 1 .. Size(tree)]
      /\ \A i \in 2 .. Size(tree) : parent[i] < i
  BY DEF Shape
<1>2. QED
  BY <1>1, TreeItems

LEMMA SeqUpdated ==
  ASSUME NEW R, NEW s \in Seq(R), NEW i \in 1 .. Len(s), NEW x \in R
  PROVE  /\ [s EXCEPT ![i] = x] \in Seq(R) /\ Len([s EXCEPT ![i] = x]) = Len(s)
         /\ [s EXCEPT ![i] = x][i] = x
         /\ \A j \in 1 .. Len(s) : j # i => [s EXCEPT ![i] = x][j] = s[j]
OBVIOUS

LEMMA Appended ==
  ASSUME NEW R, NEW s \in Seq(R), NEW x \in R
  PROVE  /\ Append(s, x) \in Seq(R) /\ Len(Append(s, x)) = Len(s) + 1
         /\ Append(s, x)[Len(s) + 1] = x
         /\ \A i \in 1 .. Len(s) : Append(s, x)[i] = s[i]
OBVIOUS

(* addChild: a new last child of a node, the rest of the tree as before.   *)
ItemsKept(more, tree) ==
  \A i \in 1 .. Size(tree) :
    more.ar[i].scope = tree.ar[i].scope /\ more.ar[i].value = tree.ar[i].value

HasChildMore(more, tree, parent, node, item) ==
  /\ Size(more) = Size(tree) + 1
  /\ ItemsKept(more, tree)
  /\ more.ar[Size(tree) + 1].scope = item.scope /\ more.ar[Size(tree) + 1].value = item.value
  /\ Shape(more, WithChild(parent, Size(tree) + 1, node))

LEMMA AddFirstChild ==
  ASSUME NEW S, NEW V, NEW tree \in NodeTrees(S, V), NEW parent, Shape(tree, parent),
         NEW node \in 1 .. Size(tree), NEW scope \in S, NEW value \in V, tree.ar[node].chld = NoNode
  PROVE  /\ addChild(tree, node, Node(scope, value)) \in NodeTrees(S, V)
         /\ HasChildMore(addChild(tree, node, Node(scope, value)), tree, parent, node, Node(scope, value))
<1> DEFINE item == Node(scope, value)
           size == Size(tree)
           new == size + 1
           more == addChild(tree, node, item)
           R == Records(S, V)
           ar == [tree.ar EXCEPT ![node].chld = new]
           up == WithChild(parent, new, node)
<1>1. /\ tree = [ar |-> tree.ar, last |-> tree.last] /\ tree.ar \in Seq(R) /\ tree.last \in Seq(Nat)
      /\ size \in Nat /\ DOMAIN tree.ar = 1 .. size /\ \A i \in 1 .. size : tree.ar[i] \in R
      /\ size >= 1 /\ Len(tree.last) = size /\ \A i \in 1 .. size : tree.last[i] \in Nat
      /\ parent \in [2 .. size -> 1 .. size] /\ \A i \in 2 .. size : parent[i] < i
  BY ShapeItems
<1>2. item \in R /\ item.scope = scope /\ item.value = value /\ item.next = NoNode /\ item.chld = NoNode
  BY DEF Node, NoNode, Records
<1>3. more = [ar |-> Append(ar, item), last |-> Append(tree.last, new)]
  BY DEF addChild, Size
<1>4. /\ ar \in Seq(R) /\ Len(ar) = size
      /\ \A i \in 1 .. size : i # node => ar[i] = tree.ar[i]
      /\ ar[node] = [tree.ar[node] EXCEPT !.chld = new]
  <2>1. new \in Nat /\ tree.ar[node] \in Records(S, V) /\ node \in 1 .. Len(tree.ar)
    BY <1>1 DEF Size
  <2> HIDE DEF new
  <2> DEFINE record == [tree.ar[node] EXCEPT !.chld = new]
  <2>2. record \in Records(S, V)
    BY <2>1, RecordLinked
  <2>3. ar = [tree.ar EXCEPT ![node] = record]
    OBVIOUS
  <2> HIDE DEF record, ar
  <2>4. tree.ar \in Seq(Records(S, V)) /\ Len(tree.ar) = size
    BY <1>1 DEF Size
  <2>5. /\ ar \in Seq(Records(S, V)) /\ Len(ar) = size /\ ar[node] = record
        /\ \A i \in 1 .. size : i # node => ar[i] = tree.ar[i]
    BY <2>1, <2>2, <2>3, <2>4, SeqUpdated
  <2>6. QED
    BY <2>5 DEF record
<1>5. /\ ar[node].scope = tree.ar[node].scope /\ ar[node].value = tree.ar[node].value
      /\ ar[node].next = tree.ar[node].next /\ ar[node].chld = new
  BY <1>1, <1>4, RecordLinked
<1> HIDE DEF ar, R, item, more
<1>6. /\ more.ar \in Seq(R) /\ more.last \in Seq(Nat) /\ Size(more) = new /\ Len(more.last) = new
      /\ \A i \in 1 .. size : more.ar[i] = ar[i] /\ more.last[i] = tree.last[i]
      /\ more.ar[new] = item /\ more.last[new] = new
  <2>1. /\ Append(ar, item) \in Seq(R) /\ Len(Append(ar, item)) = new
        /\ Append(ar, item)[new] = item /\ \A i \in 1 .. size : Append(ar, item)[i] = ar[i]
    BY <1>2, <1>4, Appended
  <2>2. new \in Nat /\ Len(tree.last) = size /\ tree.last \in Seq(Nat)
    BY <1>1
  <2> DEFINE last == Append(tree.last, new)
  <2>3. /\ last \in Seq(Nat) /\ Len(last) = new /\ last[new] = new
        /\ \A i \in 1 .. size : last[i] = tree.last[i]
    <3> HIDE DEF new
    <3>1. QED
      BY <2>2, Appended DEF new
  <2>4. more.ar = Append(ar, item) /\ more.last = last
    BY <1>3
  <2> HIDE DEF last
  <2>5. QED
    BY <2>1, <2>3, <2>4 DEF Size
<1>7. more \in NodeTrees(S, V)
  BY <1>3, <1>6 DEF NodeTrees, R
<1>8. Kids(parent, node) = {}
  <2>1. IsLeast(Kids(parent, node), NoNode)
    BY DEF Shape
  <2>2. 0 \notin DOMAIN parent
    BY <1>1
  <2>3. QED
    BY <2>1, <2>2 DEF IsLeast, Kids, NoNode
<1>9. /\ up \in [2 .. new -> 1 .. new] /\ \A i \in 2 .. new : up[i] < i
      /\ \A i \in 1 .. size : i # node => Kids(up, i) = Kids(parent, i)
      /\ Kids(up, node) = {new} /\ Kids(up, new) = {}
      /\ \A i \in 2 .. size : up[i] = parent[i]
      /\ up[new] = node
  <2>1. IsWithChild(up, parent, size, node)
    BY <1>1, WithChildKids
  <2> HIDE DEF up
  <2>2. QED
    BY <1>8, <2>1 DEF IsWithChild
<1> HIDE DEF up
<1>10. \A i \in 1 .. new : IsLeast(Kids(up, i), more.ar[i].chld)
  <2>1. ASSUME NEW i \in 1 .. size, i # node PROVE IsLeast(Kids(up, i), more.ar[i].chld)
    <3>1. Kids(up, i) = Kids(parent, i) /\ more.ar[i] = tree.ar[i]
      BY <1>4, <1>6, <1>9, <2>1
    <3>2. IsLeast(Kids(parent, i), tree.ar[i].chld)
      BY DEF Shape
    <3>3. QED
      BY <3>1, <3>2
  <2>2. IsLeast(Kids(up, node), more.ar[node].chld)
    <3>1. Kids(up, node) = {new} /\ more.ar[node].chld = new /\ new <= new
      BY <1>1, <1>5, <1>6, <1>9
    <3>2. QED
      BY <3>1 DEF IsLeast
  <2>3. IsLeast(Kids(up, new), more.ar[new].chld)
    BY <1>2, <1>6, <1>9 DEF IsLeast
  <2>4. \A i \in 1 .. new : i \in 1 .. size \/ i = new
    BY <1>1
  <2>5. QED
    BY <2>1, <2>2, <2>3, <2>4
<1>11. \A i \in 2 .. new : IsLeast(Younger(up, i), more.ar[i].next)
  <2>1. ASSUME NEW i \in 2 .. size PROVE IsLeast(Younger(up, i), more.ar[i].next)
    <3>1. parent[i] \in 1 .. size /\ parent[i] # node /\ i \in 1 .. size
      BY <1>1, <1>8 DEF Kids
    <3>2. Younger(up, i) = Younger(parent, i)
      BY <1>9, <3>1 DEF Younger
    <3>3. more.ar[i].next = tree.ar[i].next
      BY <1>4, <1>5, <1>6, <3>1
    <3>4. QED
      BY <3>2, <3>3 DEF Shape
  <2>2. IsLeast(Younger(up, new), more.ar[new].next)
    <3>1. Younger(up, new) = {}
      BY <1>1, <1>9 DEF Younger
    <3>2. QED
      BY <1>2, <1>6, <3>1 DEF IsLeast
  <2>3. \A i \in 2 .. new : i \in 2 .. size \/ i = new
    BY <1>1
  <2>4. QED
    BY <2>1, <2>2, <2>3
<1>12. \A i \in 1 .. new : Kids(up, i) # {} => IsGreatest(Kids(up, i), more.last[more.ar[i].chld])
  <2>1. ASSUME NEW i \in 1 .. size, i # node, Kids(up, i) # {}
        PROVE  IsGreatest(Kids(up, i), more.last[more.ar[i].chld])
    <3>1. IsGreatest(Kids(parent, i), tree.last[tree.ar[i].chld]) /\ IsLeast(Kids(parent, i), tree.ar[i].chld)
      BY <1>9, <2>1 DEF Shape
    <3>2. more.ar[i].chld = tree.ar[i].chld
      BY <1>4, <1>6, <2>1
    <3>3. tree.ar[i].chld \in 1 .. size
      BY <1>1, <3>1 DEF IsLeast, IsGreatest, Kids
    <3>4. QED
      BY <1>6, <1>9, <2>1, <3>1, <3>2, <3>3
  <2>2. IsGreatest(Kids(up, node), more.last[more.ar[node].chld])
    <3>1. more.ar[node].chld = new /\ more.last[new] = new
      BY <1>5, <1>6
    <3>2. new <= new
      BY <1>1
    <3>3. QED
      BY <1>9, <3>1, <3>2 DEF IsGreatest
  <2>3. \A i \in 1 .. new : i \in 1 .. size \/ i = new
    BY <1>1
  <2>4. QED
    BY <1>9, <2>1, <2>2, <2>3
<1>13. more.ar[1].next = NoNode
  <2>1. 1 \in 1 .. size /\ tree.ar[1].next = NoNode
    BY <1>1 DEF Shape
  <2>2. QED
    BY <1>4, <1>5, <1>6, <2>1
<1>14. Shape(more, up)
  <2>1. new \in Nat /\ new >= 1
    BY <1>1
  <2>2. QED
    BY <1>6, <1>9, <1>10, <1>11, <1>12, <1>13, <2>1 DEF Shape
<1>15. ItemsKept(more, tree)
  BY <1>4, <1>5, <1>6 DEF ItemsKept
<1>16. HasChildMore(more, tree, parent, node, item)
  BY <1>6, <1>14, <1>15 DEF HasChildMore, up
<1>17. QED
  BY <1>7, <1>16 DEF more, item

LEMMA AddNextChild ==
  ASSUME NEW S, NEW V, NEW tree \in NodeTrees(S, V), NEW parent, Shape(tree, parent),
         NEW node \in 1 .. Size(tree), NEW scope \in S, NEW value \in V, tree.ar[node].chld # NoNode
  PROVE  /\ addChild(tree, node, Node(scope, value)) \in NodeTrees(S, V)
         /\ HasChildMore(addChild(tree, node, Node(scope, value)), tree, parent, node, Node(scope, value))
<1> DEFINE item == Node(scope, value)
           size == Size(tree)
           new == size + 1
           more == addChild(tree, node, item)
           R == Records(S, V)
           eldest == tree.ar[node].chld
           youngest == tree.last[eldest]
           ar == [tree.ar EXCEPT ![youngest].next = new]
           last == [tree.last EXCEPT ![eldest] = new]
           up == WithChild(parent, new, node)
           kids == Kids(parent, node)
<1>1. /\ tree = [ar |-> tree.ar, last |-> tree.last] /\ tree.ar \in Seq(R) /\ tree.last \in Seq(Nat)
      /\ size \in Nat /\ DOMAIN tree.ar = 1 .. size /\ \A i \in 1 .. size : tree.ar[i] \in R
      /\ size >= 1 /\ Len(tree.last) = size /\ \A i \in 1 .. size : tree.last[i] \in Nat
      /\ DOMAIN tree.last = 1 .. size
      /\ parent \in [2 .. size -> 1 .. size] /\ \A i \in 2 .. size : parent[i] < i
  BY ShapeItems
<1>2. item \in R /\ item.scope = scope /\ item.value = value /\ item.next = NoNode /\ item.chld = NoNode
  BY DEF Node, NoNode, Records
<1>3. more = [ar |-> Append(ar, item), last |-> Append(last, NoNode)]
  BY DEF addChild, addSibling, Size
<1>4. /\ IsLeast(kids, eldest) /\ kids # {} /\ IsGreatest(kids, youngest)
      /\ eldest \in kids /\ youngest \in kids /\ \A j \in kids : eldest <= j /\ j <= youngest
      /\ kids \subseteq 2 .. size
  <2>1. IsLeast(kids, eldest)
    BY DEF Shape
  <2>2. kids # {} /\ eldest \in kids
    BY <2>1 DEF IsLeast
  <2>3. IsGreatest(kids, youngest)
    BY <2>2 DEF Shape
  <2>4. kids \subseteq 2 .. size
    BY <1>1 DEF Kids
  <2>5. QED
    BY <2>1, <2>2, <2>3, <2>4 DEF IsLeast, IsGreatest
<1>5. eldest \in 1 .. size /\ youngest \in 1 .. size /\ youngest \in 2 .. size
  <2>1. size \in Nat
    BY <1>1
  <2> HIDE DEF size, eldest, youngest, kids
  <2>2. QED
    BY <1>4, <2>1
<1> HIDE DEF eldest, youngest
<1>6. /\ ar \in Seq(R) /\ Len(ar) = size
      /\ \A i \in 1 .. size : i # youngest => ar[i] = tree.ar[i]
      /\ ar[youngest] = [tree.ar[youngest] EXCEPT !.next = new]
  <2>1. new \in Nat /\ tree.ar[youngest] \in Records(S, V) /\ youngest \in 1 .. Len(tree.ar)
    BY <1>1, <1>5 DEF Size
  <2> HIDE DEF new
  <2> DEFINE record == [tree.ar[youngest] EXCEPT !.next = new]
  <2>2. record \in Records(S, V)
    BY <2>1, RecordLinked
  <2>3. ar = [tree.ar EXCEPT ![youngest] = record]
    OBVIOUS
  <2> HIDE DEF record, ar
  <2>4. tree.ar \in Seq(Records(S, V)) /\ Len(tree.ar) = size
    BY <1>1 DEF Size
  <2>5. /\ ar \in Seq(Records(S, V)) /\ Len(ar) = size /\ ar[youngest] = record
        /\ \A i \in 1 .. size : i # youngest => ar[i] = tree.ar[i]
    BY <2>1, <2>2, <2>3, <2>4, SeqUpdated
  <2>6. QED
    BY <2>5 DEF record
<1>7. /\ ar[youngest].scope = tree.ar[youngest].scope /\ ar[youngest].value = tree.ar[youngest].value
      /\ ar[youngest].chld = tree.ar[youngest].chld /\ ar[youngest].next = new
  BY <1>1, <1>5, <1>6, RecordLinked
<1>8. /\ last \in Seq(Nat) /\ Len(last) = size /\ last[eldest] = new
      /\ \A i \in 1 .. size : i # eldest => last[i] = tree.last[i]
  <2>1. tree.last \in Seq(Nat) /\ Len(tree.last) = size /\ new \in Nat /\ eldest \in 1 .. size
    BY <1>1, <1>5
  <2> HIDE DEF new, size
  <2>2. QED
    BY <2>1, SeqUpdated
<1> HIDE DEF ar, last, R, item, more
<1>9. /\ more.ar \in Seq(R) /\ more.last \in Seq(Nat) /\ Size(more) = new /\ Len(more.last) = new
      /\ \A i \in 1 .. size : more.ar[i] = ar[i] /\ more.last[i] = last[i]
      /\ more.ar[new] = item
  <2>1. /\ Append(ar, item) \in Seq(R) /\ Len(Append(ar, item)) = new
        /\ Append(ar, item)[new] = item /\ \A i \in 1 .. size : Append(ar, item)[i] = ar[i]
    BY <1>2, <1>6, Appended
  <2>2. /\ Append(last, NoNode) \in Seq(Nat) /\ Len(Append(last, NoNode)) = new
        /\ \A i \in 1 .. size : Append(last, NoNode)[i] = last[i]
    <3>1. NoNode \in Nat
      BY DEF NoNode
    <3>2. /\ Append(last, NoNode) \in Seq(Nat) /\ Len(Append(last, NoNode)) = Len(last) + 1
          /\ \A i \in 1 .. Len(last) : Append(last, NoNode)[i] = last[i]
      BY <1>8, <3>1, Appended
    <3>3. QED
      BY <1>8, <3>2
  <2>3. more.ar = Append(ar, item) /\ more.last = Append(last, NoNode)
    BY <1>3
  <2>4. QED
    BY <2>1, <2>2, <2>3 DEF Size
<1>10. more \in NodeTrees(S, V)
  BY <1>3, <1>9 DEF NodeTrees, R
<1>11. /\ up \in [2 .. new -> 1 .. new] /\ \A i \in 2 .. new : up[i] < i
       /\ \A i \in 1 .. size : i # node => Kids(up, i) = Kids(parent, i)
       /\ Kids(up, node) = kids \cup {new} /\ Kids(up, new) = {}
       /\ \A i \in 2 .. size : up[i] = parent[i]
       /\ up[new] = node
  <2>1. IsWithChild(up, parent, size, node)
    BY <1>1, WithChildKids
  <2> HIDE DEF up
  <2>2. QED
    BY <2>1 DEF IsWithChild
<1>12. \A i \in 1 .. size : more.ar[i].chld = tree.ar[i].chld
  BY <1>6, <1>7, <1>9
<1>13. \A j \in kids : j \in Nat /\ j < new
  <2>1. size \in Nat
    BY <1>1
  <2> HIDE DEF size, kids
  <2>2. QED
    BY <1>4, <2>1
<1>14. kids = Kids(parent, node)
  OBVIOUS
<1> HIDE DEF up, kids
<1>15. \A i \in 1 .. new : IsLeast(Kids(up, i), more.ar[i].chld)
  <2>1. ASSUME NEW i \in 1 .. size, i # node PROVE IsLeast(Kids(up, i), more.ar[i].chld)
    BY <1>11, <1>12, <2>1 DEF Shape
  <2>2. IsLeast(Kids(up, node), more.ar[node].chld)
    <3>1. more.ar[node].chld = eldest
      BY <1>12 DEF eldest
    <3>2. eldest \in kids \cup {new} /\ \A j \in kids \cup {new} : eldest <= j
      BY <1>1, <1>4, <1>5
    <3>3. QED
      BY <1>11, <3>1, <3>2 DEF IsLeast
  <2>3. IsLeast(Kids(up, new), more.ar[new].chld)
    BY <1>2, <1>9, <1>11 DEF IsLeast
  <2>4. \A i \in 1 .. new : i \in 1 .. size \/ i = new
    BY <1>1
  <2>5. QED
    BY <2>1, <2>2, <2>3, <2>4
<1>16. \A i \in 2 .. new : IsLeast(Younger(up, i), more.ar[i].next)
  <2>1. ASSUME NEW i \in 2 .. size PROVE IsLeast(Younger(up, i), more.ar[i].next)
    <3>1. parent[i] \in 1 .. size /\ i \in 1 .. size /\ up[i] = parent[i]
      BY <1>1, <1>11
    <3>2. IsLeast(Younger(parent, i), tree.ar[i].next)
      BY DEF Shape
    <3>3. CASE parent[i] # node
      <4>1. i # youngest
        BY <1>4, <1>14, <3>3 DEF Kids
      <4>2. Younger(up, i) = Younger(parent, i)
        BY <1>11, <3>1, <3>3 DEF Younger
      <4>3. more.ar[i].next = tree.ar[i].next
        BY <1>6, <1>9, <3>1, <4>1
      <4>4. QED
        BY <3>2, <4>2, <4>3
    <3>4. CASE parent[i] = node /\ i # youngest
      <4>1. more.ar[i].next = tree.ar[i].next
        BY <1>6, <1>9, <3>1, <3>4
      <4>2. i \in kids
        BY <1>1, <1>14, <3>4 DEF Kids
      <4>3. youngest \in Younger(parent, i)
        BY <1>4, <1>5, <1>14, <3>4, <4>2 DEF Younger
      <4>4. Younger(up, i) = Younger(parent, i) \cup {new}
        BY <1>1, <1>11, <1>14, <3>1, <3>4 DEF Younger
      <4>5. \A j \in Younger(parent, i) : j \in Nat /\ j < new
        BY <1>13, <1>14, <3>4 DEF Younger
      <4>6. tree.ar[i].next \in Younger(parent, i) /\ \A j \in Younger(parent, i) : tree.ar[i].next <= j
        BY <3>2, <4>3 DEF IsLeast
      <4>7. tree.ar[i].next <= new
        BY <1>1, <4>5, <4>6
      <4>8. QED
        BY <4>1, <4>4, <4>6, <4>7 DEF IsLeast
    <3>5. CASE i = youngest
      <4>1. more.ar[i].next = new
        BY <1>7, <1>9, <3>1, <3>5
      <4>2. parent[i] = node
        BY <1>4, <1>14, <3>5 DEF Kids
      <4>3. Younger(up, i) = {new}
        <5>1. Younger(up, i) = {j \in kids \cup {new} : i < j}
          BY <1>11, <3>1, <4>2 DEF Younger
        <5>2. \A j \in kids : ~(i < j)
          BY <1>4, <1>5, <1>13, <3>5
        <5>3. i < new
          BY <1>1
        <5>4. QED
          BY <5>1, <5>2, <5>3
      <4>4. QED
        BY <1>1, <4>1, <4>3 DEF IsLeast
    <3>6. QED
      BY <3>3, <3>4, <3>5
  <2>2. IsLeast(Younger(up, new), more.ar[new].next)
    <3>1. Kids(up, up[new]) = kids \cup {new}
      BY <1>11
    <3>2. \A j \in kids \cup {new} : ~(new < j)
      BY <1>1, <1>13
    <3>3. Younger(up, new) = {}
      BY <3>1, <3>2 DEF Younger
    <3>4. QED
      BY <1>2, <1>9, <3>3 DEF IsLeast
  <2>3. \A i \in 2 .. new : i \in 2 .. size \/ i = new
    BY <1>1
  <2>4. QED
    BY <2>1, <2>2, <2>3
<1>17. \A i \in 1 .. new : Kids(up, i) # {} => IsGreatest(Kids(up, i), more.last[more.ar[i].chld])
  <2>1. ASSUME NEW i \in 1 .. size, i # node, Kids(up, i) # {}
        PROVE  IsGreatest(Kids(up, i), more.last[more.ar[i].chld])
    <3>1. IsGreatest(Kids(parent, i), tree.last[tree.ar[i].chld]) /\ IsLeast(Kids(parent, i), tree.ar[i].chld)
      BY <1>11, <2>1 DEF Shape
    <3>2. more.ar[i].chld = tree.ar[i].chld
      BY <1>12
    <3>3. tree.ar[i].chld \in 1 .. size /\ parent[tree.ar[i].chld] = i
      BY <1>1, <3>1 DEF IsLeast, IsGreatest, Kids
    <3>4. tree.ar[i].chld # eldest
      BY <1>4, <1>14, <2>1, <3>3 DEF Kids
    <3>5. more.last[more.ar[i].chld] = tree.last[tree.ar[i].chld]
      BY <1>8, <1>9, <3>2, <3>3, <3>4
    <3>6. QED
      BY <1>11, <2>1, <3>1, <3>5
  <2>2. IsGreatest(Kids(up, node), more.last[more.ar[node].chld])
    <3>1. more.last[more.ar[node].chld] = new
      BY <1>5, <1>8, <1>9, <1>12 DEF eldest
    <3>2. \A j \in kids \cup {new} : j <= new
      BY <1>1, <1>13
    <3>3. QED
      BY <1>11, <3>1, <3>2 DEF IsGreatest
  <2>3. \A i \in 1 .. new : i \in 1 .. size \/ i = new
    BY <1>1
  <2>4. QED
    BY <1>11, <2>1, <2>2, <2>3
<1>18. more.ar[1].next = NoNode
  <2>1. 1 \in 1 .. size /\ 1 # youngest
    BY <1>1, <1>5
  <2>2. QED
    BY <1>6, <1>9, <2>1 DEF Shape
<1>19. Shape(more, up)
  <2>1. new \in Nat /\ new >= 1
    BY <1>1
  <2>2. QED
    BY <1>9, <1>11, <1>15, <1>16, <1>17, <1>18, <2>1 DEF Shape
<1>20. ItemsKept(more, tree)
  BY <1>6, <1>7, <1>9 DEF ItemsKept
<1>21. HasChildMore(more, tree, parent, node, item)
  BY <1>9, <1>19, <1>20 DEF HasChildMore, up
<1>22. QED
  BY <1>10, <1>21 DEF more, item

LEMMA AddChildShape ==
  ASSUME NEW S, NEW V, NEW tree \in NodeTrees(S, V), NEW parent, Shape(tree, parent),
         NEW node \in 1 .. Size(tree), NEW scope \in S, NEW value \in V
  PROVE  /\ addChild(tree, node, Node(scope, value)) \in NodeTrees(S, V)
         /\ HasChildMore(addChild(tree, node, Node(scope, value)), tree, parent, node, Node(scope, value))
BY AddFirstChild, AddNextChild

(* The children of a node, in the order they were added.                   *)
NextLink(tree) == [i \in 1 .. Size(tree) |-> tree.ar[i].next]

LEMMA NextIsYounger ==
  ASSUME NEW tree, NEW parent, Shape(tree, parent), NEW i \in 1 .. Size(tree), tree.ar[i].next # NoNode
  PROVE  /\ i \in 2 .. Size(tree) /\ tree.ar[i].next \in 2 .. Size(tree) /\ i < tree.ar[i].next
         /\ parent[tree.ar[i].next] = parent[i]
         /\ \A j \in Kids(parent, parent[i]) : i < j => tree.ar[i].next <= j
<1>1. /\ Size(tree) \in Nat /\ parent \in [2 .. Size(tree) -> 1 .. Size(tree)]
      /\ tree.ar[1].next = NoNode
  BY DEF Shape
<1>2. i # 1 /\ i \in 2 .. Size(tree)
  BY <1>1
<1>3. IsLeast(Younger(parent, i), tree.ar[i].next)
  BY <1>2 DEF Shape
<1>4. tree.ar[i].next \in Younger(parent, i) /\ \A j \in Younger(parent, i) : tree.ar[i].next <= j
  BY <1>3 DEF IsLeast
<1>5. QED
  BY <1>1, <1>2, <1>4 DEF Younger, Kids

LEMMA SiblingsFollow ==
  ASSUME NEW tree, NEW parent, Shape(tree, parent)
  PROVE  /\ Siblings(tree, NoNode) = <<>>
         /\ \A i \in 1 .. Size(tree) : Follows(Siblings(tree, i), i, Size(tree), NextLink(tree))
<1> DEFINE size == Size(tree)
           link == NextLink(tree)
           measure == [j \in 1 .. size |-> size - j]
<1>1. size \in Nat
  BY DEF Shape
<1>2. \A j \in 1 .. size : link[j] = tree.ar[j].next
  BY DEF NextLink
<1>3. ASSUME NEW j \in 1 .. size
      PROVE  link[j] \in 0 .. size /\ (link[j] # 0 => link[j] \in 1 .. size /\ j < link[j])
  BY <1>1, <1>2, NextIsYounger DEF NoNode
<1>4. Descending(size, link, measure)
  <2>1. \A j \in 1 .. size : measure[j] = size - j /\ measure[j] \in Nat
    BY <1>1
  <2>2. ASSUME NEW j \in 1 .. size, link[j] # 0
        PROVE  measure[link[j]] < measure[j]
    <3>1. link[j] \in 1 .. size /\ j < link[j]
      BY <1>3, <2>2
    <3> HIDE DEF measure
    <3>2. QED
      BY <1>1, <2>1, <3>1
  <2>3. link \in [1 .. size -> 0 .. size] /\ measure \in [1 .. size -> Nat]
    BY <1>3, <2>1 DEF NextLink
  <2> HIDE DEF measure
  <2>4. QED
    BY <1>1, <2>2, <2>3 DEF Descending
<1> DEFINE IsChain(lists) ==
             lists = [n \in 0 .. Len(tree.ar) |-> IF n = NoNode THEN <<>> ELSE <<n>> \o lists[tree.ar[n].next]]
<1>5. ASSUME NEW lists
      PROVE  IsChain(lists) <=> IsListing(lists, size, link)
  <2> DEFINE f == [n \in 0 .. Len(tree.ar) |-> IF n = NoNode THEN <<>> ELSE <<n>> \o lists[tree.ar[n].next]]
             g == [n \in 0 .. size |-> IF n = 0 THEN <<>> ELSE <<n>> \o lists[link[n]]]
  <2>1. ASSUME NEW n \in 0 .. size
        PROVE  f[n] = g[n]
    <3>1. n # 0 => link[n] = tree.ar[n].next
      BY <1>1, <1>2
    <3>2. QED
      BY <3>1 DEF Size, NoNode
  <2>2. f = g
    BY <2>1 DEF Size
  <2> HIDE DEF f, g
  <2>3. QED
    BY <2>2 DEF IsListing, f, g
<1>6. PICK lists : IsListing(lists, size, link)
  BY <1>4, ListingExists
<1> DEFINE chains == CHOOSE l : IsChain(l)
<1>7. IsListing(chains, size, link)
  <2> HIDE DEF IsChain, link
  <2>1. \E l : IsChain(l)
    BY <1>5, <1>6
  <2>2. QED
    BY <1>5, <2>1
<1>8. \A i : Siblings(tree, i) = chains[i]
  BY DEF Siblings
<1> HIDE DEF chains, link, measure
<1>9. chains[0] = <<>> /\ \A i \in 1 .. size : Follows(chains[i], i, size, link)
  BY <1>4, <1>7, ListingFollows
<1>10. QED
  BY <1>8, <1>9 DEF link, NoNode

(* The children a node shows are its kids, in the order of their indices.  *)
IsListOf(list, indices) ==
  /\ Len(list) \in Nat /\ DOMAIN list = 1 .. Len(list)
  /\ \A k \in 1 .. Len(list) : list[k] \in indices
  /\ \A i \in indices : \E k \in 1 .. Len(list) : list[k] = i
  /\ \A k \in 1 .. Len(list) - 1 : list[k] < list[k + 1]

LEMMA ChildrenAreKids ==
  ASSUME NEW tree, NEW parent, Shape(tree, parent), NEW p \in 1 .. Size(tree)
  PROVE  IsListOf(Children(tree, p), Kids(parent, p))
<1> DEFINE size == Size(tree)
           link == NextLink(tree)
           list == Children(tree, p)
           first_ == tree.ar[p].chld
<1>1. /\ size \in Nat /\ parent \in [2 .. size -> 1 .. size]
      /\ IsLeast(Kids(parent, p), first_) /\ Kids(parent, p) \subseteq 2 .. size
  BY DEF Shape, Kids
<1>2. CASE Kids(parent, p) = {}
  <2>1. list = <<>>
    BY <1>1, <1>2, SiblingsFollow DEF IsLeast, Children
  <2>2. Len(list) = 0 /\ DOMAIN list = 1 .. 0
    BY <2>1
  <2> HIDE DEF list
  <2>3. QED
    BY <1>2, <2>2 DEF IsListOf, list
<1>3. CASE Kids(parent, p) # {}
  <2>1. first_ \in Kids(parent, p) /\ first_ \in 2 .. size /\ \A j \in Kids(parent, p) : first_ <= j
    BY <1>1, <1>3 DEF IsLeast
  <2>2. Follows(list, first_, size, link)
    <3>1. first_ \in 1 .. size
      BY <1>1, <2>1
    <3>2. QED
      BY <3>1, SiblingsFollow DEF Children
  <2> HIDE DEF list, first_
  <2>3. /\ Len(list) \in Nat /\ DOMAIN list = 1 .. Len(list) /\ Len(list) >= 1 /\ list[1] = first_
        /\ \A k \in 1 .. Len(list) : list[k] \in 1 .. size
        /\ \A k \in 1 .. Len(list) - 1 : list[k + 1] = tree.ar[list[k]].next
        /\ tree.ar[list[Len(list)]].next = NoNode
    <3>1. /\ Len(list) \in Nat /\ DOMAIN list = 1 .. Len(list) /\ Len(list) >= 1 /\ list[1] = first_
          /\ \A k \in 1 .. Len(list) : list[k] \in 1 .. size
          /\ \A k \in 1 .. Len(list) - 1 : list[k + 1] = link[list[k]]
          /\ link[list[Len(list)]] = 0
      BY <2>2 DEF Follows
    <3>2. \A k \in 1 .. Len(list) : link[list[k]] = tree.ar[list[k]].next
      BY <3>1 DEF NextLink
    <3>3. \A k \in 1 .. Len(list) - 1 : k \in 1 .. Len(list)
      BY <3>1
    <3>4. Len(list) \in 1 .. Len(list)
      BY <3>1
    <3> HIDE DEF link
    <3>5. QED
      BY <3>1, <3>2, <3>3, <3>4 DEF NoNode
  <2>4. ASSUME NEW k \in 1 .. Len(list), list[k] \in Kids(parent, p), tree.ar[list[k]].next # NoNode
        PROVE  /\ tree.ar[list[k]].next \in Kids(parent, p) /\ list[k] < tree.ar[list[k]].next
               /\ \A j \in Kids(parent, p) : list[k] < j => tree.ar[list[k]].next <= j
    <3> DEFINE i == list[k]
               next == tree.ar[i].next
    <3>1. parent[i] = p /\ DOMAIN parent = 2 .. size
      BY <1>1, <2>4 DEF Kids
    <3>2. i \in 1 .. size /\ next # NoNode
      BY <2>3, <2>4
    <3> HIDE DEF i
    <3>3. /\ next \in 2 .. size /\ i < next /\ parent[next] = parent[i]
          /\ \A j \in Kids(parent, parent[i]) : i < j => next <= j
      BY <3>2, NextIsYounger
    <3> HIDE DEF next
    <3>4. next \in Kids(parent, p)
      BY <3>1, <3>3 DEF Kids
    <3>5. QED
      BY <3>1, <3>3, <3>4 DEF i, next
  <2> DEFINE InKids == {n \in Nat : n + 1 \in 1 .. Len(list) => list[n + 1] \in Kids(parent, p)}
  <2>5. ASSUME NEW k \in 1 .. Len(list) PROVE list[k] \in Kids(parent, p)
    <3>1. 0 \in InKids
      BY <2>1, <2>3
    <3>2. ASSUME NEW n \in 0 .. Len(list) - 1, n \in InKids PROVE n + 1 \in InKids
      <4>1. CASE n + 1 + 1 \in 1 .. Len(list)
        <5>1. n + 1 \in 1 .. Len(list) /\ n + 1 \in 1 .. Len(list) - 1 /\ list[n + 1] \in Kids(parent, p)
          BY <2>3, <3>2, <4>1
        <5>2. list[n + 1 + 1] = tree.ar[list[n + 1]].next /\ list[n + 1 + 1] \in 1 .. size
          BY <2>3, <4>1, <5>1
        <5>3. tree.ar[list[n + 1]].next # NoNode
          BY <1>1, <5>2 DEF NoNode
        <5>4. list[n + 1 + 1] \in Kids(parent, p)
          BY <2>4, <5>1, <5>2, <5>3
        <5>5. QED
          BY <5>4
      <4>2. CASE ~(n + 1 + 1 \in 1 .. Len(list))
        BY <4>2
      <4>3. QED
        BY <4>1, <4>2
    <3> HIDE DEF InKids
    <3>3. 0 .. Len(list) \subseteq InKids
      BY <2>3, <3>1, <3>2, UpTo
    <3>4. k - 1 \in 0 .. Len(list) /\ k - 1 + 1 = k
      BY <2>3
    <3>5. k - 1 \in InKids
      BY <3>3, <3>4
    <3>6. QED
      BY <3>4, <3>5 DEF InKids
  <2>6. ASSUME NEW k \in 1 .. Len(list) - 1 PROVE list[k] < list[k + 1]
    <3>1. k \in 1 .. Len(list) /\ k + 1 \in 1 .. Len(list) /\ list[k + 1] = tree.ar[list[k]].next
      BY <2>3
    <3>2. list[k + 1] # NoNode
      BY <1>1, <2>3, <3>1 DEF NoNode
    <3>3. QED
      BY <2>4, <2>5, <3>1, <3>2
  <2>7. ASSUME NEW i \in Kids(parent, p)
        PROVE  \E k \in 1 .. Len(list) : list[k] = i
    <3> SUFFICES ASSUME \A k \in 1 .. Len(list) : list[k] # i PROVE FALSE
      OBVIOUS
    <3> DEFINE B == {k \in 1 .. Len(list) : list[k] < i}
    <3>0. i \in 2 .. size /\ \A k \in 1 .. Len(list) : list[k] \in 1 .. size
      BY <1>1, <2>3
    <3>1. 1 \in B
      BY <1>1, <2>1, <2>3, <3>0
    <3>2. PICK m \in B : \A n \in B : n <= m
      <4>1. B \in SUBSET Nat /\ B # {} /\ \A n \in B : n <= Len(list)
        BY <3>1, <2>3
      <4> HIDE DEF B
      <4>2. QED
        BY <2>3, <4>1, NatMax
    <3>3. m \in 1 .. Len(list) /\ list[m] < i /\ list[m] \in Kids(parent, p)
      BY <2>5, <3>2
    <3>4. CASE tree.ar[list[m]].next = NoNode
      <4>1. parent[list[m]] = p /\ list[m] \in 2 .. size
        BY <1>1, <3>3 DEF Kids
      <4>2. i \in Younger(parent, list[m])
        BY <3>3, <4>1 DEF Younger
      <4>3. IsLeast(Younger(parent, list[m]), NoNode)
        BY <3>4, <4>1 DEF Shape
      <4>4. NoNode \in Kids(parent, p)
        BY <4>1, <4>2, <4>3 DEF IsLeast, Younger
      <4>5. QED
        BY <1>1, <4>4 DEF NoNode
    <3>5. CASE tree.ar[list[m]].next # NoNode
      <4>1. m # Len(list) /\ m \in 1 .. Len(list) - 1 /\ m + 1 \in 1 .. Len(list)
        BY <2>3, <3>3, <3>5
      <4>2. list[m + 1] = tree.ar[list[m]].next
        BY <2>3, <4>1
      <4>3. list[m + 1] <= i
        BY <2>4, <3>3, <3>5, <4>2
      <4>4. list[m + 1] < i
        BY <3>0, <4>1, <4>3
      <4>5. m + 1 \in B
        BY <4>1, <4>4
      <4>6. m + 1 <= m
        BY <3>2, <4>5
      <4>7. QED
        BY <3>3, <4>6
    <3>6. QED
      BY <3>4, <3>5
  <2>8. IsListOf(list, Kids(parent, p))
    BY <2>3, <2>5, <2>6, <2>7 DEF IsListOf
  <2>9. QED
    BY <2>8 DEF list
<1>4. QED
  BY <1>2, <1>3

-----------------------------------------------------------------------------
(* The depth first iterator.  It is on a path from the root to a node, and *)
(* has passed what is not below this node and not behind the path: a node  *)
(* is passed if its parent is, and its parent is not the node the iterator *)
(* is on, nor has it a younger child on the path.                          *)
Path(it) == [k \in 2 .. Len(it.stack) + 1 |-> IF k <= Len(it.stack) THEN it.stack[k] ELSE it.pos]

Passing(size, parent, path, end, passed) ==
  /\ end \in Nat /\ end >= 2 /\ path[2] = 1 /\ passed \subseteq 1 .. size
  /\ \A k \in 2 .. end : path[k] \in passed
  /\ \A k \in 2 .. end - 1 : path[k + 1] \in Kids(parent, path[k])
  /\ \A j, k \in 2 .. end : j < k => path[j] < path[k]
  /\ \A i \in 2 .. size :
       i \in passed <=> /\ parent[i] \in passed /\ parent[i] # path[end]
                        /\ \A k \in 2 .. end - 1 : parent[i] = path[k] => i <= path[k + 1]

(* The rest of the path from k on has no nodes left.                       *)
NothingLeft(parent, path, k, end) ==
  k <= end => /\ Kids(parent, path[end]) = {}
              /\ \A j \in k .. end - 1 : \A i \in Kids(parent, path[j]) : i <= path[j + 1]

IsNextNode(parent, path, k, end, y) ==
  /\ y \in Kids(parent, path[k - 1])
  /\ IF k = end + 1 THEN \A i \in Kids(parent, path[end]) : y <= i
     ELSE path[k] < y /\ \A i \in Kids(parent, path[k - 1]) : path[k] < i => y <= i

IsNextPath(parent, path, end, more, k, y) ==
  /\ k \in 3 .. end + 1 /\ IsNextNode(parent, path, k, end, y) /\ NothingLeft(parent, path, k, end)
  /\ \A j \in 2 .. k - 1 : more[j] = path[j]
  /\ more[k] = y

Descends(size, parent) ==
  /\ size \in Nat /\ parent \in [2 .. size -> 1 .. size]
  /\ \A i \in 2 .. size : parent[i] < i

LEMMA PassingStep ==
  ASSUME NEW size, NEW parent, Descends(size, parent), NEW path, NEW end, NEW passed,
         Passing(size, parent, path, end, passed),
         NEW more, NEW k, NEW y, IsNextPath(parent, path, end, more, k, y)
  PROVE  y \in 2 .. size /\ y \notin passed /\ Passing(size, parent, more, k, passed \cup {y})
<1>0. /\ size \in Nat /\ parent \in [2 .. size -> 1 .. size] /\ \A i \in 2 .. size : parent[i] < i
      /\ k \in 3 .. end + 1 /\ IsNextNode(parent, path, k, end, y) /\ NothingLeft(parent, path, k, end)
      /\ \A j \in 2 .. k - 1 : more[j] = path[j]
      /\ more[k] = y
  BY DEF Descends, IsNextPath
<1> USE <1>0
<1>1. /\ end \in Nat /\ end >= 2 /\ path[2] = 1 /\ passed \subseteq 1 .. size
      /\ \A j \in 2 .. end : path[j] \in passed /\ path[j] \in 1 .. size
      /\ \A j \in 2 .. end - 1 : path[j + 1] \in Kids(parent, path[j])
      /\ \A i, j \in 2 .. end : i < j => path[i] < path[j]
  BY DEF Passing
<1>2. ASSUME NEW i \in 2 .. size
      PROVE  i \in passed <=> /\ parent[i] \in passed /\ parent[i] # path[end]
                              /\ \A j \in 2 .. end - 1 : parent[i] = path[j] => i <= path[j + 1]
  BY DEF Passing
<1>3. y \in 2 .. size /\ parent[y] = path[k - 1] /\ path[k - 1] < y /\ k - 1 \in 2 .. end
  <2>1. y \in Kids(parent, path[k - 1]) /\ k - 1 \in 2 .. end
    BY <1>1 DEF IsNextNode
  <2>2. QED
    BY <2>1 DEF Kids
<1>4. k # end + 1 => k \in 3 .. end /\ k - 1 \in 2 .. end - 1 /\ k - 1 + 1 = k
  BY <1>1
<1>5. k = end + 1 => k - 1 = end
  BY <1>1
<1>6. y \notin passed
  <2>1. CASE k = end + 1
    BY <1>2, <1>3, <1>5, <2>1
  <2>2. CASE k # end + 1
    <3>1. path[k] < y /\ path[k] \in 1 .. size
      BY <1>1, <1>4, <2>2 DEF IsNextNode
    <3>2. ~(y <= path[k])
      BY <1>3, <3>1
    <3>3. QED
      BY <1>2, <1>3, <1>4, <2>2, <3>2
  <2>3. QED
    BY <2>1, <2>2
<1>7. \A j \in 2 .. k - 1 : j \in 2 .. end /\ more[j] = path[j]
  BY <1>1
<1>8. \A j \in 2 .. k : more[j] \in passed \cup {y}
  <2>1. \A j \in 2 .. k : j = k \/ j \in 2 .. k - 1
    OBVIOUS
  <2>2. QED
    BY <1>1, <1>7, <2>1
<1>9. \A j \in 2 .. k - 1 : more[j + 1] \in Kids(parent, more[j])
  <2>1. ASSUME NEW j \in 2 .. k - 1, j # k - 1
        PROVE  more[j + 1] \in Kids(parent, more[j])
    <3>1. j + 1 \in 2 .. k - 1 /\ j \in 2 .. end - 1
      BY <1>1, <2>1
    <3>2. QED
      BY <1>1, <1>7, <3>1
  <2>2. k - 1 + 1 = k /\ k - 1 \in 2 .. k - 1
    OBVIOUS
  <2>3. more[k] \in Kids(parent, more[k - 1])
    BY <1>7, <2>2 DEF IsNextNode
  <2>4. QED
    BY <2>1, <2>2, <2>3
<1>10. \A i, j \in 2 .. k : i < j => more[i] < more[j]
  <2>1. ASSUME NEW i \in 2 .. k - 1 PROVE more[i] < y
    <3>1. path[i] = path[k - 1] \/ path[i] < path[k - 1]
      <4>1. i = k - 1 \/ i < k - 1
        OBVIOUS
      <4>2. QED
        BY <1>1, <1>3, <1>7, <4>1
    <3>2. path[i] \in 1 .. size /\ path[k - 1] \in 1 .. size
      BY <1>1, <1>3, <1>7
    <3>3. QED
      BY <1>3, <1>7, <3>1, <3>2
  <2>2. ASSUME NEW i \in 2 .. k, NEW j \in 2 .. k, i < j PROVE more[i] < more[j]
    <3>1. i \in 2 .. k - 1 /\ (j = k \/ j \in 2 .. k - 1)
      BY <2>2
    <3>2. QED
      BY <1>1, <1>7, <2>1, <2>2, <3>1
  <2>3. QED
    BY <2>2
<1>11. ASSUME NEW j \in 2 .. k - 1, path[j] = path[k - 1]
       PROVE  j = k - 1
  <2>1. j \in 2 .. end /\ k - 1 \in 2 .. end /\ (j < k - 1 \/ j = k - 1)
    BY <1>3, <1>7
  <2>2. ~(path[j] < path[k - 1])
    BY <1>1, <1>11, <2>1
  <2>3. QED
    BY <1>1, <2>1, <2>2
<1> DEFINE Condition(i) == /\ parent[i] \in passed \cup {y} /\ parent[i] # y
                           /\ \A j \in 2 .. k - 1 : parent[i] = more[j] => i <= more[j + 1]
<1>12. Condition(y)
  <2>1. parent[y] \in passed /\ parent[y] # y
    BY <1>1, <1>3
  <2>2. ASSUME NEW j \in 2 .. k - 1, parent[y] = more[j] PROVE y <= more[j + 1]
    <3>1. j = k - 1
      BY <1>3, <1>7, <1>11, <2>2
    <3>2. more[j + 1] = y /\ y <= y
      BY <1>3, <3>1
    <3>3. QED
      BY <3>2
  <2>3. QED
    BY <2>1, <2>2
<1>13. ASSUME NEW i \in 2 .. size, i # y, i \in passed
       PROVE  Condition(i)
  <2>1. parent[i] \in passed /\ parent[i] # path[end] /\ parent[i] # y
    BY <1>2, <1>6, <1>13
  <2>2. ASSUME NEW j \in 2 .. k - 1, parent[i] = more[j] PROVE i <= more[j + 1]
    <3>1. parent[i] = path[j] /\ j # end
      BY <1>7, <2>1, <2>2
    <3>2. j \in 2 .. end - 1 /\ j + 1 \in 2 .. end
      BY <1>1, <1>7, <3>1
    <3>3. i <= path[j + 1] /\ path[j + 1] \in 1 .. size
      BY <1>1, <1>2, <1>13, <3>1, <3>2
    <3>4. CASE j + 1 \in 2 .. k - 1
      BY <1>7, <3>3, <3>4
    <3>5. CASE j + 1 \notin 2 .. k - 1
      <4>1. j + 1 = k /\ k # end + 1
        BY <1>1, <3>2, <3>5
      <4>2. path[k] < y
        BY <4>1 DEF IsNextNode
      <4>3. QED
        BY <1>3, <3>3, <4>1, <4>2
    <3>6. QED
      BY <3>4, <3>5
  <2>3. QED
    BY <2>1, <2>2
<1>14. ASSUME NEW i \in 2 .. size, i # y, Condition(i)
       PROVE  i \in passed
  <2>1. parent[i] \in passed
    BY <1>14
  <2>2. \A j \in 2 .. k - 1 : parent[i] = path[j] => i <= more[j + 1]
    BY <1>7, <1>14
  <2>3. parent[i] # path[end]
    <3> SUFFICES ASSUME parent[i] = path[end] PROVE FALSE
      OBVIOUS
    <3>1. i \in Kids(parent, path[end])
      BY DEF Kids
    <3>2. k = end + 1
      <4>1. ~(k <= end)
        BY <3>1 DEF NothingLeft
      <4>2. QED
        BY <1>1, <4>1
    <3>3. y <= i
      BY <3>1, <3>2 DEF IsNextNode
    <3>4. i <= y
      <4>1. end \in 2 .. k - 1 /\ end + 1 = k
        BY <1>1, <3>2
      <4>2. QED
        BY <2>2, <4>1
    <3>5. QED
      BY <1>3, <1>14, <3>3, <3>4
  <2>4. ASSUME NEW j \in 2 .. end - 1, parent[i] = path[j] PROVE i <= path[j + 1]
    <3>1. i \in Kids(parent, path[j])
      BY <2>4 DEF Kids
    <3>2. CASE j >= k
      <4>1. k <= end /\ j \in k .. end - 1
        BY <1>1, <3>2
      <4>2. QED
        BY <3>1, <4>1 DEF NothingLeft
    <3>3. CASE j = k - 1
      <4>1. k # end + 1 /\ j + 1 = k /\ j \in 2 .. k - 1 /\ k \in 2 .. end
        BY <1>1, <3>3
      <4>2. i <= y
        BY <2>2, <2>4, <4>1
      <4>3. path[k] < i => y <= i
        BY <3>1, <3>3, <4>1 DEF IsNextNode
      <4>4. path[k] \in 1 .. size
        BY <1>1, <4>1
      <4>5. QED
        BY <1>3, <1>14, <4>1, <4>2, <4>3, <4>4
    <3>4. CASE j < k - 1
      <4>1. j \in 2 .. k - 1 /\ j + 1 \in 2 .. k - 1
        BY <3>4
      <4>2. QED
        BY <1>7, <2>2, <2>4, <4>1
    <3>5. QED
      BY <1>1, <3>2, <3>3, <3>4
  <2>5. QED
    BY <1>2, <2>1, <2>3, <2>4
<1>15. \A i \in 2 .. size :
         i \in passed \cup {y} <=> /\ parent[i] \in passed \cup {y} /\ parent[i] # more[k]
                                   /\ \A j \in 2 .. k - 1 : parent[i] = more[j] => i <= more[j + 1]
  <2>1. ASSUME NEW i \in 2 .. size PROVE i \in passed \cup {y} <=> Condition(i)
    <3> HIDE DEF Condition
    <3>1. QED
      BY <1>12, <1>13, <1>14
  <2>2. QED
    BY <2>1
<1>16. more[2] = 1 /\ passed \cup {y} \subseteq 1 .. size
  <2>1. 2 \in 2 .. k - 1
    OBVIOUS
  <2>2. QED
    BY <1>1, <1>3, <1>7, <2>1
<1>17. k \in Nat /\ k >= 2
  BY <1>1
<1>18. Passing(size, parent, more, k, passed \cup {y})
  BY <1>8, <1>9, <1>10, <1>15, <1>16, <1>17 DEF Passing
<1>19. QED
  BY <1>3, <1>6, <1>18

(* With nothing left anywhere on the path all nodes are passed.            *)
LEMMA PassingEnds ==
  ASSUME NEW size, NEW parent, Descends(size, parent), NEW path, NEW end, NEW passed, Passing(size, parent, path, end, passed),
         NothingLeft(parent, path, 2, end)
  PROVE  passed = 1 .. size
<1> DEFINE T == 1 .. size \ passed
<1>0. /\ size \in Nat /\ parent \in [2 .. size -> 1 .. size] /\ \A i \in 2 .. size : parent[i] < i
  BY DEF Descends
<1> USE <1>0
<1>1. end \in Nat /\ end >= 2 /\ 2 \in 2 .. end /\ passed \subseteq 1 .. size /\ 1 \in passed
  BY DEF Passing
<1>2. SUFFICES ASSUME T # {} PROVE FALSE
  BY <1>1
<1>3. T \in SUBSET Nat
  OBVIOUS
<1>4. PICK i \in T : \A j \in T : i <= j
  BY <1>2, <1>3, NatMin
<1>5. i \in 2 .. size /\ i \notin passed
  BY <1>1
<1>6. parent[i] \in passed
  <2>1. parent[i] \in 1 .. size /\ parent[i] < i
    BY <1>5
  <2>2. ~(i <= parent[i])
    BY <1>5, <2>1
  <2>3. QED
    BY <1>4, <2>1, <2>2
<1>7. parent[i] # path[end] /\ \A k \in 2 .. end - 1 : parent[i] = path[k] => i <= path[k + 1]
  BY <1>1, <1>5 DEF NothingLeft, Kids
<1>8. i \in passed
  BY <1>5, <1>6, <1>7 DEF Passing
<1>9. QED
  BY <1>5, <1>8

OnPath(tree, parent, it, passed) ==
  /\ it.stack \in Seq(Nat) /\ Len(it.stack) \in Nat /\ DOMAIN it.stack = 1 .. Len(it.stack)
  /\ Len(it.stack) >= 1 /\ it.stack[1] = Size(tree) + 1 /\ it.pos \in passed
  /\ Passing(Size(tree), parent, Path(it), Len(it.stack) + 1, passed)

MovesOn(tree, parent, path, end, k, new) ==
  /\ k \in 3 .. end + 1
  /\ IsNextNode(parent, path, k, end, new.pos) /\ NothingLeft(parent, path, k, end)
  /\ new.stack \in Seq(Nat) /\ Len(new.stack) = k - 1
  /\ \A j \in 1 .. k - 1 : new.stack[j] = IF j = 1 THEN Size(tree) + 1 ELSE path[j]

LEMMA NextOnPath ==
  ASSUME NEW tree, NEW parent, Shape(tree, parent), NEW it, NEW passed, OnPath(tree, parent, it, passed),
         NEW k, NEW new, MovesOn(tree, parent, Path(it), Len(it.stack) + 1, k, new)
  PROVE  new.pos \in 1 .. Size(tree) /\ new.pos \notin passed /\ OnPath(tree, parent, new, passed \cup {new.pos})
<1> DEFINE size == Size(tree)
           end == Len(it.stack) + 1
           path == Path(it)
           more == Path(new)
           y == new.pos
<1>0. /\ k \in 3 .. end + 1
      /\ IsNextNode(parent, path, k, end, y) /\ NothingLeft(parent, path, k, end)
      /\ new.stack \in Seq(Nat) /\ Len(new.stack) = k - 1
      /\ \A j \in 1 .. k - 1 : new.stack[j] = IF j = 1 THEN Size(tree) + 1 ELSE path[j]
  BY DEF MovesOn
<1>1. /\ size \in Nat /\ Descends(size, parent)
      /\ end \in Nat /\ end >= 2 /\ Passing(size, parent, path, end, passed) /\ k \in 3 .. end + 1
  <2>1. size \in Nat /\ Descends(size, parent)
    BY DEF Shape, Descends
  <2>2. Len(it.stack) \in Nat /\ Len(it.stack) >= 1 /\ Passing(size, parent, path, end, passed)
    BY DEF OnPath
  <2> HIDE DEF size, path
  <2>3. end \in Nat /\ end >= 2
    BY <2>2
  <2>4. QED
    BY <1>0, <2>1, <2>2, <2>3
<1>2. k - 1 \in Nat /\ k - 1 >= 2 /\ Len(new.stack) + 1 = k /\ k \in Nat
  BY <1>0, <1>1
<1>3. more[k] = y /\ \A j \in 2 .. k - 1 : more[j] = path[j]
  <2>1. more = [j \in 2 .. k |-> IF j <= k - 1 THEN new.stack[j] ELSE y]
    BY <1>2 DEF Path
  <2>2. \A j \in 2 .. k - 1 : j \in 2 .. k /\ j <= k - 1 /\ j # 1 /\ j \in 1 .. k - 1
    BY <1>2
  <2>3. k \in 2 .. k /\ ~(k <= k - 1)
    BY <1>2
  <2> HIDE DEF more, path
  <2>4. \A j \in 2 .. k - 1 : more[j] = new.stack[j]
    BY <2>1, <2>2
  <2>5. \A j \in 2 .. k - 1 : new.stack[j] = path[j]
    BY <1>0, <2>2
  <2>6. more[k] = y
    BY <2>1, <2>3
  <2>7. QED
    BY <2>4, <2>5, <2>6
<1> HIDE DEF more, path, end, y
<1>4. y \in 2 .. size /\ y \notin passed /\ Passing(size, parent, more, k, passed \cup {y})
  <2>1. IsNextPath(parent, path, end, more, k, y)
    BY <1>0, <1>3 DEF IsNextPath
  <2> HIDE DEF size
  <2>2. QED
    BY <1>1, <2>1, PassingStep
<1>5. /\ Len(new.stack) \in Nat /\ DOMAIN new.stack = 1 .. Len(new.stack) /\ Len(new.stack) >= 1
      /\ new.stack[1] = Size(tree) + 1
  BY <1>0, <1>2
<1>6. OnPath(tree, parent, new, passed \cup {new.pos})
  BY <1>0, <1>2, <1>4, <1>5 DEF OnPath, more, y
<1>7. QED
  BY <1>1, <1>4, <1>6 DEF y

LEMMA SkipStep ==
  ASSUME NEW S, NEW V, NEW tree \in NodeTrees(S, V), NEW parent, Shape(tree, parent),
         NEW it, NEW passed, OnPath(tree, parent, it, passed)
  PROVE  \/ /\ Skip(tree, it).pos \in 1 .. Size(tree) /\ Skip(tree, it).pos \notin passed
            /\ OnPath(tree, parent, Skip(tree, it), passed \cup {Skip(tree, it).pos})
         \/ passed = 1 .. Size(tree) /\ Skip(tree, it).pos = Size(tree) + 1
<1> DEFINE size == Size(tree)
           stack == it.stack
           len == Len(stack)
           end == len + 1
           path == Path(it)
           node == tree.ar[it.pos]
           open == {k \in 2 .. len : tree.ar[stack[k]].next # NoNode}
           up == CHOOSE k \in open : \A j \in open : j <= k
           new == Skip(tree, it)
<1>1. /\ size \in Nat /\ parent \in [2 .. size -> 1 .. size] /\ \A i \in 2 .. size : parent[i] < i
      /\ tree.ar[1].next = NoNode /\ size >= 1
  BY DEF Shape
<1>2. /\ stack \in Seq(Nat) /\ len \in Nat /\ DOMAIN stack = 1 .. len /\ len >= 1 /\ stack[1] = size + 1
      /\ Passing(size, parent, path, end, passed) /\ end \in Nat /\ end >= 2
  BY DEF OnPath
<1>3. /\ path[2] = 1 /\ passed \subseteq 1 .. size
      /\ \A k \in 2 .. end : path[k] \in 1 .. size
      /\ \A k \in 2 .. end - 1 : path[k + 1] \in Kids(parent, path[k])
  BY <1>2 DEF Passing
<1>4. path[end] = it.pos /\ \A k \in 2 .. len : path[k] = stack[k]
  <2>1. end \in 2 .. end /\ ~(end <= len) /\ \A k \in 2 .. len : k \in 2 .. end /\ k <= len
    BY <1>2
  <2>2. path = [k \in 2 .. end |-> IF k <= len THEN stack[k] ELSE it.pos]
    BY DEF Path
  <2> HIDE DEF path, end, len, stack
  <2>3. QED
    BY <2>1, <2>2
<1>5. it.pos \in 1 .. size
  <2>1. end \in 2 .. end
    BY <1>2
  <2>2. QED
    BY <1>3, <1>4, <2>1
<1>6. IsLeast(Kids(parent, it.pos), node.chld)
  BY <1>5 DEF Shape
<1>7. new = IF node.chld # NoNode THEN [pos |-> node.chld, stack |-> Append(stack, it.pos)]
            ELSE IF node.next # NoNode THEN [pos |-> node.next, stack |-> stack]
            ELSE IF open # {} THEN [pos |-> tree.ar[stack[up]].next, stack |-> SubSeq(stack, 1, up - 1)]
            ELSE [pos |-> stack[1], stack |-> <<>>]
  BY DEF Skip
<1> DEFINE Moved == /\ new.pos \in 1 .. size /\ new.pos \notin passed
                    /\ OnPath(tree, parent, new, passed \cup {new.pos})
(* A node that has a younger sibling.                                      *)
<1>8. ASSUME NEW k \in 3 .. end, tree.ar[path[k]].next # NoNode
      PROVE  IsNextNode(parent, path, k, end, tree.ar[path[k]].next)
  <2>1. k - 1 \in 2 .. end - 1 /\ k - 1 + 1 = k /\ k \in 2 .. end /\ k # end + 1
    BY <1>2
  <2>2. parent[path[k]] = path[k - 1] /\ path[k] \in 2 .. size
    BY <1>1, <1>3, <2>1 DEF Kids
  <2>3. /\ tree.ar[path[k]].next \in 2 .. size /\ path[k] < tree.ar[path[k]].next
        /\ parent[tree.ar[path[k]].next] = path[k - 1]
        /\ \A j \in Kids(parent, path[k - 1]) : path[k] < j => tree.ar[path[k]].next <= j
    <3>1. path[k] \in 1 .. size
      BY <1>3, <2>1
    <3> HIDE DEF path, end
    <3>2. QED
      BY <1>8, <2>2, <3>1, NextIsYounger
  <2>4. tree.ar[path[k]].next \in Kids(parent, path[k - 1])
    BY <1>1, <2>3 DEF Kids
  <2> HIDE DEF path, end
  <2>5. QED
    BY <2>1, <2>3, <2>4 DEF IsNextNode
<1>9. ASSUME NEW k \in 2 .. end - 1, tree.ar[path[k + 1]].next = NoNode
      PROVE  \A i \in Kids(parent, path[k]) : i <= path[k + 1]
  <2>1. k + 1 \in 2 .. end
    BY <1>2
  <2>2. path[k + 1] \in 2 .. size /\ parent[path[k + 1]] = path[k]
    BY <1>1, <1>3, <2>1 DEF Kids
  <2>3. IsLeast(Younger(parent, path[k + 1]), NoNode)
    BY <1>9, <2>2 DEF Shape
  <2>4. NoNode \notin Younger(parent, path[k + 1])
    BY <1>1 DEF Younger, Kids, NoNode
  <2>5. Younger(parent, path[k + 1]) = {}
    BY <2>3, <2>4 DEF IsLeast
  <2>6. \A i \in Kids(parent, path[k]) : i \in 2 .. size /\ ~(path[k + 1] < i)
    BY <1>1, <2>2, <2>5 DEF Younger, Kids
  <2> HIDE DEF path
  <2>7. QED
    BY <2>2, <2>6
<1> HIDE DEF new, open, path, end, len, stack, node
<1>10. end = len + 1 /\ stack = it.stack /\ len = Len(it.stack) /\ path = Path(it) /\ Len(it.stack) + 1 = end
  BY DEF end, len, stack, path
<1>14. ASSUME NEW k, MovesOn(tree, parent, path, end, k, new) PROVE Moved
  <2> HIDE DEF size
  <2>1. MovesOn(tree, parent, Path(it), Len(it.stack) + 1, k, new)
    BY <1>10, <1>14
  <2>2. new.pos \in 1 .. Size(tree) /\ new.pos \notin passed /\ OnPath(tree, parent, new, passed \cup {new.pos})
    BY <2>1, NextOnPath
  <2>3. QED
    BY <2>2 DEF size
<1> HIDE DEF Moved, up
<1>11. CASE node.chld # NoNode
  <2>1. new.pos = node.chld /\ new.stack = Append(stack, it.pos)
    BY <1>7, <1>11
  <2>2. node.chld \in Kids(parent, it.pos) /\ \A i \in Kids(parent, it.pos) : node.chld <= i
    BY <1>6, <1>11 DEF IsLeast
  <2>3. IsNextNode(parent, path, end + 1, end, node.chld)
    <3> DEFINE k == end + 1
    <3>1. k - 1 = end
      BY <1>2
    <3> HIDE DEF k
    <3>2. node.chld \in Kids(parent, path[k - 1]) /\ \A i \in Kids(parent, path[end]) : node.chld <= i
      BY <1>4, <2>2, <3>1
    <3>3. k = end + 1
      BY DEF k
    <3>4. IsNextNode(parent, path, k, end, node.chld)
      BY <3>2, <3>3 DEF IsNextNode
    <3>5. QED
      BY <3>4 DEF k
  <2>4. NothingLeft(parent, path, end + 1, end)
    BY <1>2 DEF NothingLeft
  <2>5. /\ new.stack \in Seq(Nat) /\ Len(new.stack) = end
        /\ \A j \in 1 .. end : new.stack[j] = IF j = 1 THEN size + 1 ELSE path[j]
    <3>1. it.pos \in Nat
      BY <1>5
    <3>2. /\ Append(stack, it.pos) \in Seq(Nat) /\ Len(Append(stack, it.pos)) = end
          /\ Append(stack, it.pos)[end] = it.pos /\ \A j \in 1 .. len : Append(stack, it.pos)[j] = stack[j]
      BY <1>2, <1>10, <3>1
    <3>3. ASSUME NEW j \in 1 .. end PROVE Append(stack, it.pos)[j] = IF j = 1 THEN size + 1 ELSE path[j]
      <4>1. (j = end /\ j # 1) \/ j \in 2 .. len \/ (j = 1 /\ j \in 1 .. len)
        BY <1>2, <1>10
      <4>2. QED
        BY <1>2, <1>4, <3>2, <4>1
    <3>4. QED
      BY <2>1, <3>2, <3>3
  <2>7. Moved
    <3> DEFINE k == end + 1
    <3>1. k \in 3 .. end + 1 /\ k - 1 = end
      BY <1>2
    <3> HIDE DEF k
    <3>2. IsNextNode(parent, path, k, end, new.pos) /\ NothingLeft(parent, path, k, end)
      BY <2>1, <2>3, <2>4 DEF k
    <3>3. MovesOn(tree, parent, path, end, k, new)
      BY <2>5, <3>1, <3>2 DEF MovesOn
    <3>4. QED
      BY <1>14, <3>3
  <2>8. QED
    BY <2>7 DEF Moved, new
<1>12. CASE node.chld = NoNode
  <2>1. Kids(parent, path[end]) = {}
    <3>1. NoNode \notin Kids(parent, it.pos)
      BY <1>1 DEF Kids, NoNode
    <3>2. QED
      BY <1>4, <1>6, <1>12, <3>1 DEF IsLeast
  <2>2. CASE node.next # NoNode
    <3>1. new.pos = node.next /\ new.stack = stack
      BY <1>7, <1>12, <2>2
    <3>2. tree.ar[path[end]].next = node.next
      BY <1>4 DEF node
    <3>3. end # 2 /\ end \in 3 .. end /\ end - 1 = len
      <4>1. end # 2
        BY <1>1, <1>3, <2>2, <3>2
      <4>2. QED
        BY <1>2, <1>10, <4>1
    <3>4. IsNextNode(parent, path, end, end, node.next)
      BY <1>8, <2>2, <3>2, <3>3
    <3>5. NothingLeft(parent, path, end, end)
      BY <1>2, <2>1 DEF NothingLeft
    <3>6. \A j \in 1 .. len : stack[j] = IF j = 1 THEN size + 1 ELSE path[j]
      <4>1. \A j \in 1 .. len : j = 1 \/ j \in 2 .. len
        BY <1>2
      <4>2. QED
        BY <1>2, <1>4, <4>1
    <3>7. Moved
      <4>1. end \in 3 .. end + 1 /\ Len(new.stack) = end - 1 /\ new.stack \in Seq(Nat)
        BY <1>2, <1>10, <3>1, <3>3
      <4>2. IsNextNode(parent, path, end, end, new.pos)
        BY <3>1, <3>4
      <4>3. \A j \in 1 .. end - 1 : new.stack[j] = IF j = 1 THEN Size(tree) + 1 ELSE path[j]
        BY <3>1, <3>3, <3>6
      <4>4. MovesOn(tree, parent, path, end, end, new)
        BY <3>5, <4>1, <4>2, <4>3 DEF MovesOn
      <4>5. QED
        BY <1>14, <4>4
    <3>8. QED
      BY <3>7 DEF Moved, new
  <2>3. CASE node.next = NoNode /\ open # {}
    <3>1. up \in open /\ \A j \in open : j <= up
      <4>1. open \in SUBSET Nat /\ \A j \in open : j <= len
        BY <1>2 DEF open
      <4>2. \E m \in open : \A j \in open : j <= m
        BY <1>2, <2>3, <4>1, NatMax
      <4>3. QED
        BY <4>2 DEF up
    <3>2. up \in 2 .. len /\ tree.ar[path[up]].next # NoNode
      BY <1>4, <3>1 DEF open
    <3>3. up # 2 /\ up \in 3 .. end /\ up - 1 \in 0 .. len /\ up \in Nat
      <4>1. up # 2
        BY <1>1, <1>3, <3>2
      <4>2. QED
        BY <1>2, <1>10, <3>2, <4>1
    <3>4. /\ new.pos = tree.ar[path[up]].next /\ new.stack = SubSeq(stack, 1, up - 1)
      BY <1>4, <1>7, <1>12, <2>3, <3>2
    <3>5. IsNextNode(parent, path, up, end, new.pos)
      BY <1>8, <3>2, <3>3, <3>4
    <3>6. NothingLeft(parent, path, up, end)
      <4>1. ASSUME NEW j \in up .. end - 1 PROVE \A i \in Kids(parent, path[j]) : i <= path[j + 1]
        <5>1. j \in 2 .. end - 1 /\ (j + 1 = end \/ j + 1 \in 2 .. len) /\ ~(j + 1 <= up)
          BY <1>2, <1>10, <3>3
        <5>2. tree.ar[path[j + 1]].next = NoNode
          <6>1. CASE j + 1 = end
            BY <1>4, <2>3, <6>1 DEF node
          <6>2. CASE j + 1 \in 2 .. len
            BY <1>4, <3>1, <5>1, <6>2 DEF open
          <6>3. QED
            BY <5>1, <6>1, <6>2
        <5>3. QED
          BY <1>9, <5>1, <5>2
      <4>2. QED
        BY <2>1, <4>1 DEF NothingLeft
    <3>7. /\ new.stack \in Seq(Nat) /\ Len(new.stack) = up - 1
          /\ \A j \in 1 .. up - 1 : new.stack[j] = stack[j]
      BY <1>2, <3>3, <3>4
    <3>8. \A j \in 1 .. up - 1 : new.stack[j] = IF j = 1 THEN size + 1 ELSE path[j]
      <4>1. \A j \in 1 .. up - 1 : j = 1 \/ j \in 2 .. len
        BY <1>2, <3>3
      <4>2. QED
        BY <1>2, <1>4, <3>7, <4>1
    <3>9. Moved
      <4>1. up \in 3 .. end + 1
        BY <1>2, <3>3
      <4>2. MovesOn(tree, parent, path, end, up, new)
        BY <3>5, <3>6, <3>7, <3>8, <4>1 DEF MovesOn
      <4>3. QED
        BY <1>14, <4>2
    <3>10. QED
      BY <3>9 DEF Moved, new
  <2>4. CASE node.next = NoNode /\ open = {}
    <3>1. new.pos = size + 1
      BY <1>2, <1>7, <1>12, <2>4
    <3>2. NothingLeft(parent, path, 2, end)
      <4>1. ASSUME NEW j \in 2 .. end - 1 PROVE \A i \in Kids(parent, path[j]) : i <= path[j + 1]
        <5>1. j + 1 = end \/ j + 1 \in 2 .. len
          BY <1>2, <1>10
        <5>2. tree.ar[path[j + 1]].next = NoNode
          <6>1. CASE j + 1 = end
            BY <1>4, <2>4, <6>1 DEF node
          <6>2. CASE j + 1 \in 2 .. len
            BY <1>4, <2>4, <6>2 DEF open
          <6>3. QED
            BY <5>1, <6>1, <6>2
        <5>3. QED
          BY <1>9, <5>2
      <4>2. QED
        BY <2>1, <4>1 DEF NothingLeft
    <3>3. passed = 1 .. size
      <4>1. Descends(size, parent)
        BY <1>1 DEF Descends
      <4>2. QED
        BY <1>2, <3>2, <4>1, PassingEnds
    <3>4. QED
      BY <3>1, <3>3 DEF new
  <2>5. QED
    BY <2>2, <2>3, <2>4
<1>13. QED
  BY <1>11, <1>12

(* The nodes the depth first iterator is on, from its start.               *)
IsWalk(at, tree) ==
  at = [n \in 1 .. Len(tree.ar) + 1 |-> IF n = 1 THEN Begin(tree) ELSE Skip(tree, at[n - 1])]

IsWalkTo(at, tree, k) == at[1] = Begin(tree) /\ \A n \in 2 .. k : at[n] = Skip(tree, at[n - 1])

LEMMA WalkExists ==
  ASSUME NEW tree, Size(tree) \in Nat
  PROVE  \E at : IsWalk(at, tree)
<1> DEFINE size == Size(tree)
           P == {k \in Nat : \E at : IsWalkTo(at, tree, k)}
<1>1. 0 \in P
  <2> DEFINE at == [n \in 1 .. 1 |-> Begin(tree)]
  <2>1. at[1] = Begin(tree)
    OBVIOUS
  <2> HIDE DEF at
  <2>2. IsWalkTo(at, tree, 0)
    BY <2>1 DEF IsWalkTo
  <2>3. QED
    BY <2>2
<1>2. ASSUME NEW k \in 0 .. size, k \in P
      PROVE  k + 1 \in P
  <2>1. PICK at : IsWalkTo(at, tree, k)
    BY <1>2
  <2> DEFINE more == [n \in 1 .. k + 1 |-> IF n = 1 THEN Begin(tree) ELSE Skip(tree, at[n - 1])]
  <2>2. k \in Nat /\ 1 \in 1 .. k + 1
    OBVIOUS
  <2>3. more[1] = Begin(tree)
    BY <2>2
  <2>4. ASSUME NEW n \in 2 .. k + 1 PROVE more[n] = Skip(tree, more[n - 1])
    <3>1. more[n] = Skip(tree, at[n - 1])
      BY <2>2
    <3>2. more[n - 1] = at[n - 1]
      <4>1. CASE n = 2
        BY <2>1, <2>2, <4>1 DEF IsWalkTo
      <4>2. CASE n # 2
        <5>1. n - 1 \in 2 .. k /\ n - 1 \in 1 .. k + 1 /\ n - 1 # 1
          BY <2>2, <4>2
        <5>2. more[n - 1] = Skip(tree, at[n - 1 - 1])
          BY <5>1
        <5>3. at[n - 1] = Skip(tree, at[n - 1 - 1])
          BY <2>1, <5>1 DEF IsWalkTo
        <5>4. QED
          BY <5>2, <5>3
      <4>3. QED
        BY <4>1, <4>2
    <3>3. QED
      BY <3>1, <3>2
  <2> HIDE DEF more
  <2>5. IsWalkTo(more, tree, k + 1)
    BY <2>3, <2>4 DEF IsWalkTo
  <2>6. QED
    BY <2>2, <2>5
<1>3. size + 1 \in P
  <2> DEFINE top == size + 1
  <2>1. top \in Nat /\ \A k \in 0 .. top - 1 : k \in 0 .. size
    OBVIOUS
  <2> HIDE DEF P, size, top
  <2>2. \A k \in 0 .. top - 1 : k \in P => k + 1 \in P
    BY <1>2, <2>1
  <2>3. 0 .. top \subseteq P
    BY <1>1, <2>1, <2>2, UpTo
  <2>4. QED
    BY <2>1, <2>3 DEF top
<1>4. PICK to : IsWalkTo(to, tree, size + 1)
  BY <1>3
<1> DEFINE at == [n \in 1 .. size + 1 |-> to[n]]
<1>5. ASSUME NEW n \in 1 .. size + 1
      PROVE  at[n] = IF n = 1 THEN Begin(tree) ELSE Skip(tree, at[n - 1])
  <2>1. CASE n = 1
    BY <1>4, <2>1 DEF IsWalkTo
  <2>2. CASE n # 1
    <3>1. n \in 2 .. size + 1 /\ n - 1 \in 1 .. size + 1
      BY <2>2
    <3>2. at[n - 1] = to[n - 1]
      BY <3>1
    <3>3. QED
      BY <1>4, <2>2, <3>1, <3>2 DEF IsWalkTo
  <2>3. QED
    BY <2>1, <2>2
<1>6. at = [n \in 1 .. size + 1 |-> IF n = 1 THEN Begin(tree) ELSE Skip(tree, at[n - 1])]
  <2> DEFINE f == [n \in 1 .. size + 1 |-> IF n = 1 THEN Begin(tree) ELSE Skip(tree, at[n - 1])]
  <2>1. \A n \in 1 .. size + 1 : at[n] = f[n]
    BY <1>5
  <2>2. DOMAIN at = 1 .. size + 1 /\ at = [n \in 1 .. size + 1 |-> at[n]]
    OBVIOUS
  <2> HIDE DEF at
  <2>3. QED
    BY <2>1, <2>2
<1>7. QED
  BY <1>6 DEF IsWalk, Size

LEMMA BeginOnPath ==
  ASSUME NEW tree, NEW parent, Shape(tree, parent)
  PROVE  OnPath(tree, parent, Begin(tree), {1}) /\ Begin(tree).pos = 1
<1> DEFINE it == Begin(tree)
           size == Size(tree)
<1>1. /\ size \in Nat /\ size >= 1 /\ parent \in [2 .. size -> 1 .. size]
      /\ \A i \in 2 .. size : parent[i] < i
  BY DEF Shape
<1>2. it.pos = 1 /\ it.stack = <<size + 1>>
  BY DEF Begin, Size
<1>3. /\ it.stack \in Seq(Nat) /\ Len(it.stack) = 1 /\ DOMAIN it.stack = 1 .. 1
      /\ it.stack[1] = size + 1
  BY <1>1, <1>2
<1>4. Path(it) = [k \in 2 .. 2 |-> 1]
  <2>1. Path(it) = [k \in 2 .. 2 |-> IF k <= 1 THEN it.stack[k] ELSE 1]
    BY <1>2, <1>3 DEF Path
  <2>2. \A k \in 2 .. 2 : ~(k <= 1)
    OBVIOUS
  <2>3. QED
    BY <2>1, <2>2
<1>5. Passing(size, parent, Path(it), 2, {1})
  <2> DEFINE path == Path(it)
  <2>1. \A k \in 2 .. 2 : path[k] = 1
    BY <1>4
  <2>2. 2 - 1 = 1 /\ \A k : k \notin 2 .. 1
    OBVIOUS
  <2>3. path[2] = 1
    BY <2>1
  <2> HIDE DEF path
  <2>4. \A j, k \in 2 .. 2 : ~(j < k)
    OBVIOUS
  <2>5. \A i \in 2 .. size : ~(i \in {1}) /\ (parent[i] \in {1} => parent[i] = path[2])
    BY <2>3
  <2>6. QED
    BY <1>1, <2>1, <2>2, <2>3, <2>4, <2>5 DEF Passing, path
<1> HIDE DEF it, size
<1>6. QED
  BY <1>2, <1>3, <1>5 DEF OnPath, it, size

(* The depth first iterator passes every node once.                        *)
LEMMA DepthFirstPasses ==
  ASSUME NEW S, NEW V, NEW tree \in NodeTrees(S, V), NEW parent, Shape(tree, parent)
  PROVE  /\ {DepthFirst(tree)[n] : n \in 1 .. Size(tree)} = 1 .. Size(tree)
         /\ DepthFirst(tree)[Size(tree) + 1] = Size(tree) + 1
<1> DEFINE size == Size(tree)
           at == CHOOSE f : IsWalk(f, tree)
<1>1. size \in Nat /\ size >= 1
  BY DEF Shape
<1>2. IsWalk(at, tree)
  BY <1>1, WalkExists
<1>3. DepthFirst(tree) = [n \in 1 .. size + 1 |-> at[n].pos]
  BY DEF DepthFirst, IsWalk, Size
<1>4. at[1] = Begin(tree) /\ \A n \in 2 .. size + 1 : at[n] = Skip(tree, at[n - 1])
  <2>1. at = [n \in 1 .. size + 1 |-> IF n = 1 THEN Begin(tree) ELSE Skip(tree, at[n - 1])]
    BY <1>2 DEF IsWalk, Size
  <2> HIDE DEF at, size
  <2>2. 1 \in 1 .. size + 1 /\ \A n \in 2 .. size + 1 : n \in 1 .. size + 1 /\ n # 1
    BY <1>1
  <2>3. QED
    BY <2>1, <2>2
<1> HIDE DEF at
<1> DEFINE passed(n) == {at[j].pos : j \in 1 .. n}
           P == {n \in Nat : /\ OnPath(tree, parent, at[n + 1], passed(n + 1))
                             /\ IsFiniteSet(passed(n + 1)) /\ Cardinality(passed(n + 1)) = n + 1}
<1>5. \A n \in Nat : passed(n + 1) = passed(n) \cup {at[n + 1].pos}
  <2>1. ASSUME NEW n \in Nat PROVE passed(n + 1) = passed(n) \cup {at[n + 1].pos}
    <3>1. 1 .. n + 1 = (1 .. n) \cup {n + 1}
      OBVIOUS
    <3>2. QED
      BY <3>1
  <2>2. QED
    BY <2>1
<1>6. 0 \in P
  <2>1. passed(0 + 1) = {1}
    <3>1. 1 .. 0 + 1 = {1}
      OBVIOUS
    <3>2. at[1].pos = 1
      BY <1>4, BeginOnPath
    <3>3. QED
      BY <3>1, <3>2
  <2> HIDE DEF passed
  <2>2. OnPath(tree, parent, at[0 + 1], passed(0 + 1))
    BY <1>4, <2>1, BeginOnPath
  <2>3. IsFiniteSet({1}) /\ Cardinality({1}) = 0 + 1
    BY FS_Singleton
  <2>4. QED
    BY <2>1, <2>2, <2>3
<1>7. IsFiniteSet(1 .. size) /\ Cardinality(1 .. size) = size
  BY <1>1, FS_Interval
<1>8. ASSUME NEW n \in 0 .. size - 1 - 1, n \in P
      PROVE  n + 1 \in P
  <2> DEFINE it == at[n + 1]
             new == at[n + 2]
             before == passed(n + 1)
  <2>1. n \in Nat /\ n + 2 \in 2 .. size + 1 /\ n + 2 - 1 = n + 1 /\ n + 1 < size /\ n + 1 + 1 = n + 2
    BY <1>1, <1>8
  <2>2. OnPath(tree, parent, it, before) /\ IsFiniteSet(before) /\ Cardinality(before) = n + 1
    BY <1>8
  <2>3. new = Skip(tree, it)
    BY <1>4, <2>1
  <2>4. passed(n + 1 + 1) = before \cup {new.pos}
    BY <1>5, <2>1
  <2> HIDE DEF passed, before, it, new, size
  <2>5. before # 1 .. size
    BY <1>7, <2>1, <2>2
  <2>6. new.pos \notin before /\ OnPath(tree, parent, new, before \cup {new.pos})
    BY <2>2, <2>3, <2>5, SkipStep DEF size
  <2>7. IsFiniteSet(before \cup {new.pos}) /\ Cardinality(before \cup {new.pos}) = n + 1 + 1
    BY <2>2, <2>6, FS_AddElement
  <2>8. at[n + 1 + 1] = new
    BY <2>1 DEF new
  <2>9. /\ OnPath(tree, parent, at[n + 1 + 1], passed(n + 1 + 1))
        /\ IsFiniteSet(passed(n + 1 + 1)) /\ Cardinality(passed(n + 1 + 1)) = n + 1 + 1
    BY <2>4, <2>6, <2>7, <2>8
  <2>10. n + 1 \in Nat
    BY <2>1
  <2>11. QED
    BY <2>9, <2>10
<1>9. size - 1 \in P
  <2>1. size - 1 \in Nat
    BY <1>1
  <2> HIDE DEF P, size
  <2>2. 0 .. size - 1 \subseteq P
    BY <1>6, <1>8, <2>1, UpTo
  <2>3. QED
    BY <2>1, <2>2
<1>10. /\ OnPath(tree, parent, at[size], passed(size))
       /\ IsFiniteSet(passed(size)) /\ Cardinality(passed(size)) = size
  <2>1. size - 1 + 1 = size
    BY <1>1
  <2> HIDE DEF size, passed
  <2>2. QED
    BY <1>9, <2>1
<1>11. passed(size) = 1 .. size
  <2>1. passed(size) \subseteq 1 .. size
    BY <1>10 DEF OnPath, Passing
  <2> HIDE DEF size, passed
  <2>2. QED
    BY <1>7, <1>10, <2>1, FS_Subset
<1>12. at[size + 1].pos = size + 1
  <2>1. size + 1 \in 2 .. size + 1 /\ size + 1 - 1 = size
    BY <1>1
  <2>2. at[size + 1] = Skip(tree, at[size])
    <3> HIDE DEF size
    <3> DEFINE m == size + 1
    <3>1. m \in 2 .. size + 1 /\ m - 1 = size
      BY <1>1, <2>1
    <3> HIDE DEF m
    <3>2. at[m] = Skip(tree, at[m - 1])
      BY <1>4, <3>1
    <3>3. QED
      BY <3>1, <3>2 DEF m
  <2> HIDE DEF size, passed
  <2>3. Skip(tree, at[size]).pos = size + 1
    BY <1>10, <1>11, SkipStep DEF size
  <2>4. QED
    BY <2>2, <2>3
<1>13. \A n \in 1 .. size + 1 : DepthFirst(tree)[n] = at[n].pos
  BY <1>3
<1>14. {DepthFirst(tree)[n] : n \in 1 .. size} = passed(size)
  <2>1. \A n \in 1 .. size : n \in 1 .. size + 1
    BY <1>1
  <2>2. QED
    BY <1>13, <2>1
<1>15. size + 1 \in 1 .. size + 1
  BY <1>1
<1>16. QED
  BY <1>11, <1>12, <1>13, <1>14, <1>15

-----------------------------------------------------------------------------
(* The list an iterator of the inverse tree passes follows the uplinks.    *)
Climbing(ar, V) ==
  /\ MaxStep \in Nat /\ ar \in Seq(Item(V)) /\ Len(ar) \in Nat /\ DOMAIN ar = 1 .. Len(ar)
  /\ \A i \in 1 .. Len(ar) :
       /\ ar[i].scope \in ProperScopes /\ ar[i].scope.end <= MaxStep
       /\ ar[i].value \in V /\ ar[i].prev \in Nat
       /\ ar[i].prev # NoLink => /\ ar[i].prev \in 1 .. Len(ar)
                                 /\ StrictlyInside(ar[i].scope, ar[ar[i].prev].scope)

Prev(ar) == [i \in 1 .. Len(ar) |-> ar[i].prev]

LEMMA PassedFollows ==
  ASSUME NEW ar, NEW V, Climbing(ar, V), NEW x \in 1 .. Len(ar)
  PROVE  Follows(Passed(ar, x), x, Len(ar), Prev(ar))
<1> DEFINE size == Len(ar)
           link == Prev(ar)
           measure == [j \in 1 .. size |-> MaxStep - (ar[j].scope.end - ar[j].scope.start)]
<1>1. /\ size \in Nat /\ MaxStep \in Nat
      /\ \A i \in 1 .. size :
           /\ ar[i].scope \in ProperScopes /\ ar[i].scope.end <= MaxStep /\ ar[i].prev \in Nat
           /\ ar[i].prev # NoLink => /\ ar[i].prev \in 1 .. size
                                     /\ StrictlyInside(ar[i].scope, ar[ar[i].prev].scope)
  BY DEF Climbing
<1>2. \A j \in 1 .. size : link[j] = ar[j].prev
  BY DEF Prev
<1>3. Descending(size, link, measure)
  <2>1. ASSUME NEW j \in 1 .. size
        PROVE  measure[j] = MaxStep - (ar[j].scope.end - ar[j].scope.start) /\ measure[j] \in Nat
    <3>1. /\ ar[j].scope.end \in Nat /\ ar[j].scope.start \in Nat /\ ar[j].scope.start < ar[j].scope.end
          /\ ar[j].scope.end <= MaxStep
      BY <1>1 DEF ProperScopes
    <3>2. QED
      BY <1>1, <3>1
  <2>2. ASSUME NEW j \in 1 .. size, link[j] # 0
        PROVE  measure[link[j]] < measure[j]
    <3> DEFINE s == ar[j].scope
               t == ar[link[j]].scope
    <3>1. link[j] \in 1 .. size /\ StrictlyInside(s, t) /\ s \in ProperScopes /\ t \in ProperScopes
      BY <1>1, <1>2, <2>2 DEF NoLink
    <3>2. measure[link[j]] = MaxStep - (t.end - t.start) /\ measure[j] = MaxStep - (s.end - s.start)
      BY <2>1, <3>1
    <3> HIDE DEF measure, s, t
    <3>3. /\ s.start \in Nat /\ s.end \in Nat /\ t.start \in Nat /\ t.end \in Nat
          /\ s = [start |-> s.start, end |-> s.end] /\ t = [start |-> t.start, end |-> t.end]
          /\ s.start >= t.start /\ s.end <= t.end /\ s # t
      BY <3>1 DEF StrictlyInside, Contains, ProperScopes
    <3>4. s.start # t.start \/ s.end # t.end
      BY <3>3
    <3>5. MaxStep - (t.end - t.start) < MaxStep - (s.end - s.start)
      BY <1>1, <3>3, <3>4
    <3>6. QED
      BY <3>2, <3>5
  <2>3. link \in [1 .. size -> 0 .. size]
    BY <1>1 DEF Prev, NoLink
  <2>4. measure \in [1 .. size -> Nat]
    BY <2>1
  <2> HIDE DEF measure
  <2>5. QED
    BY <1>1, <2>2, <2>3, <2>4 DEF Descending
<1> DEFINE IsList(lists) ==
             lists = [i \in 0 .. Len(ar) |-> IF i = NoLink THEN <<>> ELSE <<i>> \o lists[ar[i].prev]]
<1>4. ASSUME NEW lists
      PROVE  IsList(lists) <=> IsListing(lists, size, link)
  <2> DEFINE f == [i \in 0 .. Len(ar) |-> IF i = NoLink THEN <<>> ELSE <<i>> \o lists[ar[i].prev]]
             g == [i \in 0 .. size |-> IF i = 0 THEN <<>> ELSE <<i>> \o lists[link[i]]]
  <2>1. ASSUME NEW i \in 0 .. size
        PROVE  f[i] = g[i]
    <3>1. i # 0 => link[i] = ar[i].prev
      BY <1>1, <1>2
    <3>2. QED
      BY <3>1 DEF NoLink
  <2>2. f = g
    BY <2>1
  <2> HIDE DEF f, g
  <2>3. QED
    BY <2>2 DEF IsListing, f, g
<1>5. PICK lists : IsListing(lists, size, link)
  BY <1>3, ListingExists
<1> DEFINE chosen == CHOOSE l : IsList(l)
<1>6. IsListing(chosen, size, link)
  <2> HIDE DEF IsList, link
  <2>1. \E l : IsList(l)
    BY <1>4, <1>5
  <2>2. QED
    BY <1>4, <2>1
<1>7. Passed(ar, x) = chosen[x]
  BY DEF Passed
<1> HIDE DEF chosen, link, measure
<1>8. \A i \in 1 .. size : Follows(chosen[i], i, size, link)
  BY <1>3, <1>6, ListingFollows
<1>9. QED
  BY <1>7, <1>8 DEF link

-----------------------------------------------------------------------------
(* A node that gets another value.                                         *)
WithValue(tree, node, value) == [tree EXCEPT !.ar[node].value = value]

IsWithValue(more, tree, node, value) ==
  /\ Size(more) = Size(tree) /\ more.ar[node].value = value
  /\ \A i \in 1 .. Size(tree) : more.ar[i].scope = tree.ar[i].scope
  /\ \A i \in 1 .. Size(tree) : i # node => more.ar[i].value = tree.ar[i].value

LEMMA RecordValue ==
  ASSUME NEW S, NEW V, NEW record \in Records(S, V), NEW value \in V
  PROVE  /\ [record EXCEPT !.value = value] \in Records(S, V)
         /\ [record EXCEPT !.value = value].value = value
         /\ [record EXCEPT !.value = value].scope = record.scope
         /\ [record EXCEPT !.value = value].next = record.next
         /\ [record EXCEPT !.value = value].chld = record.chld
BY DEF Records

LEMMA WithValueShape ==
  ASSUME NEW S, NEW V, NEW tree \in NodeTrees(S, V), NEW parent, Shape(tree, parent),
         NEW node \in 1 .. Size(tree), NEW value \in V
  PROVE  /\ WithValue(tree, node, value) \in NodeTrees(S, V)
         /\ Shape(WithValue(tree, node, value), parent)
         /\ IsWithValue(WithValue(tree, node, value), tree, node, value)
<1> DEFINE more == WithValue(tree, node, value)
           item == [tree.ar[node] EXCEPT !.value = value]
           ar == [tree.ar EXCEPT ![node] = item]
           size == Size(tree)
<1>1. /\ tree = [ar |-> tree.ar, last |-> tree.last]
      /\ tree.ar \in Seq(Records(S, V)) /\ tree.last \in Seq(Nat) /\ size \in Nat
      /\ \A i \in 1 .. size : tree.ar[i] \in Records(S, V)
  BY ShapeItems
<1>2. /\ item \in Records(S, V) /\ item.value = value /\ item.scope = tree.ar[node].scope
      /\ item.next = tree.ar[node].next /\ item.chld = tree.ar[node].chld
  BY <1>1, RecordValue
<1> HIDE DEF item
<1>3. /\ ar \in Seq(Records(S, V)) /\ Len(ar) = size /\ ar[node] = item
      /\ \A j \in 1 .. size : j # node => ar[j] = tree.ar[j]
  <2>1. node \in 1 .. Len(tree.ar)
    BY DEF Size
  <2>2. QED
    BY <1>1, <1>2, <2>1, SeqUpdated DEF Size
<1>4. more = [ar |-> ar, last |-> tree.last]
  <2>1. more = [tree EXCEPT !.ar = ar]
    BY DEF WithValue, item
  <2> HIDE DEF more, ar
  <2>2. QED
    BY <1>1, <2>1
<1> HIDE DEF ar, more
<1>5. more.ar = ar /\ more.last = tree.last
  BY <1>4
<1>6. more \in NodeTrees(S, V)
  BY <1>1, <1>3, <1>4 DEF NodeTrees
<1>7. Size(more) = size
  BY <1>3, <1>5 DEF Size
<1>8. \A i \in 1 .. size :
        more.ar[i].scope = tree.ar[i].scope /\ more.ar[i].next = tree.ar[i].next /\ more.ar[i].chld = tree.ar[i].chld
  BY <1>2, <1>3, <1>5
<1>9. Shape(more, parent)
  <2>1. /\ size >= 1 /\ Len(tree.last) = size
        /\ parent \in [2 .. size -> 1 .. size]
        /\ \A i \in 2 .. size : parent[i] < i
        /\ tree.ar[1].next = NoNode
        /\ \A i \in 1 .. size : IsLeast(Kids(parent, i), tree.ar[i].chld)
        /\ \A i \in 2 .. size : IsLeast(Younger(parent, i), tree.ar[i].next)
        /\ \A i \in 1 .. size : Kids(parent, i) # {} => IsGreatest(Kids(parent, i), tree.last[tree.ar[i].chld])
    BY DEF Shape
  <2>2. \A i \in 2 .. size : i \in 1 .. size
    BY <1>1
  <2>3. 1 \in 1 .. size
    BY <1>1, <2>1
  <2> HIDE DEF size
  <2>4. \A i \in 1 .. size : IsLeast(Kids(parent, i), more.ar[i].chld)
    BY <1>8, <2>1
  <2>5. \A i \in 2 .. size : IsLeast(Younger(parent, i), more.ar[i].next)
    BY <1>8, <2>1, <2>2
  <2>6. \A i \in 1 .. size : Kids(parent, i) # {} => IsGreatest(Kids(parent, i), more.last[more.ar[i].chld])
    BY <1>5, <1>8, <2>1
  <2>7. QED
    BY <1>1, <1>5, <1>7, <1>8, <2>1, <2>3, <2>4, <2>5, <2>6 DEF Shape
<1>10. IsWithValue(more, tree, node, value)
  <2>1. more.ar[node].value = value
    BY <1>2, <1>3, <1>5
  <2>2. \A i \in 1 .. size : i # node => more.ar[i].value = tree.ar[i].value
    BY <1>3, <1>5
  <2>3. QED
    BY <1>7, <1>8, <2>1, <2>2 DEF IsWithValue
<1>11. QED
  BY <1>6, <1>9, <1>10 DEF more

-----------------------------------------------------------------------------
(* The builder of the tree: what it has built is a tree of nodes, and its  *)
(* search tree leads to them.  If the array has one element per scope the  *)
(* nodes match the elements: there is one node for a scope, with the value *)
(* of its element, below the node the uplink leads to.  The root has a     *)
(* node from the start and gets a value when its element is met.           *)
Formed(b, parent, S, V) ==
  /\ b = [tree |-> b.tree, nodeOf |-> b.nodeOf, failed |-> b.failed]
  /\ b.tree \in NodeTrees(S, V) /\ Shape(b.tree, parent)
  /\ DOMAIN b.nodeOf \subseteq S /\ Root \in DOMAIN b.nodeOf
  /\ \A s \in DOMAIN b.nodeOf : b.nodeOf[s] \in 1 .. Size(b.tree)

HasNode(b, element) ==
  element.scope \in DOMAIN b.nodeOf /\ b.tree.ar[b.nodeOf[element.scope]].value = element.value

Unique(ar) == \A i, j \in 1 .. Len(ar) : ar[i].scope = ar[j].scope => i = j

(* The node below which the one of an element belongs.                     *)
BelongsTo(b, ar, i, node) ==
  IF ar[i].prev = NoLink THEN node = 1
  ELSE HasNode(b, ar[ar[i].prev]) /\ node = b.nodeOf[ar[ar[i].prev].scope]

OneNode(b) ==
  /\ \A i \in 1 .. Size(b.tree) : /\ b.tree.ar[i].scope \in DOMAIN b.nodeOf
                                  /\ b.nodeOf[b.tree.ar[i].scope] = i
  /\ \A s \in DOMAIN b.nodeOf : b.tree.ar[b.nodeOf[s]].scope = s
  /\ b.nodeOf[Root] = 1

Matches(b, parent, ar) ==
  /\ ~b.failed /\ OneNode(b)
  /\ \A s \in DOMAIN b.nodeOf : s = Root \/ \E i \in 1 .. Len(ar) : ar[i].scope = s
  /\ b.tree.ar[1].value = NullVal \/ \E i \in 1 .. Len(ar) : ar[i].scope = Root /\ HasNode(b, ar[i])
  /\ \A i \in 1 .. Len(ar) :
       ar[i].scope \in DOMAIN b.nodeOf /\ ar[i].scope # Root =>
         HasNode(b, ar[i]) /\ BelongsTo(b, ar, i, parent[b.nodeOf[ar[i].scope]])

KeepsNodes(new, b, ar) == \A i \in 1 .. Len(ar) : HasNode(b, ar[i]) => HasNode(new, ar[i])

IsBelow(new, b, element) ==
  /\ Size(new.tree) = Size(b.tree) + 1 /\ ItemsKept(new.tree, b.tree)
  /\ new.tree.ar[Size(b.tree) + 1].scope = element.scope
  /\ new.tree.ar[Size(b.tree) + 1].value = element.value
  /\ DOMAIN new.nodeOf = DOMAIN b.nodeOf \cup {element.scope}
  /\ new.nodeOf[element.scope] = Size(b.tree) + 1
  /\ \A s \in DOMAIN b.nodeOf : s # element.scope => new.nodeOf[s] = b.nodeOf[s]
  /\ new.failed = b.failed

LEMMA AddBelowForms ==
  ASSUME NEW S, NEW V, NEW b, NEW parent, Formed(b, parent, S, V), NEW at \in 1 .. Size(b.tree),
         NEW element, element.scope \in S, element.value \in V
  PROVE  /\ Formed(AddBelow(b, at, element), WithChild(parent, Size(b.tree) + 1, at), S, V)
         /\ IsBelow(AddBelow(b, at, element), b, element)
<1> DEFINE new == AddBelow(b, at, element)
           tree == addChild(b.tree, at, Node(element.scope, element.value))
           size == Size(b.tree)
           nodeOf == [s \in DOMAIN b.nodeOf \cup {element.scope} |->
                        IF s = element.scope THEN size + 1 ELSE b.nodeOf[s]]
           more == WithChild(parent, size + 1, at)
<1>1. /\ b = [tree |-> b.tree, nodeOf |-> b.nodeOf, failed |-> b.failed]
      /\ b.tree \in NodeTrees(S, V) /\ Shape(b.tree, parent)
      /\ DOMAIN b.nodeOf \subseteq S /\ Root \in DOMAIN b.nodeOf
      /\ \A s \in DOMAIN b.nodeOf : b.nodeOf[s] \in 1 .. size
  BY DEF Formed
<1>2. size \in Nat /\ size >= 1
  BY <1>1 DEF Shape
<1>3. tree \in NodeTrees(S, V) /\ HasChildMore(tree, b.tree, parent, at, Node(element.scope, element.value))
  BY <1>1, AddChildShape
<1>4. new = [tree |-> tree, nodeOf |-> nodeOf, failed |-> b.failed]
  <2>1. new = [b EXCEPT !.tree = tree, !.nodeOf = nodeOf]
    BY DEF AddBelow, Size
  <2> HIDE DEF new, tree, nodeOf
  <2>2. QED
    BY <1>1, <2>1
<1> HIDE DEF new, tree
<1>5. new.tree = tree /\ new.nodeOf = nodeOf /\ new.failed = b.failed
  BY <1>4
<1>6. /\ Size(tree) = size + 1 /\ ItemsKept(tree, b.tree) /\ Shape(tree, more)
      /\ tree.ar[size + 1].scope = element.scope /\ tree.ar[size + 1].value = element.value
  BY <1>3 DEF HasChildMore, Node
<1>7. /\ DOMAIN nodeOf = DOMAIN b.nodeOf \cup {element.scope}
      /\ nodeOf[element.scope] = size + 1
      /\ \A s \in DOMAIN b.nodeOf : s # element.scope => nodeOf[s] = b.nodeOf[s]
  OBVIOUS
<1> HIDE DEF nodeOf, more, size
<1>8. \A s \in DOMAIN nodeOf : nodeOf[s] \in 1 .. size + 1
  <2>1. 1 .. size \subseteq 1 .. size + 1 /\ size + 1 \in 1 .. size + 1
    BY <1>2
  <2>2. QED
    BY <1>1, <1>7, <2>1
<1>9. Formed(new, more, S, V)
  <2>1. DOMAIN nodeOf \subseteq S /\ Root \in DOMAIN nodeOf
    BY <1>1, <1>7
  <2>2. QED
    BY <1>3, <1>4, <1>5, <1>6, <1>8, <2>1 DEF Formed
<1>10. IsBelow(new, b, element)
  BY <1>5, <1>6, <1>7 DEF IsBelow, size
<1>11. QED
  BY <1>9, <1>10 DEF new, more, size

(* A node for an element that has none yet.                                *)
LEMMA AddBelowMatches ==
  ASSUME NEW S, NEW V, NEW ar, Climbing(ar, V), Unique(ar),
         NEW b, NEW parent, Formed(b, parent, S, V), Matches(b, parent, ar),
         NEW x \in 1 .. Len(ar), ar[x].scope \notin DOMAIN b.nodeOf,
         NEW at \in 1 .. Size(b.tree), BelongsTo(b, ar, x, at),
         NEW new, IsBelow(new, b, ar[x])
  PROVE  /\ Matches(new, WithChild(parent, Size(b.tree) + 1, at), ar)
         /\ HasNode(new, ar[x]) /\ KeepsNodes(new, b, ar)
<1> DEFINE size == Size(b.tree)
           scope == ar[x].scope
           more == WithChild(parent, size + 1, at)
<1>1. /\ size \in Nat /\ size >= 1 /\ parent \in [2 .. size -> 1 .. size]
      /\ \A i \in 2 .. size : parent[i] < i
      /\ Root \in DOMAIN b.nodeOf /\ \A s \in DOMAIN b.nodeOf : b.nodeOf[s] \in 1 .. size
  BY DEF Formed, Shape
<1>2. /\ ~b.failed
      /\ \A i \in 1 .. size : b.tree.ar[i].scope \in DOMAIN b.nodeOf /\ b.nodeOf[b.tree.ar[i].scope] = i
      /\ \A s \in DOMAIN b.nodeOf : b.tree.ar[b.nodeOf[s]].scope = s
      /\ b.nodeOf[Root] = 1
      /\ \A s \in DOMAIN b.nodeOf : s = Root \/ \E i \in 1 .. Len(ar) : ar[i].scope = s
      /\ b.tree.ar[1].value = NullVal \/ \E i \in 1 .. Len(ar) : ar[i].scope = Root /\ HasNode(b, ar[i])
  BY DEF Matches, OneNode
<1>3. \A i \in 1 .. Len(ar) :
        ar[i].scope \in DOMAIN b.nodeOf /\ ar[i].scope # Root =>
          HasNode(b, ar[i]) /\ BelongsTo(b, ar, i, parent[b.nodeOf[ar[i].scope]])
  BY DEF Matches
<1>4. /\ Size(new.tree) = size + 1
      /\ \A i \in 1 .. size : /\ new.tree.ar[i].scope = b.tree.ar[i].scope
                              /\ new.tree.ar[i].value = b.tree.ar[i].value
      /\ new.tree.ar[size + 1].scope = scope /\ new.tree.ar[size + 1].value = ar[x].value
      /\ DOMAIN new.nodeOf = DOMAIN b.nodeOf \cup {scope}
      /\ new.nodeOf[scope] = size + 1
      /\ \A s \in DOMAIN b.nodeOf : new.nodeOf[s] = b.nodeOf[s]
      /\ new.failed = b.failed
  BY DEF IsBelow, ItemsKept
<1>5. more[size + 1] = at /\ \A i \in 2 .. size : more[i] = parent[i]
  <2>1. IsWithChild(more, parent, size, at)
    BY <1>1, WithChildKids
  <2>2. QED
    BY <2>1 DEF IsWithChild
<1> HIDE DEF size, scope, more
<1>6. HasNode(new, ar[x])
  BY <1>4 DEF HasNode, scope
<1>7. KeepsNodes(new, b, ar)
  BY <1>1, <1>4 DEF KeepsNodes, HasNode
<1>8. \A i \in 1 .. size + 1 : i \in 1 .. size \/ i = size + 1
  BY <1>1
<1>9. OneNode(new)
  <2>1. ASSUME NEW i \in 1 .. size + 1
        PROVE  new.tree.ar[i].scope \in DOMAIN new.nodeOf /\ new.nodeOf[new.tree.ar[i].scope] = i
    <3>1. CASE i \in 1 .. size
      BY <1>2, <1>4, <3>1
    <3>2. CASE i = size + 1
      BY <1>4, <3>2
    <3>3. QED
      BY <1>8, <3>1, <3>2
  <2>2. ASSUME NEW s \in DOMAIN new.nodeOf PROVE new.tree.ar[new.nodeOf[s]].scope = s
    <3>1. CASE s = scope
      BY <1>4, <3>1
    <3>2. CASE s # scope
      <4>1. s \in DOMAIN b.nodeOf
        BY <1>4, <3>2
      <4>2. b.nodeOf[s] \in 1 .. size /\ b.tree.ar[b.nodeOf[s]].scope = s /\ new.nodeOf[s] = b.nodeOf[s]
        BY <1>1, <1>2, <1>4, <4>1
      <4>3. QED
        BY <1>4, <4>2
    <3>3. QED
      BY <3>1, <3>2
  <2>3. QED
    BY <1>1, <1>2, <1>4, <2>1, <2>2 DEF OneNode
<1>10. \A s \in DOMAIN new.nodeOf : s = Root \/ \E i \in 1 .. Len(ar) : ar[i].scope = s
  BY <1>2, <1>4 DEF scope
<1>11. new.tree.ar[1].value = NullVal \/ \E i \in 1 .. Len(ar) : ar[i].scope = Root /\ HasNode(new, ar[i])
  <2>1. 1 \in 1 .. size
    BY <1>1
  <2>2. QED
    BY <1>2, <1>4, <1>7, <2>1 DEF KeepsNodes
<1>12. ASSUME NEW i \in 1 .. Len(ar), NEW node, BelongsTo(b, ar, i, node)
       PROVE  BelongsTo(new, ar, i, node)
  <2>1. CASE ar[i].prev = NoLink
    BY <1>12, <2>1 DEF BelongsTo
  <2>2. CASE ar[i].prev # NoLink
    <3>1. ar[i].prev \in 1 .. Len(ar)
      BY <2>2 DEF Climbing
    <3>2. HasNode(b, ar[ar[i].prev]) /\ node = b.nodeOf[ar[ar[i].prev].scope]
      BY <1>12, <2>2 DEF BelongsTo
    <3>3. HasNode(new, ar[ar[i].prev])
      BY <1>7, <3>1, <3>2 DEF KeepsNodes
    <3>4. node = new.nodeOf[ar[ar[i].prev].scope]
      BY <1>4, <3>2 DEF HasNode
    <3>5. QED
      BY <2>2, <3>3, <3>4 DEF BelongsTo
  <2>3. QED
    BY <2>1, <2>2
<1>13. ASSUME NEW i \in 1 .. Len(ar), ar[i].scope \in DOMAIN new.nodeOf, ar[i].scope # Root
       PROVE  HasNode(new, ar[i]) /\ BelongsTo(new, ar, i, more[new.nodeOf[ar[i].scope]])
  <2>1. CASE ar[i].scope = scope
    <3>1. i = x
      BY <2>1 DEF scope, Unique
    <3>2. more[new.nodeOf[ar[i].scope]] = at
      BY <1>4, <1>5, <2>1
    <3>3. QED
      BY <1>6, <1>12, <3>1, <3>2
  <2>2. CASE ar[i].scope # scope
    <3>1. ar[i].scope \in DOMAIN b.nodeOf
      BY <1>4, <1>13, <2>2
    <3>2. HasNode(b, ar[i]) /\ BelongsTo(b, ar, i, parent[b.nodeOf[ar[i].scope]])
      BY <1>3, <1>13, <3>1
    <3>3. b.nodeOf[ar[i].scope] # 1 /\ b.nodeOf[ar[i].scope] \in 1 .. size
      <4>1. b.tree.ar[b.nodeOf[ar[i].scope]].scope = ar[i].scope /\ b.nodeOf[ar[i].scope] \in 1 .. size
        BY <1>1, <1>2, <3>1
      <4>2. b.tree.ar[b.nodeOf[Root]].scope = Root /\ b.nodeOf[Root] = 1
        BY <1>1, <1>2
      <4>3. QED
        BY <1>13, <4>1, <4>2
    <3>4. b.nodeOf[ar[i].scope] \in 2 .. size
      BY <1>1, <3>3
    <3>5. more[new.nodeOf[ar[i].scope]] = parent[b.nodeOf[ar[i].scope]]
      BY <1>4, <1>5, <3>1, <3>4
    <3>6. QED
      BY <1>7, <1>12, <3>2, <3>5 DEF KeepsNodes
  <2>3. QED
    BY <2>1, <2>2
<1>14. Matches(new, more, ar)
  BY <1>2, <1>4, <1>9, <1>10, <1>11, <1>13 DEF Matches
<1>15. QED
  BY <1>6, <1>7, <1>14 DEF more, size

Built(b, parent, ar, S, V) ==
  Formed(b, parent, S, V) /\ (Unique(ar) => Matches(b, parent, ar))

(* The first step of an insertion gives the node met its value, which only *)
(* the root may not have yet.                                              *)
Start(b, top, value) == [builder |-> [b EXCEPT !.tree.ar[top].value = value], at |-> top]

IsStart(step, b, top, value) ==
  /\ step.at = top /\ IsWithValue(step.builder.tree, b.tree, top, value)
  /\ step.builder.nodeOf = b.nodeOf /\ step.builder.failed = b.failed

MayHaveValue(b, ar, top, value) ==
  \/ value = b.tree.ar[top].value
  \/ /\ top = 1 /\ b.tree.ar[top].value = NullVal
     /\ \E i \in 1 .. Len(ar) : ar[i].scope = Root /\ ar[i].value = value

LEMMA StartForms ==
  ASSUME NEW S, NEW V, NEW b, NEW parent, Formed(b, parent, S, V), NEW top \in 1 .. Size(b.tree), NEW value \in V
  PROVE  Formed(Start(b, top, value).builder, parent, S, V) /\ IsStart(Start(b, top, value), b, top, value)
<1> DEFINE new == Start(b, top, value).builder
           tree == WithValue(b.tree, top, value)
<1>1. /\ b = [tree |-> b.tree, nodeOf |-> b.nodeOf, failed |-> b.failed]
      /\ b.tree \in NodeTrees(S, V) /\ Shape(b.tree, parent)
      /\ DOMAIN b.nodeOf \subseteq S /\ Root \in DOMAIN b.nodeOf
      /\ \A s \in DOMAIN b.nodeOf : b.nodeOf[s] \in 1 .. Size(b.tree)
  BY DEF Formed
<1>2. tree \in NodeTrees(S, V) /\ Shape(tree, parent) /\ IsWithValue(tree, b.tree, top, value)
  BY <1>1, WithValueShape
<1>3. Start(b, top, value).at = top
  BY DEF Start
<1>4. new = [tree |-> tree, nodeOf |-> b.nodeOf, failed |-> b.failed]
  <2>1. new = [b EXCEPT !.tree = tree]
    BY DEF Start, WithValue
  <2> HIDE DEF new, tree
  <2>2. QED
    BY <1>1, <2>1
<1> HIDE DEF new, tree
<1>5. new.tree = tree /\ new.nodeOf = b.nodeOf /\ new.failed = b.failed
  BY <1>4
<1>6. Size(tree) = Size(b.tree)
  BY <1>2 DEF IsWithValue
<1>7. Formed(new, parent, S, V)
  BY <1>1, <1>2, <1>4, <1>5, <1>6 DEF Formed
<1>8. IsStart(Start(b, top, value), b, top, value)
  BY <1>2, <1>3, <1>5 DEF IsStart, new
<1>9. QED
  BY <1>7, <1>8 DEF new

LEMMA StartMatches ==
  ASSUME NEW S, NEW V, NEW ar, Unique(ar), NEW b, NEW parent, Formed(b, parent, S, V), Matches(b, parent, ar),
         NEW top \in 1 .. Size(b.tree), NEW value, MayHaveValue(b, ar, top, value),
         NEW step, IsStart(step, b, top, value), Climbing(ar, V)
  PROVE  Matches(step.builder, parent, ar) /\ KeepsNodes(step.builder, b, ar)
<1> DEFINE size == Size(b.tree)
           new == step.builder
<1>1. /\ size \in Nat /\ size >= 1
      /\ Root \in DOMAIN b.nodeOf /\ \A s \in DOMAIN b.nodeOf : b.nodeOf[s] \in 1 .. size
  BY DEF Formed, Shape
<1>2. /\ ~b.failed
      /\ \A i \in 1 .. size : b.tree.ar[i].scope \in DOMAIN b.nodeOf /\ b.nodeOf[b.tree.ar[i].scope] = i
      /\ \A s \in DOMAIN b.nodeOf : b.tree.ar[b.nodeOf[s]].scope = s
      /\ b.nodeOf[Root] = 1
      /\ \A s \in DOMAIN b.nodeOf : s = Root \/ \E i \in 1 .. Len(ar) : ar[i].scope = s
      /\ b.tree.ar[1].value = NullVal \/ \E i \in 1 .. Len(ar) : ar[i].scope = Root /\ HasNode(b, ar[i])
  BY DEF Matches, OneNode
<1>3. \A i \in 1 .. Len(ar) :
        ar[i].scope \in DOMAIN b.nodeOf /\ ar[i].scope # Root =>
          HasNode(b, ar[i]) /\ BelongsTo(b, ar, i, parent[b.nodeOf[ar[i].scope]])
  BY DEF Matches
<1>4. /\ Size(new.tree) = size /\ new.tree.ar[top].value = value
      /\ \A i \in 1 .. size : new.tree.ar[i].scope = b.tree.ar[i].scope
      /\ \A i \in 1 .. size : i # top => new.tree.ar[i].value = b.tree.ar[i].value
      /\ new.nodeOf = b.nodeOf /\ new.failed = b.failed
  BY DEF IsStart, IsWithValue
<1> HIDE DEF size, new
<1>5. KeepsNodes(new, b, ar)
  <2>1. ASSUME NEW j \in 1 .. Len(ar), HasNode(b, ar[j]) PROVE HasNode(new, ar[j])
    <3>1. /\ ar[j].scope \in DOMAIN b.nodeOf /\ b.tree.ar[b.nodeOf[ar[j].scope]].value = ar[j].value
          /\ b.nodeOf[ar[j].scope] \in 1 .. size
      BY <1>1, <2>1 DEF HasNode
    <3>2. CASE b.nodeOf[ar[j].scope] # top \/ value = b.tree.ar[top].value
      BY <1>4, <3>1, <3>2 DEF HasNode
    <3>3. CASE b.nodeOf[ar[j].scope] = top /\ value # b.tree.ar[top].value
      <4>1. PICK i \in 1 .. Len(ar) : top = 1 /\ ar[i].scope = Root /\ ar[i].value = value
        BY <3>3 DEF MayHaveValue
      <4>2. ar[j].scope = Root
        <5>1. b.tree.ar[b.nodeOf[ar[j].scope]].scope = ar[j].scope /\ b.tree.ar[b.nodeOf[Root]].scope = Root
          BY <1>1, <1>2, <3>1
        <5>2. b.nodeOf[ar[j].scope] = b.nodeOf[Root]
          BY <1>2, <3>3, <4>1
        <5>3. QED
          BY <5>1, <5>2
      <4>3. i = j
        BY <4>1, <4>2 DEF Unique
      <4>4. QED
        BY <1>4, <3>1, <3>3, <4>1, <4>3 DEF HasNode
    <3>4. QED
      BY <3>2, <3>3
  <2>2. QED
    BY <2>1 DEF KeepsNodes
<1>6. OneNode(new)
  <2>1. \A i \in 1 .. size : new.tree.ar[i].scope \in DOMAIN new.nodeOf /\ new.nodeOf[new.tree.ar[i].scope] = i
    BY <1>2, <1>4
  <2>2. ASSUME NEW s \in DOMAIN new.nodeOf PROVE new.tree.ar[new.nodeOf[s]].scope = s
    <3>1. s \in DOMAIN b.nodeOf /\ b.nodeOf[s] \in 1 .. size /\ b.tree.ar[b.nodeOf[s]].scope = s
      BY <1>1, <1>2, <1>4
    <3>2. QED
      BY <1>4, <3>1
  <2>3. QED
    BY <1>2, <1>4, <2>1, <2>2 DEF OneNode
<1>7. new.tree.ar[1].value = NullVal \/ \E i \in 1 .. Len(ar) : ar[i].scope = Root /\ HasNode(new, ar[i])
  <2>1. CASE value = b.tree.ar[top].value
    <3>1. 1 \in 1 .. size
      BY <1>1
    <3>2. new.tree.ar[1].value = b.tree.ar[1].value
      BY <1>4, <2>1, <3>1
    <3>3. QED
      BY <1>2, <1>5, <3>2 DEF KeepsNodes
  <2>2. CASE value # b.tree.ar[top].value
    <3>1. PICK i \in 1 .. Len(ar) : top = 1 /\ ar[i].scope = Root /\ ar[i].value = value
      BY <2>2 DEF MayHaveValue
    <3>2. HasNode(new, ar[i])
      BY <1>1, <1>2, <1>4, <3>1 DEF HasNode
    <3>3. QED
      BY <3>1, <3>2
  <2>3. QED
    BY <2>1, <2>2
<1>8. ASSUME NEW i \in 1 .. Len(ar), NEW node, BelongsTo(b, ar, i, node)
      PROVE  BelongsTo(new, ar, i, node)
  <2>1. ar[i].prev # NoLink => ar[i].prev \in 1 .. Len(ar)
    BY DEF Climbing
  <2>2. QED
    BY <1>4, <1>5, <1>8, <2>1 DEF BelongsTo, KeepsNodes
<1>9. \A i \in 1 .. Len(ar) :
        ar[i].scope \in DOMAIN new.nodeOf /\ ar[i].scope # Root =>
          HasNode(new, ar[i]) /\ BelongsTo(new, ar, i, parent[new.nodeOf[ar[i].scope]])
  BY <1>3, <1>4, <1>5, <1>8 DEF KeepsNodes
<1>10. QED
  BY <1>2, <1>4, <1>5, <1>6, <1>7, <1>9 DEF Matches, new

-----------------------------------------------------------------------------
(* The path that becomes of the elements before the first one with a node. *)
Below(step, element) ==
  [builder |-> AddBelow(step.builder, step.at, element), at |-> Len(step.builder.tree.ar) + 1]

Inserting(b, ar, list, new, x, S, V) ==
  /\ Climbing(ar, V) /\ \A i \in 1 .. Len(ar) : ar[i].scope \in S
  /\ Follows(list, x, Len(ar), Prev(ar)) /\ new \in 0 .. Len(list) /\ Root \in DOMAIN b.nodeOf
  /\ \A j \in 1 .. new : ar[list[j]].scope \notin DOMAIN b.nodeOf

ReachedNodes(step, n, b, ar, list, new) ==
  /\ KeepsNodes(step.builder, b, ar)
  /\ n < new => BelongsTo(step.builder, ar, list[new - n], step.at)
  /\ n >= 1 => HasNode(step.builder, ar[list[new + 1 - n]])
  /\ \A s \in DOMAIN step.builder.nodeOf :
       s \in DOMAIN b.nodeOf \/ (n >= 1 /\ Contains(s, ar[list[new + 1 - n]].scope))

IsBuilt(b, ar, S, V) == \E parent : Built(b, parent, ar, S, V)

Reached(step, n, b, ar, list, new, S, V) ==
  /\ step.at \in 1 .. Size(step.builder.tree)
  /\ IsBuilt(step.builder, ar, S, V)
  /\ Unique(ar) => ReachedNodes(step, n, b, ar, list, new)

LEMMA ReachedNext ==
  ASSUME NEW S, NEW V, NEW b, NEW ar, NEW list, NEW new, NEW x, Inserting(b, ar, list, new, x, S, V),
         NEW n \in 0 .. new - 1, NEW step, Reached(step, n, b, ar, list, new, S, V)
  PROVE  Reached(Below(step, ar[list[new - n]]), n + 1, b, ar, list, new, S, V)
<1> DEFINE y == list[new - n]
           next == Below(step, ar[y])
           size == Size(step.builder.tree)
<1>1. /\ new \in Nat /\ n \in Nat /\ n < new /\ new - n \in 1 .. new /\ new - n \in 1 .. Len(list)
      /\ Len(list) \in Nat /\ new <= Len(list)
  BY DEF Inserting, Follows
<1>2. /\ y \in 1 .. Len(ar) /\ ar[y].scope \in S /\ ar[y].value \in V /\ ar[y].scope \notin DOMAIN b.nodeOf
      /\ ar[y].scope \in ProperScopes
  BY <1>1 DEF Inserting, Follows, Climbing
<1>3. PICK parent : Built(step.builder, parent, ar, S, V)
  BY DEF Reached, IsBuilt
<1> DEFINE more == WithChild(parent, size + 1, step.at)
<1>4. step.at \in 1 .. size /\ Formed(step.builder, parent, S, V)
  BY <1>3 DEF Reached, Built
<1>5. /\ Formed(next.builder, more, S, V) /\ IsBelow(next.builder, step.builder, ar[y])
      /\ next.at = size + 1
  <2>1. next.builder = AddBelow(step.builder, step.at, ar[y]) /\ next.at = size + 1
    BY DEF Below, Size
  <2> HIDE DEF next, size, y
  <2>2. QED
    BY <1>2, <1>4, <2>1, AddBelowForms DEF size
<1> HIDE DEF next, y
<1>6. next.at \in 1 .. Size(next.builder.tree)
  <2>1. size \in Nat
    BY <1>4 DEF Formed, Shape
  <2>2. QED
    BY <1>5, <2>1 DEF IsBelow
(* What the uplink of the element leads to is the one before on the path.  *)
<1>7. ASSUME NEW j \in 1 .. Len(list) - 1
      PROVE  /\ list[j] \in 1 .. Len(ar) /\ list[j + 1] \in 1 .. Len(ar) /\ ar[list[j]].prev = list[j + 1]
             /\ list[j + 1] # NoLink /\ StrictlyInside(ar[list[j]].scope, ar[list[j + 1]].scope)
             /\ ar[list[j]].scope \in ProperScopes /\ ar[list[j + 1]].scope \in ProperScopes
  <2>1. j \in 1 .. Len(list) /\ j + 1 \in 1 .. Len(list)
    BY <1>1
  <2>2. list[j] \in 1 .. Len(ar) /\ list[j + 1] \in 1 .. Len(ar) /\ list[j + 1] = Prev(ar)[list[j]]
    BY <2>1 DEF Inserting, Follows
  <2>3. ar[list[j]].prev = list[j + 1] /\ list[j + 1] # NoLink
    BY <2>2 DEF Prev, NoLink
  <2>4. QED
    BY <2>2, <2>3 DEF Inserting, Climbing
<1>8. ASSUME Unique(ar)
      PROVE  Matches(next.builder, more, ar) /\ ReachedNodes(next, n + 1, b, ar, list, new)
  <2>1. Matches(step.builder, parent, ar) /\ ReachedNodes(step, n, b, ar, list, new)
    BY <1>3, <1>8 DEF Built, Reached
  <2>2. BelongsTo(step.builder, ar, y, step.at)
    BY <1>1, <2>1 DEF ReachedNodes, y
  <2>3. ar[y].scope \notin DOMAIN step.builder.nodeOf
    <3>1. SUFFICES ASSUME ar[y].scope \in DOMAIN step.builder.nodeOf PROVE FALSE
      OBVIOUS
    <3>2. n >= 1 /\ Contains(ar[y].scope, ar[list[new + 1 - n]].scope)
      BY <1>2, <2>1, <3>1 DEF ReachedNodes
    <3>3. new - n \in 1 .. Len(list) - 1 /\ new - n + 1 = new + 1 - n
      BY <1>1, <3>2
    <3>4. /\ StrictlyInside(ar[y].scope, ar[list[new - n + 1]].scope)
          /\ ar[list[new - n + 1]].scope \in ProperScopes
      BY <1>7, <3>3 DEF y
    <3>5. QED
      BY <1>2, <3>2, <3>3, <3>4, ContainsAntisymmetric DEF StrictlyInside
  <2>4. /\ Matches(next.builder, more, ar) /\ HasNode(next.builder, ar[y])
        /\ KeepsNodes(next.builder, step.builder, ar)
    <3>1. Climbing(ar, V)
      BY DEF Inserting
    <3> HIDE DEF more
    <3>2. QED
      BY <1>2, <1>4, <1>5, <1>8, <2>1, <2>2, <2>3, <3>1, AddBelowMatches DEF more
  <2>5. KeepsNodes(next.builder, b, ar)
    BY <2>1, <2>4 DEF KeepsNodes, ReachedNodes
  <2>6. new + 1 - (n + 1) = new - n
    BY <1>1
  <2>7. HasNode(next.builder, ar[list[new + 1 - (n + 1)]])
    BY <2>4, <2>6 DEF y
  <2>8. n + 1 < new => BelongsTo(next.builder, ar, list[new - (n + 1)], next.at)
    <3>1. SUFFICES ASSUME n + 1 < new PROVE BelongsTo(next.builder, ar, list[new - (n + 1)], next.at)
      OBVIOUS
    <3> DEFINE j == new - (n + 1)
    <3>2. j \in 1 .. Len(list) - 1 /\ j + 1 = new - n
      BY <1>1, <3>1
    <3> HIDE DEF j
    <3>3. ar[list[j]].prev = y /\ y # NoLink
      BY <1>7, <3>2 DEF y
    <3>4. next.at = next.builder.nodeOf[ar[y].scope]
      BY <1>5 DEF IsBelow
    <3>5. BelongsTo(next.builder, ar, list[j], next.at)
      BY <2>4, <3>3, <3>4 DEF BelongsTo
    <3>6. QED
      BY <3>5 DEF j
  <2>9. ASSUME NEW s \in DOMAIN next.builder.nodeOf
        PROVE  s \in DOMAIN b.nodeOf \/ Contains(s, ar[y].scope)
    <3>1. s \in DOMAIN step.builder.nodeOf \/ s = ar[y].scope
      BY <1>5 DEF IsBelow
    <3>2. CASE s = ar[y].scope
      BY <1>2, <3>2, ContainsReflexive
    <3>3. CASE s \in DOMAIN step.builder.nodeOf /\ s \notin DOMAIN b.nodeOf
      <4>1. n >= 1 /\ Contains(s, ar[list[new + 1 - n]].scope)
        BY <2>1, <3>3 DEF ReachedNodes
      <4>2. new - n \in 1 .. Len(list) - 1 /\ new - n + 1 = new + 1 - n
        BY <1>1, <4>1
      <4>3. /\ StrictlyInside(ar[y].scope, ar[list[new - n + 1]].scope)
            /\ ar[list[new - n + 1]].scope \in ProperScopes
        BY <1>7, <4>2 DEF y
      <4>4. s \in ProperScopes
        <5>1. s # Root
          BY <3>3 DEF Inserting
        <5>2. QED
          BY <2>1, <3>3, <5>1 DEF Matches, Inserting, Climbing
      <4>5. QED
        BY <1>2, <4>1, <4>2, <4>3, <4>4, ContainsTransitive DEF StrictlyInside
    <3>4. QED
      BY <3>1, <3>2, <3>3
  <2>10. n + 1 >= 1
    BY <1>1
  <2>11. QED
    BY <2>4, <2>5, <2>6, <2>7, <2>8, <2>9, <2>10 DEF ReachedNodes, y
<1>9. QED
  BY <1>5, <1>6, <1>8 DEF Reached, IsBuilt, Built, next, y

IsPath(path, new, start, ar, list) ==
  path = [n \in 0 .. new |-> IF n = 0 THEN start ELSE Below(path[n - 1], ar[list[new + 1 - n]])]

IsPathTo(path, k, new, start, ar, list) ==
  path[0] = start /\ \A n \in 1 .. k : path[n] = Below(path[n - 1], ar[list[new + 1 - n]])

LEMMA PathExists ==
  ASSUME NEW new \in Nat, NEW start, NEW ar, NEW list
  PROVE  \E path : IsPath(path, new, start, ar, list)
<1> DEFINE P == {k \in Nat : \E path : IsPathTo(path, k, new, start, ar, list)}
           El(n) == ar[list[new + 1 - n]]
<1>1. 0 \in P
  <2> DEFINE path == [n \in 0 .. 0 |-> start]
  <2>1. path[0] = start
    OBVIOUS
  <2> HIDE DEF path
  <2>2. IsPathTo(path, 0, new, start, ar, list)
    BY <2>1 DEF IsPathTo
  <2>3. QED
    BY <2>2
<1>2. ASSUME NEW k \in 0 .. new - 1, k \in P
      PROVE  k + 1 \in P
  <2>1. PICK path : IsPathTo(path, k, new, start, ar, list)
    BY <1>2
  <2> DEFINE more == [n \in 0 .. k + 1 |-> IF n = 0 THEN start ELSE Below(path[n - 1], El(n))]
  <2>2. k \in Nat /\ 0 \in 0 .. k + 1
    OBVIOUS
  <2>3. more[0] = start
    BY <2>2
  <2>4. ASSUME NEW n \in 1 .. k + 1 PROVE more[n] = Below(more[n - 1], El(n))
    <3> HIDE DEF El
    <3>1. more[n] = Below(path[n - 1], El(n))
      BY <2>2
    <3>2. more[n - 1] = path[n - 1]
      <4>1. CASE n = 1
        BY <2>1, <2>2, <4>1 DEF IsPathTo
      <4>2. CASE n # 1
        <5>1. n - 1 \in 1 .. k /\ n - 1 \in 0 .. k + 1 /\ n - 1 # 0
          BY <2>2, <4>2
        <5>2. more[n - 1] = Below(path[n - 1 - 1], El(n - 1))
          BY <5>1
        <5>3. path[n - 1] = Below(path[n - 1 - 1], El(n - 1))
          BY <2>1, <5>1 DEF IsPathTo, El
        <5>4. QED
          BY <5>2, <5>3
      <4>3. QED
        BY <4>1, <4>2
    <3>3. QED
      BY <3>1, <3>2
  <2> HIDE DEF more
  <2>5. IsPathTo(more, k + 1, new, start, ar, list)
    BY <2>3, <2>4 DEF IsPathTo
  <2>6. QED
    BY <2>2, <2>5
<1>3. new \in P
  <2> HIDE DEF P
  <2>1. 0 .. new \subseteq P
    BY <1>1, <1>2, UpTo
  <2>2. QED
    BY <2>1
<1>4. PICK to : IsPathTo(to, new, new, start, ar, list)
  BY <1>3
<1> DEFINE path == [n \in 0 .. new |-> to[n]]
           again == [n \in 0 .. new |-> IF n = 0 THEN start ELSE Below(path[n - 1], El(n))]
<1>5. ASSUME NEW n \in 0 .. new
      PROVE  path[n] = again[n]
  <2>1. CASE n = 0
    BY <1>4, <2>1 DEF IsPathTo
  <2>2. CASE n # 0
    <3>1. n \in 1 .. new /\ n - 1 \in 0 .. new
      BY <2>2
    <3>2. path[n - 1] = to[n - 1] /\ path[n] = to[n]
      BY <3>1
    <3>3. to[n] = Below(to[n - 1], El(n))
      BY <1>4, <3>1 DEF IsPathTo
    <3> HIDE DEF path, El
    <3>4. QED
      BY <2>2, <3>2, <3>3
  <2>3. QED
    BY <2>1, <2>2
<1>6. path = again
  <2>1. path = [n \in 0 .. new |-> path[n]] /\ again = [n \in 0 .. new |-> again[n]]
    OBVIOUS
  <2> HIDE DEF path, again
  <2>2. QED
    BY <1>5, <2>1
<1>7. QED
  BY <1>6 DEF IsPath

LEMMA PathReached ==
  ASSUME NEW S, NEW V, NEW b, NEW ar, NEW list, NEW new, NEW x, Inserting(b, ar, list, new, x, S, V),
         NEW start, Reached(start, 0, b, ar, list, new, S, V), NEW path, IsPath(path, new, start, ar, list)
  PROVE  Reached(path[new], new, b, ar, list, new, S, V)
<1> DEFINE P == {n \in 0 .. new : Reached(path[n], n, b, ar, list, new, S, V)}
<1>1. new \in Nat
  BY DEF Inserting, Follows
<1>2. path[0] = start /\ \A n \in 1 .. new : path[n] = Below(path[n - 1], ar[list[new + 1 - n]])
  <2>1. 0 \in 0 .. new /\ \A n \in 1 .. new : n \in 0 .. new /\ n # 0
    BY <1>1
  <2>2. QED
    BY <2>1 DEF IsPath
<1>3. 0 \in P
  BY <1>1, <1>2
<1>4. ASSUME NEW n \in 0 .. new - 1, n \in P
      PROVE  n + 1 \in P
  <2>1. n + 1 \in 1 .. new /\ n + 1 \in 0 .. new
    BY <1>1
  <2>2. path[n + 1] = Below(path[n], ar[list[new - n]])
    <3>1. path[n + 1] = Below(path[n + 1 - 1], ar[list[new + 1 - (n + 1)]])
      BY <1>2, <2>1
    <3>2. n + 1 - 1 = n /\ new + 1 - (n + 1) = new - n
      BY <1>1
    <3>3. QED
      BY <3>1, <3>2
  <2>3. Reached(path[n], n, b, ar, list, new, S, V)
    BY <1>4
  <2>4. Reached(Below(path[n], ar[list[new - n]]), n + 1, b, ar, list, new, S, V)
    BY <2>3, ReachedNext
  <2>5. QED
    BY <2>1, <2>2, <2>4
<1>5. 0 .. new \subseteq P
  <2> HIDE DEF P
  <2>1. QED
    BY <1>1, <1>3, <1>4, UpTo
<1>6. new \in 0 .. new
  BY <1>1
<1>7. QED
  BY <1>5, <1>6

-----------------------------------------------------------------------------
(* BuilderInsert: the list of an end becomes part of the tree.             *)
InTree(new, b, ar, x) == KeepsNodes(new, b, ar) /\ HasNode(new, ar[x])

LEMMA InsertBuilds ==
  ASSUME NEW S, NEW V, NEW ar, Climbing(ar, V), \A i \in 1 .. Len(ar) : ar[i].scope \in S,
         NEW b, IsBuilt(b, ar, S, V), NEW x \in 1 .. Len(ar)
  PROVE  /\ IsBuilt(BuilderInsert(b, ar, Passed(ar, x)), ar, S, V)
         /\ Unique(ar) => InTree(BuilderInsert(b, ar, Passed(ar, x)), b, ar, x)
<1> DEFINE list  == Passed(ar, x)
           met   == {n \in DOMAIN list : ar[list[n]].scope \in DOMAIN b.nodeOf}
           k     == CHOOSE n \in met : \A m \in met : n <= m
           new   == IF met = {} THEN Len(list) ELSE k - 1
           top   == IF met = {} THEN 1 ELSE b.nodeOf[ar[list[k]].scope]
           old   == b.tree.ar[top].value
           value == IF met = {} THEN old ELSE ar[list[k]].value
           start == Start(b, top, value)
           path  == CHOOSE p : IsPath(p, new, start, ar, list)
           refused == b.failed \/ (old # value /\ ~(top = 1 /\ old = NullVal))
           result == BuilderInsert(b, ar, list)
<1>1. result = IF refused THEN [b EXCEPT !.failed = TRUE] ELSE path[new].builder
  BY DEF BuilderInsert, IsPath, Below, Start
<1>2. PICK parent : Built(b, parent, ar, S, V)
  BY DEF IsBuilt
<1>3. /\ b = [tree |-> b.tree, nodeOf |-> b.nodeOf, failed |-> b.failed]
      /\ b.tree \in NodeTrees(S, V) /\ Shape(b.tree, parent)
      /\ DOMAIN b.nodeOf \subseteq S /\ Root \in DOMAIN b.nodeOf
      /\ \A s \in DOMAIN b.nodeOf : b.nodeOf[s] \in 1 .. Size(b.tree)
      /\ Formed(b, parent, S, V)
  BY <1>2 DEF Built, Formed
<1>4. Size(b.tree) \in Nat /\ Size(b.tree) >= 1
  BY <1>3 DEF Shape
<1>5. Follows(list, x, Len(ar), Prev(ar))
  BY PassedFollows
<1>6. /\ Len(list) \in Nat /\ Len(list) >= 1 /\ DOMAIN list = 1 .. Len(list) /\ list[1] = x
      /\ \A n \in 1 .. Len(list) : list[n] \in 1 .. Len(ar)
      /\ \A n \in 1 .. Len(list) - 1 : ar[list[n]].prev = list[n + 1] /\ list[n + 1] # NoLink
      /\ ar[list[Len(list)]].prev = NoLink
  <2>1. /\ Len(list) \in Nat /\ Len(list) >= 1 /\ DOMAIN list = 1 .. Len(list) /\ list[1] = x
        /\ \A n \in 1 .. Len(list) : list[n] \in 1 .. Len(ar)
        /\ \A n \in 1 .. Len(list) - 1 : list[n + 1] = Prev(ar)[list[n]]
        /\ Prev(ar)[list[Len(list)]] = 0
    BY <1>5 DEF Follows
  <2> HIDE DEF list
  <2>2. Len(list) \in 1 .. Len(list) /\ \A n \in 1 .. Len(list) - 1 : n \in 1 .. Len(list) /\ n + 1 \in 1 .. Len(list)
    BY <2>1
  <2>3. \A n \in 1 .. Len(list) : Prev(ar)[list[n]] = ar[list[n]].prev
    BY <2>1 DEF Prev
  <2>4. \A n \in 1 .. Len(list) - 1 : ar[list[n]].prev = list[n + 1] /\ list[n + 1] # NoLink
    <3>1. ASSUME NEW n \in 1 .. Len(list) - 1 PROVE ar[list[n]].prev = list[n + 1] /\ list[n + 1] # NoLink
      <4>1. n \in 1 .. Len(list) /\ n + 1 \in 1 .. Len(list)
        BY <2>2
      <4>2. list[n + 1] \in 1 .. Len(ar)
        BY <2>1, <4>1
      <4>3. QED
        BY <2>1, <2>3, <4>1, <4>2 DEF NoLink
    <3>2. QED
      BY <3>1
  <2>5. QED
    BY <2>1, <2>2, <2>3, <2>4 DEF NoLink
<1> HIDE DEF list, path
(* The first element that has a node.                                      *)
<1>7. met # {} => /\ k \in 1 .. Len(list) /\ ar[list[k]].scope \in DOMAIN b.nodeOf
                  /\ \A n \in 1 .. Len(list) : ar[list[n]].scope \in DOMAIN b.nodeOf => k <= n
  <2>1. SUFFICES ASSUME met # {}
                 PROVE  /\ k \in 1 .. Len(list) /\ ar[list[k]].scope \in DOMAIN b.nodeOf
                        /\ \A n \in 1 .. Len(list) : ar[list[n]].scope \in DOMAIN b.nodeOf => k <= n
    OBVIOUS
  <2>2. met \in SUBSET Nat
    BY <1>6
  <2>3. \E n \in met : \A m \in met : n <= m
    <3> HIDE DEF met
    <3>1. QED
      BY <2>1, <2>2, NatMin
  <2>4. k \in met /\ \A m \in met : k <= m
    BY <2>3
  <2> HIDE DEF k
  <2>5. QED
    BY <1>6, <2>4
<1>8. met = {} => \A n \in 1 .. Len(list) : ar[list[n]].scope \notin DOMAIN b.nodeOf
  BY <1>6
<1> HIDE DEF met, k
<1>9. /\ new \in 0 .. Len(list) /\ top \in 1 .. Size(b.tree) /\ new \in Nat
      /\ \A j \in 1 .. new : j \in 1 .. Len(list) /\ ar[list[j]].scope \notin DOMAIN b.nodeOf
  <2>1. CASE met = {}
    BY <1>4, <1>6, <1>8, <2>1
  <2>2. CASE met # {}
    <3>1. k \in 1 .. Len(list) /\ new = k - 1 /\ top = b.nodeOf[ar[list[k]].scope] /\ ar[list[k]].scope \in DOMAIN b.nodeOf
      BY <1>7, <2>2
    <3>2. \A j \in 1 .. new : j \in 1 .. Len(list) /\ ~(k <= j)
      BY <1>6, <3>1
    <3>3. QED
      BY <1>3, <1>6, <1>7, <2>2, <3>1, <3>2
  <2>3. QED
    BY <2>1, <2>2
<1>10. value \in V
  <2>1. \A i \in 1 .. Size(b.tree) : b.tree.ar[i] \in Records(S, V)
    BY <1>3, TreeItems
  <2>2. old \in V
    BY <1>9, <2>1 DEF Records
  <2>3. met # {} => ar[list[k]].value \in V
    BY <1>6, <1>7 DEF Climbing
  <2>4. QED
    BY <2>2, <2>3
<1>11. Inserting(b, ar, list, new, x, S, V)
  BY <1>3, <1>5, <1>9 DEF Inserting, list
<1> DEFINE Fitting == Unique(ar) => MayHaveValue(b, ar, top, value) /\ ~refused
<1>12. Fitting
  <2>1. SUFFICES ASSUME Unique(ar) PROVE MayHaveValue(b, ar, top, value) /\ ~refused
    OBVIOUS
  <2>2. Matches(b, parent, ar)
    BY <1>2, <2>1 DEF Built
  <2>3. MayHaveValue(b, ar, top, value)
    <3>1. CASE met = {}
      BY <3>1 DEF MayHaveValue
    <3>2. CASE met # {}
      <4>1. /\ list[k] \in 1 .. Len(ar) /\ ar[list[k]].scope \in DOMAIN b.nodeOf
            /\ top = b.nodeOf[ar[list[k]].scope] /\ value = ar[list[k]].value
        BY <1>6, <1>7, <3>2
      <4>2. CASE ar[list[k]].scope # Root
        <5>1. HasNode(b, ar[list[k]])
          BY <2>2, <4>1, <4>2 DEF Matches
        <5>2. QED
          BY <4>1, <5>1 DEF HasNode, MayHaveValue
      <4>3. CASE ar[list[k]].scope = Root
        <5>1. top = 1
          BY <2>2, <4>1, <4>3 DEF Matches, OneNode
        <5>2. CASE b.tree.ar[1].value = NullVal
          BY <4>1, <4>3, <5>1, <5>2 DEF MayHaveValue
        <5>3. CASE b.tree.ar[1].value # NullVal
          <6>1. PICK i \in 1 .. Len(ar) : ar[i].scope = Root /\ HasNode(b, ar[i])
            BY <2>2, <5>3 DEF Matches
          <6>2. i = list[k]
            BY <2>1, <4>1, <4>3, <6>1 DEF Unique
          <6>3. QED
            BY <4>1, <6>1, <6>2 DEF HasNode, MayHaveValue
        <5>4. QED
          BY <5>2, <5>3
      <4>4. QED
        BY <4>2, <4>3
    <3>3. QED
      BY <3>1, <3>2
  <2>4. ~b.failed
    BY <2>2 DEF Matches
  <2>5. old # value => top = 1 /\ old = NullVal
    BY <2>3 DEF MayHaveValue
  <2>6. QED
    BY <2>3, <2>4, <2>5
<1>13. CASE refused
  <2>1. result = [b EXCEPT !.failed = TRUE]
    BY <1>1, <1>13
  <2>2. result = [tree |-> b.tree, nodeOf |-> b.nodeOf, failed |-> TRUE]
    BY <1>3, <2>1
  <2>3. Formed(result, parent, S, V)
    BY <1>3, <2>2 DEF Formed
  <2>4. ~Unique(ar)
    BY <1>12, <1>13
  <2>5. QED
    BY <2>3, <2>4 DEF IsBuilt, Built, list
<1>14. CASE ~refused
  <2>1. result = path[new].builder
    BY <1>1, <1>14
  <2> HIDE DEF refused, old, new, top, value, start, result
  <2>2. IsPath(path, new, start, ar, list)
    <3>1. \E p : IsPath(p, new, start, ar, list)
      BY <1>9, PathExists
    <3>2. QED
      BY <3>1 DEF path
  <2>3. Formed(start.builder, parent, S, V) /\ IsStart(start, b, top, value)
    BY <1>3, <1>9, <1>10, StartForms DEF start
  <2>4. ASSUME Unique(ar)
        PROVE  /\ Matches(start.builder, parent, ar) /\ KeepsNodes(start.builder, b, ar)
               /\ met # {} => HasNode(start.builder, ar[list[k]])
               /\ ReachedNodes(start, 0, b, ar, list, new)
    <3>1. Matches(start.builder, parent, ar) /\ KeepsNodes(start.builder, b, ar)
      <4>1. Matches(b, parent, ar) /\ MayHaveValue(b, ar, top, value)
        BY <1>2, <1>12, <2>4 DEF Built
      <4>2. QED
        BY <1>3, <1>9, <2>3, <2>4, <4>1, StartMatches
    <3>2. /\ start.at = top /\ start.builder.nodeOf = b.nodeOf
          /\ start.builder.tree.ar[top].value = value
      BY <2>3 DEF IsStart, IsWithValue
    <3>3. met # {} => HasNode(start.builder, ar[list[k]]) /\ start.at = start.builder.nodeOf[ar[list[k]].scope]
      BY <1>7, <3>2 DEF HasNode, top, value
    <3>4. 0 < new => BelongsTo(start.builder, ar, list[new - 0], start.at)
      <4>1. SUFFICES ASSUME 0 < new PROVE BelongsTo(start.builder, ar, list[new], start.at)
        BY <1>9
      <4>2. CASE met = {}
        <5>1. new = Len(list) /\ top = 1
          BY <4>2 DEF new, top
        <5>2. QED
          BY <1>6, <3>2, <5>1 DEF BelongsTo
      <4>3. CASE met # {}
        <5>1. new = k - 1
          BY <4>3 DEF new
        <5>2. new \in 1 .. Len(list) - 1 /\ new + 1 = k
          BY <1>6, <1>7, <1>9, <4>1, <4>3, <5>1
        <5>3. ar[list[new]].prev = list[k] /\ list[k] # NoLink
          BY <1>6, <5>2
        <5>4. QED
          BY <3>3, <4>3, <5>3 DEF BelongsTo
      <4>4. QED
        BY <4>2, <4>3
    <3>5. QED
      BY <3>1, <3>2, <3>3, <3>4 DEF ReachedNodes
  <2>5. Reached(start, 0, b, ar, list, new, S, V)
    <3>1. start.at \in 1 .. Size(start.builder.tree)
      BY <1>9, <2>3 DEF IsStart, IsWithValue
    <3>2. IsBuilt(start.builder, ar, S, V)
      BY <2>3, <2>4 DEF IsBuilt, Built
    <3>3. QED
      BY <2>4, <3>1, <3>2 DEF Reached
  <2>6. Reached(path[new], new, b, ar, list, new, S, V)
    BY <1>11, <2>2, <2>5, PathReached
  <2>7. IsBuilt(result, ar, S, V)
    BY <2>1, <2>6 DEF Reached
  <2>8. ASSUME Unique(ar) PROVE InTree(result, b, ar, x)
    <3>1. ReachedNodes(path[new], new, b, ar, list, new)
      BY <2>6, <2>8 DEF Reached
    <3>2. CASE new = 0
      <4>1. met # {} /\ k = 1
        <5>1. met # {}
          BY <1>6, <3>2 DEF new
        <5>2. QED
          BY <1>6, <1>7, <3>2, <5>1 DEF new
      <4>2. HasNode(start.builder, ar[x]) /\ KeepsNodes(start.builder, b, ar)
        BY <1>6, <2>4, <2>8, <4>1
      <4>3. path[0] = start
        BY <1>9, <2>2 DEF IsPath
      <4>4. QED
        BY <2>1, <3>2, <4>2, <4>3 DEF InTree
    <3>3. CASE new # 0
      <4>1. new >= 1 /\ new + 1 - new = 1
        BY <1>9, <3>3
      <4>2. HasNode(path[new].builder, ar[list[new + 1 - new]])
        BY <3>1, <4>1 DEF ReachedNodes
      <4>3. QED
        BY <1>6, <2>1, <3>1, <4>1, <4>2 DEF ReachedNodes, InTree
    <3>4. QED
      BY <3>2, <3>3
  <2>9. QED
    BY <2>7, <2>8 DEF result, list
<1>15. QED
  BY <1>13, <1>14

(* getTree: list by list.                                                  *)
NextBuilder(b, e, ar, ends) ==
  IF e \in DOMAIN ends THEN BuilderInsert(b, ar, Passed(ar, ends[e])) ELSE b

IsBuilding(built, ar, ends) ==
  built = [e \in 0 .. MaxStep |-> IF e = 0 THEN NewBuilder ELSE NextBuilder(built[e - 1], e, ar, ends)]

IsBuildingTo(built, k, ar, ends) ==
  built[0] = NewBuilder /\ \A e \in 1 .. k : built[e] = NextBuilder(built[e - 1], e, ar, ends)

LEMMA BuildingExists ==
  ASSUME MaxStep \in Nat, NEW ar, NEW ends
  PROVE  \E built : IsBuilding(built, ar, ends)
<1> DEFINE P == {k \in Nat : \E built : IsBuildingTo(built, k, ar, ends)}
<1>1. 0 \in P
  <2> DEFINE built == [n \in 0 .. 0 |-> NewBuilder]
  <2>1. built[0] = NewBuilder
    OBVIOUS
  <2> HIDE DEF built
  <2>2. IsBuildingTo(built, 0, ar, ends)
    BY <2>1 DEF IsBuildingTo
  <2>3. QED
    BY <2>2
<1>2. ASSUME NEW k \in 0 .. MaxStep - 1, k \in P
      PROVE  k + 1 \in P
  <2>1. PICK built : IsBuildingTo(built, k, ar, ends)
    BY <1>2
  <2> DEFINE more == [n \in 0 .. k + 1 |-> IF n = 0 THEN NewBuilder ELSE NextBuilder(built[n - 1], n, ar, ends)]
  <2>2. k \in Nat /\ 0 \in 0 .. k + 1
    OBVIOUS
  <2>3. more[0] = NewBuilder
    BY <2>2
  <2>4. ASSUME NEW n \in 1 .. k + 1 PROVE more[n] = NextBuilder(more[n - 1], n, ar, ends)
    <3>1. more[n] = NextBuilder(built[n - 1], n, ar, ends)
      BY <2>2
    <3>2. more[n - 1] = built[n - 1]
      <4>1. CASE n = 1
        BY <2>1, <2>2, <4>1 DEF IsBuildingTo
      <4>2. CASE n # 1
        <5>1. n - 1 \in 1 .. k /\ n - 1 \in 0 .. k + 1 /\ n - 1 # 0
          BY <2>2, <4>2
        <5>2. more[n - 1] = NextBuilder(built[n - 1 - 1], n - 1, ar, ends)
          BY <5>1
        <5>3. built[n - 1] = NextBuilder(built[n - 1 - 1], n - 1, ar, ends)
          BY <2>1, <5>1 DEF IsBuildingTo
        <5>4. QED
          BY <5>2, <5>3
      <4>3. QED
        BY <4>1, <4>2
    <3>3. QED
      BY <3>1, <3>2
  <2> HIDE DEF more
  <2>5. IsBuildingTo(more, k + 1, ar, ends)
    BY <2>3, <2>4 DEF IsBuildingTo
  <2>6. QED
    BY <2>2, <2>5
<1>3. MaxStep \in P
  <2> HIDE DEF P
  <2>1. 0 .. MaxStep \subseteq P
    BY <1>1, <1>2, UpTo
  <2>2. QED
    BY <2>1
<1>4. PICK to : IsBuildingTo(to, MaxStep, ar, ends)
  BY <1>3
<1> DEFINE built == [n \in 0 .. MaxStep |-> to[n]]
           again == [n \in 0 .. MaxStep |-> IF n = 0 THEN NewBuilder ELSE NextBuilder(built[n - 1], n, ar, ends)]
<1>5. ASSUME NEW n \in 0 .. MaxStep
      PROVE  built[n] = again[n]
  <2>1. CASE n = 0
    BY <1>4, <2>1 DEF IsBuildingTo
  <2>2. CASE n # 0
    <3>1. n \in 1 .. MaxStep /\ n - 1 \in 0 .. MaxStep
      BY <2>2
    <3>2. built[n - 1] = to[n - 1] /\ built[n] = to[n]
      BY <3>1
    <3>3. to[n] = NextBuilder(to[n - 1], n, ar, ends)
      BY <1>4, <3>1 DEF IsBuildingTo
    <3> HIDE DEF built
    <3>4. QED
      BY <2>2, <3>2, <3>3
  <2>3. QED
    BY <2>1, <2>2
<1>6. built = again
  <2>1. built = [n \in 0 .. MaxStep |-> built[n]] /\ again = [n \in 0 .. MaxStep |-> again[n]]
    OBVIOUS
  <2> HIDE DEF built, again
  <2>2. QED
    BY <1>5, <2>1
<1>7. QED
  BY <1>6 DEF IsBuilding

LEMMA NewBuilderBuilt ==
  ASSUME NEW S, NEW V, Root \in S, NullVal \in V, NEW ar
  PROVE  IsBuilt(NewBuilder, ar, S, V)
<1> DEFINE b == NewBuilder
           parent == [i \in 2 .. 1 |-> 1]
<1>1. /\ b.tree = NewTree(NullVal) /\ b.nodeOf = [s \in {Root} |-> 1] /\ b.failed = FALSE
      /\ b = [tree |-> b.tree, nodeOf |-> b.nodeOf, failed |-> b.failed]
  BY DEF NewBuilder
<1>2. /\ b.tree \in NodeTrees(S, V) /\ Size(b.tree) = 1 /\ Shape(b.tree, parent)
      /\ b.tree.ar[1].scope = Root /\ b.tree.ar[1].value = NullVal
  BY <1>1, NewTreeShape
<1>3. DOMAIN b.nodeOf = {Root} /\ b.nodeOf[Root] = 1
  BY <1>1
<1> HIDE DEF b, parent
<1>4. \A i \in 1 .. 1 : i = 1
  OBVIOUS
<1>5. Formed(b, parent, S, V)
  BY <1>1, <1>2, <1>3 DEF Formed
<1>6. Matches(b, parent, ar)
  BY <1>1, <1>2, <1>3, <1>4 DEF Matches, OneNode
<1>7. QED
  BY <1>5, <1>6 DEF IsBuilt, Built, b

(* What getTree has to start from: lists of an array.                      *)
ListsEnd(ends, ar) ==
  DOMAIN ends \subseteq 1 .. MaxStep /\ \A e \in DOMAIN ends : ends[e] \in 1 .. Len(ar)

LEMMA GetTreeBuilds ==
  ASSUME NEW S, NEW V, Root \in S, NullVal \in V,
         NEW table, Climbing(table.m_invtree, V), ListsEnd(table.m_map, table.m_invtree),
         \A i \in 1 .. Len(table.m_invtree) : table.m_invtree[i].scope \in S
  PROVE  /\ IsBuilt(getTree(table), table.m_invtree, S, V)
         /\ Unique(table.m_invtree) =>
              \A e \in DOMAIN table.m_map : HasNode(getTree(table), table.m_invtree[table.m_map[e]])
<1> DEFINE ar == table.m_invtree
           ends == table.m_map
           built == CHOOSE f : IsBuilding(f, ar, ends)
<1>1. MaxStep \in Nat
  BY DEF Climbing
<1>2. getTree(table) = built[MaxStep]
  BY DEF getTree, IsBuilding, NextBuilder
<1>3. IsBuilding(built, ar, ends)
  BY <1>1, BuildingExists
<1> HIDE DEF built, ar, ends
<1>4. built[0] = NewBuilder /\ \A e \in 1 .. MaxStep : built[e] = NextBuilder(built[e - 1], e, ar, ends)
  <2>1. 0 \in 0 .. MaxStep /\ \A e \in 1 .. MaxStep : e \in 0 .. MaxStep /\ e # 0
    BY <1>1
  <2>2. QED
    BY <1>3, <2>1 DEF IsBuilding
<1> DEFINE Done(b, k) == Unique(ar) => \A e \in DOMAIN ends : e <= k => HasNode(b, ar[ends[e]])
           P == {k \in Nat : IsBuilt(built[k], ar, S, V) /\ Done(built[k], k)}
<1>5. 0 \in P
  <2>1. Done(built[0], 0)
    BY <1>1 DEF ListsEnd, ends
  <2>2. IsBuilt(built[0], ar, S, V)
    BY <1>4, NewBuilderBuilt
  <2>3. QED
    BY <2>1, <2>2
<1>6. ASSUME NEW k \in 0 .. MaxStep - 1, k \in P
      PROVE  k + 1 \in P
  <2> DEFINE e == k + 1
             b == built[k]
             new == built[e]
  <2>1. e \in 1 .. MaxStep /\ e - 1 = k /\ k \in Nat /\ e \in Nat
    BY <1>1
  <2>2. new = NextBuilder(b, e, ar, ends)
    <3> HIDE DEF e
    <3>1. built[e] = NextBuilder(built[e - 1], e, ar, ends)
      BY <1>4, <2>1
    <3>2. QED
      BY <2>1, <3>1
  <2>3. IsBuilt(b, ar, S, V) /\ Done(b, k)
    BY <1>6
  <2>4. \A f \in DOMAIN ends : f <= e => f <= k \/ f = e
    <3>1. DOMAIN ends \subseteq Nat
      BY <1>1 DEF ListsEnd, ends
    <3>2. QED
      BY <2>1, <3>1
  <2> HIDE DEF e, b, new
  <2>5. CASE e \notin DOMAIN ends
    <3>1. new = b
      BY <2>2, <2>5 DEF NextBuilder
    <3>2. IsBuilt(new, ar, S, V) /\ Done(new, e)
      BY <2>3, <2>4, <2>5, <3>1
    <3>3. QED
      BY <2>1, <3>2 DEF e, new
  <2>6. CASE e \in DOMAIN ends
    <3>1. new = BuilderInsert(b, ar, Passed(ar, ends[e]))
      BY <2>2, <2>6 DEF NextBuilder
    <3>2. ends[e] \in 1 .. Len(ar)
      BY <2>6 DEF ListsEnd, ends, ar
    <3>3. IsBuilt(new, ar, S, V) /\ (Unique(ar) => InTree(new, b, ar, ends[e]))
      BY <2>3, <3>1, <3>2, InsertBuilds DEF ar
    <3>4. Done(new, e)
      <4>1. ASSUME Unique(ar), NEW f \in DOMAIN ends, f <= e PROVE HasNode(new, ar[ends[f]])
        <5>1. CASE f = e
          BY <3>3, <4>1, <5>1 DEF InTree
        <5>2. CASE f <= k
          <6>1. HasNode(b, ar[ends[f]]) /\ ends[f] \in 1 .. Len(ar)
            BY <2>3, <4>1, <5>2 DEF ListsEnd, ends, ar
          <6>2. QED
            BY <3>3, <4>1, <6>1 DEF InTree, KeepsNodes
        <5>3. QED
          BY <2>4, <4>1, <5>1, <5>2
      <4>2. QED
        BY <4>1
    <3>5. QED
      BY <2>1, <3>3, <3>4 DEF e, new
  <2>7. QED
    BY <2>5, <2>6
<1>7. MaxStep \in P
  <2> HIDE DEF P
  <2>1. 0 .. MaxStep \subseteq P
    BY <1>1, <1>5, <1>6, UpTo
  <2>2. QED
    BY <1>1, <2>1
<1>8. \A e \in DOMAIN ends : e <= MaxStep
  BY <1>1 DEF ListsEnd, ends
<1>9. IsBuilt(built[MaxStep], ar, S, V) /\ Done(built[MaxStep], MaxStep)
  BY <1>7
<1>10. QED
  BY <1>2, <1>8, <1>9 DEF ar, ends

(* Every element is on the list of its end, and with an element the nodes  *)
(* its uplinks lead to are in the tree.                                    *)
LEMMA AllInTree ==
  ASSUME NEW V, NEW ar, Climbing(ar, V), NEW ends, Linked(ar, 1 .. Len(ar)),
         EndsLeadToInnermost(ar, ends, 1 .. Len(ar)), NEW b, NEW parent, Matches(b, parent, ar),
         \A e \in DOMAIN ends : HasNode(b, ar[ends[e]])
  PROVE  \A i \in 1 .. Len(ar) : HasNode(b, ar[i])
<1> DEFINE own == 1 .. Len(ar)
           T == {i \in own : HasNode(b, ar[i])}
<1>1. DOMAIN ar = own
  BY DEF Climbing
<1>2. ASSUME NEW i \in T, ar[i].prev # NoLink PROVE ar[i].prev \in T
  <2>1. /\ ar[i].scope \in ProperScopes /\ ar[i].prev \in own /\ ar[ar[i].prev].scope \in ProperScopes
        /\ StrictlyInside(ar[i].scope, ar[ar[i].prev].scope) /\ ar[ar[i].prev].scope.end <= MaxStep
        /\ MaxStep \in Nat
    BY <1>2 DEF Climbing
  <2>2. ar[i].scope # Root
    <3> DEFINE t == ar[ar[i].prev].scope
    <3>1. SUFFICES ASSUME ar[i].scope = Root PROVE FALSE
      OBVIOUS
    <3>2. t = [start |-> t.start, end |-> t.end] /\ t.start \in Nat /\ t.end \in Nat /\ t.end <= MaxStep
      BY <2>1 DEF ProperScopes
    <3>3. t.start <= 0 /\ MaxStep <= t.end /\ t # Root
      BY <2>1, <3>1 DEF StrictlyInside, Contains, Root
    <3> HIDE DEF t
    <3>4. t.start = 0 /\ t.end = MaxStep
      BY <2>1, <3>2, <3>3
    <3>5. QED
      BY <3>2, <3>3, <3>4 DEF Root
  <2>3. HasNode(b, ar[i])
    BY <1>2
  <2>4. BelongsTo(b, ar, i, parent[b.nodeOf[ar[i].scope]])
    BY <1>2, <2>2, <2>3 DEF Matches, HasNode
  <2>5. QED
    BY <1>2, <2>1, <2>4 DEF BelongsTo
<1>3. ASSUME NEW m \in own PROVE m \in T
  <2> DEFINE e == ar[m].scope.end
             x == ends[e]
  <2>1. e \in DOMAIN ends /\ x \in own
    BY DEF EndsLeadToInnermost
  <2>2. ar[m].scope \in ProperScopes /\ ar[m].scope.start < e /\ e <= e
    BY DEF Climbing, ProperScopes
  <2>3. m \in Above(ar, own, x)
    BY <2>1, <2>2, ListHolds
  <2>4. m \in Walk(ar, x, {})
    BY <2>1, <2>3, WalkArrives
  <2>5. x \in T
    BY <2>1
  <2> HIDE DEF x, e
  <2>6. Walk(ar, x, {}) \subseteq T
    <3>1. T \subseteq DOMAIN ar
      BY <1>1
    <3>2. \A i \in T \ {} : ar[i].prev # NoLink => ar[i].prev \in T
      BY <1>2
    <3> HIDE DEF T
    <3>3. QED
      BY <2>5, <3>1, <3>2, WalkWithin
  <2>7. QED
    BY <2>4, <2>6
<1>4. QED
  BY <1>3

-----------------------------------------------------------------------------
(* The smallest scope of the tree around another one.                      *)
Around(scopes, s) == {t \in scopes \ {s} : Contains(t, s)}

InnerOf(scopes, s) == CHOOSE t \in Around(scopes, s) : \A u \in Around(scopes, s) : Contains(u, t)

ScopeOfParent(ar, i) == IF ar[i].prev = NoLink THEN Root ELSE ar[ar[i].prev].scope

Spans == [start : Nat, end : Nat]

LEMMA SameSpan ==
  ASSUME NEW s \in Spans, NEW t \in Spans, Contains(s, t), Contains(t, s)
  PROVE  s = t
<1>1. /\ s = [start |-> s.start, end |-> s.end] /\ t = [start |-> t.start, end |-> t.end]
      /\ s.start \in Nat /\ s.end \in Nat /\ t.start \in Nat /\ t.end \in Nat
  BY DEF Spans
<1>2. s.start = t.start /\ s.end = t.end
  BY <1>1 DEF Contains
<1>3. QED
  BY <1>1, <1>2

LEMMA InnerIs ==
  ASSUME NEW V, NEW ar, Climbing(ar, V), Linked(ar, 1 .. Len(ar)),
         NEW i \in 1 .. Len(ar), ar[i].scope # Root
  PROVE  InnerOf({ar[j].scope : j \in 1 .. Len(ar)} \cup {Root}, ar[i].scope) = ScopeOfParent(ar, i)
<1> DEFINE own == 1 .. Len(ar)
           scopes == {ar[j].scope : j \in own} \cup {Root}
           s == ar[i].scope
           around == Around(scopes, s)
           inner == ScopeOfParent(ar, i)
<1>1. /\ MaxStep \in Nat
      /\ \A j \in own : ar[j].scope \in ProperScopes /\ ar[j].scope.end <= MaxStep
      /\ ar[i].prev # NoLink => ar[i].prev \in own
  BY DEF Climbing
<1>2. \A t \in scopes : t \in Spans
  BY <1>1 DEF ProperScopes, Root, Spans
<1>3. \A j \in own : Contains(Root, ar[j].scope)
  BY <1>1 DEF ProperScopes, Root, Contains
<1>4. Contains(Root, Root)
  BY <1>1 DEF Root, Contains
<1>5. \A t \in scopes : Contains(Root, t)
  BY <1>3, <1>4
<1>6. LeadsToEncloser(ar, own, s, ar[i].prev)
  BY DEF Linked
<1>7. inner \in around /\ \A u \in around : Contains(u, inner)
  <2>1. CASE ar[i].prev = NoLink
    <3>1. Enclosing(ar, own, s) = {} /\ inner = Root
      <4>1. NoLink \notin own
        BY DEF NoLink
      <4>2. QED
        BY <1>6, <2>1, <4>1 DEF LeadsToEncloser, Enclosing, ScopeOfParent
    <3>2. \A u \in around : u = Root
      <4>1. ASSUME NEW u \in around, u # Root PROVE FALSE
        <5>1. PICK j \in own : u = ar[j].scope
          BY <4>1 DEF Around
        <5>2. j \in Enclosing(ar, own, s)
          BY <4>1, <5>1 DEF Around, Enclosing
        <5>3. QED
          BY <3>1, <5>2
      <4>2. QED
        BY <4>1
    <3>3. Root \in around
      BY <1>5 DEF Around
    <3>4. QED
      BY <1>4, <3>1, <3>2, <3>3
  <2>2. CASE ar[i].prev # NoLink
    <3> DEFINE p == ar[i].prev
    <3>1. p \in Enclosing(ar, own, s) /\ \A j \in Enclosing(ar, own, s) : Contains(ar[j].scope, ar[p].scope)
      BY <1>6, <2>2 DEF LeadsToEncloser
    <3>2. inner = ar[p].scope
      BY <2>2 DEF ScopeOfParent
    <3>3. inner \in around
      BY <3>1, <3>2 DEF Enclosing, Around
    <3>4. ASSUME NEW u \in around PROVE Contains(u, inner)
      <4>1. CASE u = Root
        BY <1>1, <1>3, <2>2, <3>2, <4>1
      <4>2. CASE u # Root
        <5>1. PICK j \in own : u = ar[j].scope
          BY <4>2 DEF Around
        <5>2. j \in Enclosing(ar, own, s)
          BY <5>1 DEF Around, Enclosing
        <5>3. QED
          BY <3>1, <3>2, <5>1, <5>2
      <4>3. QED
        BY <4>1, <4>2
    <3>5. QED
      BY <3>3, <3>4
  <2>3. QED
    BY <2>1, <2>2
<1>8. \A t \in around : t \in Spans
  BY <1>2 DEF Around
<1> DEFINE chosen == CHOOSE t \in around : \A u \in around : Contains(u, t)
<1> HIDE DEF around, inner
<1>9. chosen \in around /\ \A u \in around : Contains(u, chosen)
  BY <1>7
<1> HIDE DEF chosen
<1>10. chosen = inner
  <2>1. chosen \in Spans /\ inner \in Spans /\ Contains(chosen, inner) /\ Contains(inner, chosen)
    BY <1>7, <1>8, <1>9
  <2>2. QED
    BY <2>1, SameSpan
<1>11. QED
  BY <1>10 DEF InnerOf, chosen, around, inner

(* A tree whose nodes match all elements shows what they stand for.        *)
LEMMA BuiltShows ==
  ASSUME NEW S, NEW V, NEW ar, Climbing(ar, V), Linked(ar, 1 .. Len(ar)),
         NEW b, NEW parent, Formed(b, parent, S, V), Matches(b, parent, ar),
         \A i \in 1 .. Len(ar) : HasNode(b, ar[i])
  PROVE  Shows(b, Contents(ar, 1 .. Len(ar)))
<1> DEFINE own       == 1 .. Len(ar)
           defined   == Contents(ar, own)
           tree      == b.tree
           size      == Size(tree)
           scopes    == DOMAIN defined \cup {Root}
           kids(i)   == {tree.ar[c].scope : c \in {Children(tree, i)[n] : n \in DOMAIN Children(tree, i)}}
           below(s)  == {t \in scopes \ {Root} : InnerOf(scopes, t) = s}
<1>1. /\ tree \in NodeTrees(S, V) /\ Shape(tree, parent) /\ Root \in DOMAIN b.nodeOf
      /\ \A s \in DOMAIN b.nodeOf : b.nodeOf[s] \in 1 .. size
  BY DEF Formed
<1>2. /\ size \in Nat /\ size >= 1 /\ DOMAIN tree.ar = 1 .. size /\ Len(tree.ar) = size
      /\ parent \in [2 .. size -> 1 .. size]
  BY <1>1, ShapeItems DEF Size
<1>3. /\ ~b.failed
      /\ \A i \in 1 .. size : tree.ar[i].scope \in DOMAIN b.nodeOf /\ b.nodeOf[tree.ar[i].scope] = i
      /\ \A s \in DOMAIN b.nodeOf : tree.ar[b.nodeOf[s]].scope = s
      /\ b.nodeOf[Root] = 1
      /\ \A s \in DOMAIN b.nodeOf : s = Root \/ \E i \in own : ar[i].scope = s
      /\ tree.ar[1].value = NullVal \/ \E i \in own : ar[i].scope = Root /\ HasNode(b, ar[i])
      /\ \A i \in own : ar[i].scope \in DOMAIN b.nodeOf /\ ar[i].scope # Root =>
           HasNode(b, ar[i]) /\ BelongsTo(b, ar, i, parent[b.nodeOf[ar[i].scope]])
  BY DEF Matches, OneNode
<1>4. /\ DOMAIN defined = {ar[i].scope : i \in own}
      /\ \A i \in own : defined[ar[i].scope] = ar[i].value
  BY LinkedContents
<1> HIDE DEF defined, tree, size
<1>5. DOMAIN b.nodeOf = scopes
  <2>1. \A i \in own : ar[i].scope \in DOMAIN b.nodeOf
    BY DEF HasNode
  <2>2. \A s \in DOMAIN b.nodeOf : s \in scopes
    BY <1>3, <1>4
  <2>3. \A s \in scopes : s \in DOMAIN b.nodeOf
    BY <1>1, <1>4, <2>1
  <2> HIDE DEF scopes
  <2>4. QED
    BY <2>2, <2>3
<1>6. {tree.ar[i].scope : i \in DOMAIN tree.ar} = scopes
  <2>1. \A s \in scopes : b.nodeOf[s] \in 1 .. size /\ tree.ar[b.nodeOf[s]].scope = s
    BY <1>1, <1>3, <1>5
  <2>2. \A i \in 1 .. size : tree.ar[i].scope \in scopes
    BY <1>3, <1>5
  <2> HIDE DEF scopes
  <2>3. QED
    BY <1>2, <2>1, <2>2
<1>7. ASSUME NEW s \in scopes
      PROVE  /\ NodesOf(tree, s) = {b.nodeOf[s]}
             /\ tree.ar[b.nodeOf[s]].value = IF s \in DOMAIN defined THEN defined[s] ELSE NullVal
  <2>1. NodesOf(tree, s) = {b.nodeOf[s]}
    BY <1>1, <1>2, <1>3, <1>5, <1>7 DEF NodesOf
  <2>2. CASE s \in DOMAIN defined
    BY <1>4, <2>1, <2>2 DEF HasNode, tree
  <2>3. CASE s \notin DOMAIN defined
    BY <1>3, <1>4, <2>1, <2>3
  <2>4. QED
    BY <2>1, <2>2, <2>3
<1>8. ASSUME NEW i \in own, ar[i].scope # Root
      PROVE  /\ b.nodeOf[ar[i].scope] \in 2 .. size
             /\ ScopeOfParent(ar, i) \in DOMAIN b.nodeOf
             /\ parent[b.nodeOf[ar[i].scope]] = b.nodeOf[ScopeOfParent(ar, i)]
             /\ InnerOf(scopes, ar[i].scope) = ScopeOfParent(ar, i)
  <2>1. ar[i].scope \in DOMAIN b.nodeOf
    BY DEF HasNode
  <2>2. b.nodeOf[ar[i].scope] # 1
    <3>1. tree.ar[b.nodeOf[ar[i].scope]].scope = ar[i].scope /\ tree.ar[b.nodeOf[Root]].scope = Root
      BY <1>1, <1>3, <2>1
    <3>2. QED
      BY <1>3, <1>8, <3>1
  <2>3. b.nodeOf[ar[i].scope] \in 2 .. size
    BY <1>1, <1>2, <2>1, <2>2
  <2>4. BelongsTo(b, ar, i, parent[b.nodeOf[ar[i].scope]])
    BY <1>3, <1>8, <2>1
  <2>5. InnerOf(scopes, ar[i].scope) = ScopeOfParent(ar, i)
    BY <1>4, <1>8, InnerIs
  <2>6. QED
    BY <1>1, <1>3, <2>3, <2>4, <2>5 DEF BelongsTo, ScopeOfParent, HasNode
<1>9. ASSUME NEW s \in scopes
      PROVE  kids(b.nodeOf[s]) = below(s)
  <2> DEFINE i == b.nodeOf[s]
             list == Children(tree, i)
  <2>1. i \in 1 .. size
    BY <1>1, <1>5
  <2>2. IsListOf(list, Kids(parent, i))
    BY <1>1, <2>1, ChildrenAreKids DEF size
  <2>3. {list[n] : n \in DOMAIN list} = Kids(parent, i)
    <3> HIDE DEF list, i
    <3>1. QED
      BY <2>2 DEF IsListOf
  <2>4. kids(i) = {tree.ar[c].scope : c \in Kids(parent, i)}
    BY <2>3
  <2> HIDE DEF list, kids
  <2>5. ASSUME NEW c \in Kids(parent, i) PROVE tree.ar[c].scope \in below(s)
    <3>1. c \in 2 .. size /\ c \in 1 .. size /\ parent[c] = i
      BY <1>2, <2>5 DEF Kids
    <3>2. tree.ar[c].scope \in DOMAIN b.nodeOf /\ b.nodeOf[tree.ar[c].scope] = c
      BY <1>3, <3>1
    <3>3. tree.ar[c].scope # Root
      BY <1>2, <1>3, <3>1, <3>2
    <3>4. PICK j \in own : ar[j].scope = tree.ar[c].scope
      BY <1>3, <3>2, <3>3
    <3>5. /\ i = b.nodeOf[ScopeOfParent(ar, j)] /\ ScopeOfParent(ar, j) \in DOMAIN b.nodeOf
          /\ InnerOf(scopes, ar[j].scope) = ScopeOfParent(ar, j)
      BY <1>8, <3>1, <3>2, <3>3, <3>4
    <3>6. ScopeOfParent(ar, j) = s
      <4>1. tree.ar[b.nodeOf[s]].scope = s /\ tree.ar[b.nodeOf[ScopeOfParent(ar, j)]].scope = ScopeOfParent(ar, j)
        BY <1>3, <1>5, <3>5
      <4>2. QED
        BY <3>5, <4>1 DEF i
    <3> HIDE DEF scopes
    <3>7. QED
      BY <1>5, <3>2, <3>3, <3>4, <3>5, <3>6
  <2>6. ASSUME NEW t \in below(s) PROVE \E c \in Kids(parent, i) : tree.ar[c].scope = t
    <3>1. t \in scopes /\ t # Root /\ InnerOf(scopes, t) = s
      BY <2>6
    <3>2. PICK j \in own : ar[j].scope = t
      BY <1>4, <3>1
    <3>3. /\ b.nodeOf[t] \in 2 .. size /\ parent[b.nodeOf[t]] = i
      BY <1>8, <3>1, <3>2
    <3>4. b.nodeOf[t] \in Kids(parent, i)
      BY <1>2, <3>3 DEF Kids
    <3>5. tree.ar[b.nodeOf[t]].scope = t
      BY <1>3, <1>5, <3>1
    <3>6. QED
      BY <3>4, <3>5
  <2> HIDE DEF below
  <2>7. QED
    BY <2>4, <2>5, <2>6 DEF i
<1>10. /\ {DepthFirst(tree)[n] : n \in 1 .. Len(tree.ar)} = DOMAIN tree.ar
       /\ DepthFirst(tree)[Len(tree.ar) + 1] = Len(tree.ar) + 1
  BY <1>1, <1>2, DepthFirstPasses DEF size
<1>11. \A s \in scopes : \E i \in NodesOf(tree, s) :
         /\ NodesOf(tree, s) = {i}
         /\ tree.ar[i].value = IF s \in DOMAIN defined THEN defined[s] ELSE NullVal
         /\ kids(i) = below(s)
  <2>1. ASSUME NEW s \in scopes
        PROVE  \E i \in NodesOf(tree, s) :
                 /\ NodesOf(tree, s) = {i}
                 /\ tree.ar[i].value = IF s \in DOMAIN defined THEN defined[s] ELSE NullVal
                 /\ kids(i) = below(s)
    <3>1. b.nodeOf[s] \in NodesOf(tree, s) /\ NodesOf(tree, s) = {b.nodeOf[s]}
      BY <1>7
    <3>2. QED
      BY <1>7, <1>9, <3>1
  <2>2. QED
    BY <2>1
<1>12. QED
  BY <1>3, <1>6, <1>10, <1>11 DEF Shows, InnerOf, Around, tree, defined

-----------------------------------------------------------------------------
(* The table of what is defined in the scopes of all keys.  Scopes that    *)
(* end at MaxStep at the latest are finitely many, and have a last one in  *)
(* the order of ScopeCompare.                                              *)
Bounded(scopes) == MaxStep \in Nat /\ \A s \in scopes : s \in ProperScopes /\ s.end <= MaxStep

Nesting(scopes) == \A s, t \in scopes : ~Crossing(s, t)

LEMMA BoundedFinite ==
  ASSUME NEW scopes, Bounded(scopes)
  PROVE  IsFiniteSet(scopes) /\ Cardinality(scopes) \in Nat
<1> DEFINE steps == 0 .. MaxStep
           f == [s \in scopes |-> <<s.start, s.end>>]
<1>1. IsFiniteSet(steps)
  BY FS_Interval DEF Bounded
<1>2. IsFiniteSet(steps \X steps)
  BY <1>1, FS_Product
<1>3. \A s \in scopes : /\ s = [start |-> s.start, end |-> s.end]
                        /\ s.start \in steps /\ s.end \in steps
  BY DEF Bounded, ProperScopes
<1>4. f \in [scopes -> steps \X steps]
  BY <1>3
<1>5. ASSUME NEW s \in scopes, NEW t \in scopes, f[s] = f[t]
      PROVE  s = t
  <2>1. s.start = t.start /\ s.end = t.end
    BY <1>5
  <2>2. QED
    BY <1>3, <2>1
<1> HIDE DEF f, steps
<1>6. f \in Injection(scopes, steps \X steps)
  BY <1>4, <1>5 DEF Injection, IsInjective
<1>7. QED
  BY <1>2, <1>6, FS_Injection, FS_CardinalityType

Latest(scopes) == CHOOSE s \in scopes : \A t \in scopes \ {s} : ScopeCompare(t, s)

LEMMA LatestExists ==
  ASSUME NEW scopes, Bounded(scopes), scopes # {}
  PROVE  Latest(scopes) \in scopes
<1> DEFINE Ends == {s.end : s \in scopes}
<1>1. /\ MaxStep \in Nat
      /\ \A s \in scopes : /\ s = [start |-> s.start, end |-> s.end] /\ s.start \in Nat /\ s.end \in Nat
                           /\ s.start <= MaxStep /\ s.end <= MaxStep
  BY DEF Bounded, ProperScopes
<1>2. PICK e \in Ends : \A f \in Ends : f <= e
  <2>1. Ends \in SUBSET Nat /\ Ends # {} /\ \A f \in Ends : f <= MaxStep
    BY <1>1
  <2> HIDE DEF Ends
  <2>2. QED
    BY <1>1, <2>1, NatMax
<1> DEFINE Starts == {s.start : s \in {t \in scopes : t.end = e}}
<1>3. PICK b \in Starts : \A c \in Starts : c <= b
  <2>1. Starts \in SUBSET Nat /\ Starts # {} /\ \A f \in Starts : f <= MaxStep
    BY <1>1, <1>2
  <2> HIDE DEF Starts
  <2>2. QED
    BY <1>1, <2>1, NatMax
<1>4. PICK s \in scopes : s.end = e /\ s.start = b
  BY <1>3
<1>5. ASSUME NEW t \in scopes \ {s}
      PROVE  ScopeCompare(t, s)
  <2>1. t.end \in Nat /\ e \in Nat /\ t.end <= e
    BY <1>1, <1>2
  <2>2. CASE t.end = e
    <3>1. t.start \in Nat /\ b \in Nat /\ t.start <= b
      BY <1>1, <1>3, <2>2
    <3>2. t.start # b
      BY <1>1, <1>4, <2>2
    <3>3. QED
      BY <1>4, <2>2, <3>1, <3>2 DEF ScopeCompare
  <2>3. CASE t.end # e
    BY <1>4, <2>1, <2>3 DEF ScopeCompare
  <2>4. QED
    BY <2>2, <2>3
<1>6. QED
  BY <1>5 DEF Latest

(* A table holds what is defined in the scopes.                            *)
Holds(table, scopes, defined, V) ==
  LET ar == table.m_invtree
  IN  /\ ar \in Seq(Item(V))
      /\ Ascending(ar, table.m_map, 1 .. Len(ar)) /\ WellLinked(ar, table.m_map, 1 .. Len(ar))
      /\ \A i \in 1 .. Len(ar) : ar[i].scope \in scopes /\ ar[i].value = defined[ar[i].scope]
      /\ \A s \in scopes : \E i \in 1 .. Len(ar) : ar[i].scope = s

LEMMA EmptyHolds ==
  ASSUME NEW defined, NEW V
  PROVE  Holds(EmptyTable, {}, defined, V)
<1>1. EmptyTable.m_invtree = << >> /\ EmptyTable.m_map = [e \in {} |-> NoLink]
  BY DEF EmptyTable
<1>2. << >> \in Seq(Item(V)) /\ Len(<< >>) = 0 /\ 1 .. 0 = {} /\ DOMAIN << >> = {}
  OBVIOUS
<1>3. Ascending(<< >>, [e \in {} |-> NoLink], {}) /\ WellLinked(<< >>, [e \in {} |-> NoLink], {})
  BY <1>2 DEF Ascending, WellLinked, EndsLeadToInnermost
<1>4. QED
  BY <1>1, <1>2, <1>3 DEF Holds

LEMMA StoredHolds ==
  ASSUME NEW table, NEW scopes, NEW defined, NEW V, Holds(table, scopes, defined, V),
         NEW s, s \notin scopes, defined[s] \in V, Bounded(scopes \cup {s}), Nesting(scopes \cup {s})
  PROVE  /\ ~IsRefusedIn(table, s)
         /\ Holds(Stored(table, s, defined[s]), scopes \cup {s}, defined, V)
<1> DEFINE ar == table.m_invtree
           ends == table.m_map
           own == 1 .. Len(ar)
           n == Len(ar) + 1
           v == defined[s]
           new == Inserted(ar, ends, s, v)
           all == scopes \cup {s}
<1>1. /\ ar \in Seq(Item(V)) /\ Ascending(ar, ends, own) /\ WellLinked(ar, ends, own)
      /\ \A i \in own : ar[i].scope \in scopes /\ ar[i].value = defined[ar[i].scope]
      /\ \A t \in scopes : \E i \in own : ar[i].scope = t
  BY DEF Holds
<1>2. DOMAIN ar = own /\ Len(ar) \in Nat
  BY <1>1
<1>3. s \in ProperScopes /\ \A i \in own : ~Crossing(ar[i].scope, s) /\ ar[i].scope # s
  BY <1>1 DEF Bounded, Nesting
<1>4. NestedElements(ar, own) /\ Fresh(ar, own, s)
  <2>1. \A i, j \in own : ~Crossing(ar[i].scope, ar[j].scope)
    BY <1>1 DEF Nesting
  <2>2. QED
    BY <1>1, <1>2, <1>3, <2>1, NestedItems DEF Fresh
<1>5. Linked(ar, own) /\ EndsLeadToInnermost(ar, ends, own)
  BY <1>1, <1>4 DEF WellLinked, Linked
<1>6. ~Known(ar, ends, s)
  BY <1>3, <1>5, KnownIff
<1>7. ~HierarchyError(ar, ends, s)
  BY <1>3, <1>5, NotRefused
<1>8. new \in Seq(Item(V)) /\ Len(new) = n
  <2>1. s \in ProperScopes /\ v \in V
    BY <1>3
  <2> HIDE DEF v
  <2>2. QED
    BY <1>1, <2>1, InsertedType DEF Item
<1>9. IsExtension(ar, own, ends, s, v, new)
  BY <1>1, <1>3, InsertedExtends
<1>10. /\ new[n].scope = s /\ new[n].value = v /\ n \in 1 .. Len(new)
       /\ \A i \in own : new[i].scope = ar[i].scope /\ new[i].value = ar[i].value
  BY <1>2, <1>8, <1>9 DEF IsExtension
<1>11. own \cup {n} = 1 .. Len(new)
  BY <1>2, <1>8
<1>12. Ascending(new, NewEnds(ar, ends, s), 1 .. Len(new))
  <2>1. Ascending(new, NewEnds(ar, ends, s), own \cup {n})
    BY <1>1, <1>3, <1>6, <1>7, InsertedAscending
  <2>2. QED
    BY <1>11, <2>1
<1>13. WellLinked(new, NewEnds(ar, ends, s), 1 .. Len(new))
  <2>1. WellLinked(new, NewEnds(ar, ends, s), own \cup {n})
    BY <1>1, <1>4, InsertedWellLinked
  <2>2. QED
    BY <1>11, <2>1
<1>14. /\ Stored(table, s, v).m_invtree = new
       /\ Stored(table, s, v).m_map = NewEnds(ar, ends, s)
  BY <1>6 DEF Stored, IsKnownIn
<1> HIDE DEF new, n, v
<1>15. \A i \in 1 .. Len(new) : new[i].scope \in all /\ new[i].value = defined[new[i].scope]
  <2>1. \A i \in own : new[i].scope \in all /\ new[i].value = defined[new[i].scope]
    BY <1>1, <1>10
  <2>2. new[n].scope \in all /\ new[n].value = defined[new[n].scope]
    BY <1>10 DEF v
  <2>3. QED
    BY <1>11, <2>1, <2>2
<1>16. \A t \in all : \E i \in 1 .. Len(new) : new[i].scope = t
  BY <1>1, <1>10, <1>11
<1>17. Holds(Stored(table, s, v), all, defined, V)
  BY <1>8, <1>12, <1>13, <1>14, <1>15, <1>16 DEF Holds
<1>18. QED
  BY <1>7, <1>17 DEF IsRefusedIn, v

(* The scopes are stored one after the other.                              *)
Before(scopes) == scopes \ {Latest(scopes)}

StoredNext(before, s, defined) ==
  IF before.failed \/ IsRefusedIn(before.table, s) THEN [before EXCEPT !.failed = TRUE]
  ELSE [before EXCEPT !.table = Stored(@, s, defined[s])]

NothingStored == [table |-> EmptyTable, failed |-> FALSE]

IsStoring(all, defined) ==
  all = [scopes \in SUBSET DOMAIN defined |->
           IF scopes = {} THEN NothingStored
           ELSE StoredNext(all[Before(scopes)], Latest(scopes), defined)]

IsStoringTo(all, k, defined) ==
  \A scopes \in SUBSET DOMAIN defined : Cardinality(scopes) < k =>
    all[scopes] = IF scopes = {} THEN NothingStored
                  ELSE StoredNext(all[Before(scopes)], Latest(scopes), defined)

LEMMA BeforeSmaller ==
  ASSUME NEW D, Bounded(D), NEW scopes \in SUBSET D, scopes # {}
  PROVE  /\ Before(scopes) \in SUBSET D /\ Latest(scopes) \in scopes
         /\ scopes = Before(scopes) \cup {Latest(scopes)} /\ Latest(scopes) \notin Before(scopes)
         /\ Cardinality(Before(scopes)) = Cardinality(scopes) - 1
         /\ Cardinality(scopes) \in Nat /\ Cardinality(Before(scopes)) \in Nat
<1>1. Bounded(scopes) /\ Bounded(Before(scopes))
  BY DEF Bounded, Before
<1>2. Latest(scopes) \in scopes
  BY <1>1, LatestExists
<1>3. /\ IsFiniteSet(scopes) /\ Cardinality(scopes) \in Nat
      /\ Cardinality(Before(scopes)) \in Nat
  BY <1>1, BoundedFinite
<1>4. Cardinality(scopes \ {Latest(scopes)}) = Cardinality(scopes) - 1
  BY <1>2, <1>3, FS_RemoveElement
<1>5. QED
  BY <1>2, <1>3, <1>4 DEF Before

LEMMA StoringExists ==
  ASSUME NEW defined, Bounded(DOMAIN defined)
  PROVE  \E all : IsStoring(all, defined)
<1> DEFINE D == DOMAIN defined
           N == Cardinality(D)
           P == {k \in Nat : \E all : IsStoringTo(all, k, defined)}
<1>1. \A scopes \in SUBSET D : Cardinality(scopes) \in Nat /\ Cardinality(scopes) <= N
  <2>1. IsFiniteSet(D)
    BY BoundedFinite
  <2>2. QED
    BY <2>1, FS_Subset, FS_CardinalityType
<1>2. N \in Nat
  BY BoundedFinite
<1>3. 0 \in P
  <2>1. \A scopes \in SUBSET D : ~(Cardinality(scopes) < 0)
    BY <1>1
  <2>2. IsStoringTo(<<>>, 0, defined)
    BY <2>1 DEF IsStoringTo
  <2>3. QED
    BY <2>2
<1>4. ASSUME NEW k \in 0 .. N, k \in P
      PROVE  k + 1 \in P
  <2>1. PICK all : IsStoringTo(all, k, defined)
    BY <1>4
  <2> DEFINE Next(f, scopes) == IF scopes = {} THEN NothingStored
                                ELSE StoredNext(f[Before(scopes)], Latest(scopes), defined)
             more == [scopes \in SUBSET D |-> IF Cardinality(scopes) = k THEN Next(all, scopes) ELSE all[scopes]]
  <2>2. ASSUME NEW scopes \in SUBSET D, Cardinality(scopes) < k + 1
        PROVE  more[scopes] = Next(more, scopes)
    <3>1. scopes # {} => more[Before(scopes)] = all[Before(scopes)]
      <4>1. scopes # {} => /\ Before(scopes) \in SUBSET D
                           /\ Cardinality(Before(scopes)) = Cardinality(scopes) - 1
                           /\ Cardinality(scopes) \in Nat
        BY BeforeSmaller
      <4>2. scopes # {} => Cardinality(Before(scopes)) # k
        BY <2>2, <4>1
      <4>3. QED
        BY <4>1, <4>2
    <3>2. Next(more, scopes) = Next(all, scopes)
      <4> HIDE DEF more
      <4>1. QED
        BY <3>1
    <3>3. CASE Cardinality(scopes) = k
      <4>1. more[scopes] = Next(all, scopes)
        BY <3>3
      <4>2. QED
        BY <3>2, <4>1
    <3>4. CASE Cardinality(scopes) # k
      <4>1. more[scopes] = all[scopes]
        BY <3>4
      <4>2. Cardinality(scopes) < k
        BY <1>1, <2>2, <3>4
      <4>3. all[scopes] = Next(all, scopes)
        BY <2>1, <4>2 DEF IsStoringTo
      <4>4. QED
        BY <3>2, <4>1, <4>3
    <3>5. QED
      BY <3>3, <3>4
  <2> HIDE DEF more
  <2>3. IsStoringTo(more, k + 1, defined)
    BY <2>2 DEF IsStoringTo
  <2>4. QED
    BY <2>3
<1>5. N + 1 \in P
  <2> HIDE DEF P, N
  <2>1. 0 .. N + 1 \subseteq P
    <3>1. N + 1 \in Nat /\ \A k \in 0 .. (N + 1) - 1 : k \in 0 .. N
      BY <1>2
    <3>2. QED
      BY <1>3, <1>4, <3>1, UpTo
  <2>2. QED
    BY <1>2, <2>1
<1>6. PICK all : IsStoringTo(all, N + 1, defined)
  BY <1>5
<1> DEFINE total == [scopes \in SUBSET D |-> all[scopes]]
<1>7. ASSUME NEW scopes \in SUBSET D
      PROVE  total[scopes] = IF scopes = {} THEN NothingStored
                             ELSE StoredNext(total[Before(scopes)], Latest(scopes), defined)
  <2>1. Cardinality(scopes) < N + 1
    BY <1>1, <1>2
  <2>2. scopes # {} => total[Before(scopes)] = all[Before(scopes)]
    BY BeforeSmaller
  <2>3. total[scopes] = all[scopes]
    OBVIOUS
  <2> HIDE DEF total, N
  <2>4. QED
    BY <1>6, <2>1, <2>2, <2>3 DEF IsStoringTo
<1>8. total = [scopes \in SUBSET D |-> total[scopes]]
  OBVIOUS
<1> HIDE DEF total
<1>9. IsStoring(total, defined)
  BY <1>7, <1>8 DEF IsStoring
<1>10. QED
  BY <1>9

(* Scopes that nest are all stored.                                        *)
LEMMA SetAllHolds ==
  ASSUME NEW defined, NEW V, Bounded(DOMAIN defined), Nesting(DOMAIN defined),
         \A s \in DOMAIN defined : defined[s] \in V
  PROVE  ~SetAll(defined).failed /\ Holds(SetAll(defined).table, DOMAIN defined, defined, V)
<1> DEFINE D == DOMAIN defined
           all == CHOOSE f : IsStoring(f, defined)
<1>1. IsStoring(all, defined)
  BY StoringExists
<1>2. SetAll(defined) = all[D]
  BY DEF SetAll, IsStoring, StoredNext, NothingStored, Latest, Before
<1> HIDE DEF all
<1>3. \A scopes \in SUBSET D :
        all[scopes] = IF scopes = {} THEN NothingStored
                      ELSE StoredNext(all[Before(scopes)], Latest(scopes), defined)
  BY <1>1 DEF IsStoring
<1> DEFINE Right(scopes) == /\ all[scopes] = [table |-> all[scopes].table, failed |-> FALSE]
                            /\ Holds(all[scopes].table, scopes, defined, V)
           P == {k \in Nat : \A scopes \in SUBSET D : Cardinality(scopes) = k => Right(scopes)}
           N == Cardinality(D)
<1>4. \A scopes \in SUBSET D : IsFiniteSet(scopes) /\ Cardinality(scopes) \in Nat
  BY BoundedFinite, FS_Subset, FS_CardinalityType
<1>5. Right({})
  <2>1. all[{}] = [table |-> EmptyTable, failed |-> FALSE]
    BY <1>3 DEF NothingStored
  <2>2. all[{}].table = EmptyTable
    BY <2>1
  <2>3. QED
    BY <2>1, <2>2, EmptyHolds
<1>6. 0 \in P
  <2>1. \A scopes \in SUBSET D : Cardinality(scopes) = 0 => scopes = {}
    BY <1>4, FS_EmptySet
  <2> HIDE DEF Right
  <2>2. QED
    BY <1>5, <2>1
<1>7. ASSUME NEW k \in 0 .. N - 1, k \in P
      PROVE  k + 1 \in P
  <2> SUFFICES ASSUME NEW scopes \in SUBSET D, Cardinality(scopes) = k + 1
      PROVE  Right(scopes)
    OBVIOUS
  <2> DEFINE s == Latest(scopes)
             before == all[Before(scopes)]
  <2>1. scopes # {}
    <3>1. Cardinality({}) = 0
      BY FS_EmptySet
    <3>2. QED
      BY <3>1
  <2>2. /\ Before(scopes) \in SUBSET D /\ s \in scopes /\ scopes = Before(scopes) \cup {s}
        /\ s \notin Before(scopes) /\ Cardinality(Before(scopes)) = k
    BY <2>1, BeforeSmaller
  <2>3. Right(Before(scopes))
    BY <1>7, <2>2
  <2>4. before = [table |-> before.table, failed |-> FALSE] /\ Holds(before.table, Before(scopes), defined, V)
    BY <2>3
  <2>5. Bounded(Before(scopes) \cup {s}) /\ Nesting(Before(scopes) \cup {s}) /\ defined[s] \in V
    BY <2>2 DEF Bounded, Nesting
  <2> DEFINE new == Stored(before.table, s, defined[s])
             table == before.table
  <2>6. ~IsRefusedIn(before.table, s) /\ Holds(new, Before(scopes) \cup {s}, defined, V)
    BY <2>2, <2>4, <2>5, StoredHolds
  <2>7. all[scopes] = StoredNext(before, s, defined)
    BY <1>3, <2>1
  <2>8. StoredNext(before, s, defined) = [table |-> new, failed |-> FALSE]
    <3>1. ~before.failed
      BY <2>4
    <3>2. StoredNext(before, s, defined) = [before EXCEPT !.table = new]
      BY <2>6, <3>1 DEF StoredNext
    <3>3. before = [table |-> table, failed |-> FALSE]
      BY <2>4
    <3> HIDE DEF new, before, table
    <3>4. [ [table |-> table, failed |-> FALSE] EXCEPT !.table = new] = [table |-> new, failed |-> FALSE]
      OBVIOUS
    <3>5. QED
      BY <3>2, <3>3, <3>4
  <2> HIDE DEF new, before, s
  <2>9. all[scopes].table = new
    BY <2>7, <2>8
  <2>10. QED
    BY <2>2, <2>6, <2>7, <2>8, <2>9
<1>8. N \in P
  <2>1. N \in Nat
    BY <1>4
  <2> HIDE DEF P, N
  <2>2. 0 .. N \subseteq P
    BY <1>6, <1>7, <2>1, UpTo
  <2>3. QED
    BY <2>1, <2>2
<1>9. Right(D)
  BY <1>8
<1>10. QED
  BY <1>2, <1>9

-----------------------------------------------------------------------------
(* The tree of a table that holds what is defined.                         *)
IsTree(tree, S, V) ==
  tree \in NodeTrees(S, V) /\ tree.ar[1].scope = Root /\ \E parent : Shape(tree, parent)

HeldIn(table, defined, V) ==
  /\ Bounded(DOMAIN defined) /\ Nesting(DOMAIN defined) /\ Holds(table, DOMAIN defined, defined, V)
  /\ defined = [s \in DOMAIN defined |-> defined[s]]

LEMMA HeldClimbs ==
  ASSUME NEW table, NEW defined, NEW V, HeldIn(table, defined, V)
  PROVE  /\ Climbing(table.m_invtree, V) /\ ListsEnd(table.m_map, table.m_invtree)
         /\ \A i \in 1 .. Len(table.m_invtree) : table.m_invtree[i].scope \in Spans
         /\ Root \in Spans
         /\ Linked(table.m_invtree, 1 .. Len(table.m_invtree)) /\ Unique(table.m_invtree)
         /\ EndsLeadToInnermost(table.m_invtree, table.m_map, 1 .. Len(table.m_invtree))
         /\ Contents(table.m_invtree, 1 .. Len(table.m_invtree)) = defined
<1> DEFINE ar == table.m_invtree
           ends == table.m_map
           own == 1 .. Len(ar)
           D == DOMAIN defined
<1>1. /\ ar \in Seq(Item(V)) /\ Ascending(ar, ends, own) /\ WellLinked(ar, ends, own)
      /\ \A i \in own : ar[i].scope \in D /\ ar[i].value = defined[ar[i].scope]
      /\ \A s \in D : \E i \in own : ar[i].scope = s
      /\ MaxStep \in Nat /\ \A s \in D : s \in ProperScopes /\ s.end <= MaxStep
      /\ \A s, t \in D : ~Crossing(s, t)
      /\ defined = [s \in D |-> defined[s]]
  BY DEF Holds, HeldIn, Bounded, Nesting
<1> HIDE DEF ar, ends, D
<1>2. DOMAIN ar = own /\ Len(ar) \in Nat /\ \A i \in own : ar[i] \in Item(V)
  BY <1>1
<1>3. \A i \in own : /\ ar[i].scope \in ProperScopes /\ ar[i].scope.end <= MaxStep
                     /\ ar[i].value \in V /\ ar[i].prev \in Nat
  BY <1>1, <1>2 DEF Item
<1>4. /\ \A i \in own : ar[i].prev # NoLink =>
                      ar[i].prev \in own /\ StrictlyInside(ar[i].scope, ar[ar[i].prev].scope)
      /\ DOMAIN ends \subseteq Nat
      /\ \A e \in DOMAIN ends : ends[e] \in own /\ ar[ends[e]].scope.end = e
  BY <1>1 DEF Ascending
<1>5. Climbing(ar, V)
  BY <1>1, <1>2, <1>3, <1>4 DEF Climbing
<1>6. \A i \in own : /\ ar[i].scope \in Spans /\ ar[i].scope.end \in Nat /\ ar[i].scope.end >= 1
                     /\ ar[i].scope.end <= MaxStep
  BY <1>3 DEF ProperScopes, Spans
<1>7. ListsEnd(ends, ar)
  BY <1>1, <1>4, <1>6 DEF ListsEnd
<1>8. Root \in Spans
  BY <1>1 DEF Root, Spans
<1>9. NestedElements(ar, own)
  <2>1. \A i, j \in own : ~Crossing(ar[i].scope, ar[j].scope)
    BY <1>1
  <2>2. QED
    BY <1>1, <1>2, <2>1, NestedItems
<1>10. Linked(ar, own) /\ EndsLeadToInnermost(ar, ends, own)
  BY <1>1, <1>9 DEF WellLinked, Linked
<1>11. Unique(ar)
  BY <1>10 DEF Linked, Unique
<1>12. Contents(ar, own) = defined
  <2> DEFINE c == Contents(ar, own)
  <2>1. DOMAIN c = {ar[i].scope : i \in own} /\ \A i \in own : c[ar[i].scope] = ar[i].value
    BY <1>10, LinkedContents
  <2>2. c = [s \in DOMAIN c |-> c[s]]
    BY DEF Contents
  <2> HIDE DEF c
  <2>3. DOMAIN c = D
    BY <1>1, <2>1
  <2>4. \A s \in D : c[s] = defined[s]
    BY <1>1, <2>1
  <2>5. [s \in DOMAIN c |-> c[s]] = [s \in D |-> defined[s]]
    BY <2>3, <2>4
  <2>6. QED
    BY <1>1, <2>2, <2>5 DEF c
<1>13. QED
  BY <1>5, <1>6, <1>7, <1>8, <1>10, <1>11, <1>12 DEF ar, ends, D

LEMMA HeldShows ==
  ASSUME NEW table, NEW defined, NEW V, HeldIn(table, defined, V), NullVal \in V
  PROVE  Shows(getTree(table), defined) /\ IsTree(getTree(table).tree, Spans, V)
<1> DEFINE ar == table.m_invtree
           ends == table.m_map
           b == getTree(table)
<1>1. /\ Climbing(ar, V) /\ ListsEnd(ends, ar) /\ \A i \in 1 .. Len(ar) : ar[i].scope \in Spans
      /\ Root \in Spans /\ Linked(ar, 1 .. Len(ar)) /\ Unique(ar)
      /\ EndsLeadToInnermost(ar, ends, 1 .. Len(ar)) /\ Contents(ar, 1 .. Len(ar)) = defined
  BY HeldClimbs
<1>2. IsBuilt(b, ar, Spans, V) /\ \A e \in DOMAIN ends : HasNode(b, ar[ends[e]])
  BY <1>1, GetTreeBuilds
<1>3. PICK parent : Built(b, parent, ar, Spans, V)
  BY <1>2 DEF IsBuilt
<1>4. Formed(b, parent, Spans, V) /\ Matches(b, parent, ar)
  BY <1>1, <1>3 DEF Built
<1> HIDE DEF ar, ends, b
<1>5. \A i \in 1 .. Len(ar) : HasNode(b, ar[i])
  BY <1>1, <1>2, <1>4, AllInTree
<1>6. Shows(b, Contents(ar, 1 .. Len(ar)))
  BY <1>1, <1>4, <1>5, BuiltShows
<1>7. b.tree.ar[1].scope = Root
  BY <1>4 DEF Formed, Matches, OneNode
<1>8. b.tree \in NodeTrees(Spans, V) /\ Shape(b.tree, parent)
  BY <1>4 DEF Formed
<1>9. QED
  BY <1>1, <1>6, <1>7, <1>8 DEF IsTree, b

-----------------------------------------------------------------------------
(* Tree::translate.  The nodes copied so far are a part of the tree: each  *)
(* has its source, src, below whose parent it was copied.                  *)
IsPart(t, up, src, tree, parent) ==
  /\ Shape(t, up)
  /\ src \in [1 .. Size(t) -> 1 .. Size(tree)] /\ src[1] = 1
  /\ \A i, j \in 1 .. Size(t) : src[i] = src[j] => i = j
  /\ \A j \in 1 .. Size(t) : /\ t.ar[j].scope = tree.ar[src[j]].scope
                             /\ t.ar[j].value = tree.ar[src[j]].value
  /\ \A j \in 2 .. Size(t) : src[j] \in 2 .. Size(tree) /\ parent[src[j]] = src[up[j]]

WithSource(src, new, kid) == [j \in 1 .. new |-> IF j = new THEN kid ELSE src[j]]

CopyKid(t, to, tree, kid) == addChild(t, to, Node(tree.ar[kid].scope, tree.ar[kid].value))

LEMMA CopyKidPart ==
  ASSUME NEW S, NEW V, NEW tree \in NodeTrees(S, V), NEW parent, Shape(tree, parent),
         NEW t \in NodeTrees(S, V), NEW up, NEW src, IsPart(t, up, src, tree, parent),
         NEW to \in 1 .. Size(t), NEW kid \in Kids(parent, src[to]),
         \A j \in 1 .. Size(t) : src[j] # kid
  PROVE  /\ CopyKid(t, to, tree, kid) \in NodeTrees(S, V)
         /\ Size(CopyKid(t, to, tree, kid)) = Size(t) + 1
         /\ IsPart(CopyKid(t, to, tree, kid), WithChild(up, Size(t) + 1, to),
                   WithSource(src, Size(t) + 1, kid), tree, parent)
<1> DEFINE new == CopyKid(t, to, tree, kid)
           n == Size(t) + 1
           more == WithChild(up, n, to)
           from == WithSource(src, n, kid)
           scope == tree.ar[kid].scope
           value == tree.ar[kid].value
<1>1. /\ Size(tree) \in Nat /\ DOMAIN tree.ar = 1 .. Size(tree)
      /\ \A i \in 1 .. Size(tree) : tree.ar[i] \in Records(S, V)
      /\ parent \in [2 .. Size(tree) -> 1 .. Size(tree)]
  BY ShapeItems
<1>2. kid \in 2 .. Size(tree) /\ kid \in 1 .. Size(tree) /\ parent[kid] = src[to]
  BY <1>1 DEF Kids
<1>3. scope \in S /\ value \in V
  BY <1>1, <1>2 DEF Records
<1>4. /\ Shape(t, up) /\ src \in [1 .. Size(t) -> 1 .. Size(tree)] /\ src[1] = 1
      /\ \A i, j \in 1 .. Size(t) : src[i] = src[j] => i = j
      /\ \A j \in 1 .. Size(t) : /\ t.ar[j].scope = tree.ar[src[j]].scope
                                 /\ t.ar[j].value = tree.ar[src[j]].value
      /\ \A j \in 2 .. Size(t) : src[j] \in 2 .. Size(tree) /\ parent[src[j]] = src[up[j]]
  BY DEF IsPart
<1>5. Size(t) \in Nat /\ Size(t) >= 1 /\ up \in [2 .. Size(t) -> 1 .. Size(t)]
  BY <1>4, ShapeItems
<1> HIDE DEF scope, value
<1>6. new = addChild(t, to, Node(scope, value))
  BY DEF CopyKid, scope, value
<1>7. new \in NodeTrees(S, V) /\ HasChildMore(new, t, up, to, Node(scope, value))
  BY <1>3, <1>4, <1>6, AddChildShape
<1> HIDE DEF new
<1>8. /\ Size(new) = n /\ Shape(new, more)
      /\ \A i \in 1 .. Size(t) : new.ar[i].scope = t.ar[i].scope /\ new.ar[i].value = t.ar[i].value
      /\ new.ar[n].scope = scope /\ new.ar[n].value = value
  BY <1>7 DEF HasChildMore, ItemsKept, Node
<1>9. n \in Nat /\ n >= 2 /\ \A j \in 1 .. n : j = n \/ j \in 1 .. Size(t)
  BY <1>5
<1>10. /\ from \in [1 .. n -> 1 .. Size(tree)] /\ from[n] = kid
       /\ \A j \in 1 .. Size(t) : from[j] = src[j]
  BY <1>2, <1>4, <1>5 DEF WithSource
<1>11. more[n] = to /\ \A j \in 2 .. Size(t) : more[j] = up[j]
  BY <1>5 DEF WithChild
<1> HIDE DEF more, from, n
<1>12. from[1] = 1
  BY <1>4, <1>5, <1>10
<1>13. \A i, j \in 1 .. n : from[i] = from[j] => i = j
  BY <1>4, <1>9, <1>10
<1>14. \A j \in 1 .. n : /\ new.ar[j].scope = tree.ar[from[j]].scope
                         /\ new.ar[j].value = tree.ar[from[j]].value
  <2>1. new.ar[n].scope = tree.ar[from[n]].scope /\ new.ar[n].value = tree.ar[from[n]].value
    BY <1>8, <1>10 DEF scope, value
  <2>2. ASSUME NEW j \in 1 .. Size(t)
        PROVE  new.ar[j].scope = tree.ar[from[j]].scope /\ new.ar[j].value = tree.ar[from[j]].value
    BY <1>4, <1>8, <1>10
  <2>3. QED
    BY <1>9, <2>1, <2>2
<1>15. ASSUME NEW j \in 2 .. n
       PROVE  from[j] \in 2 .. Size(tree) /\ parent[from[j]] = from[more[j]]
  <2>1. CASE j = n
    BY <1>2, <1>10, <1>11, <2>1
  <2>2. CASE j # n
    <3>1. j \in 2 .. Size(t) /\ j \in 1 .. Size(t) /\ up[j] \in 1 .. Size(t)
      BY <1>5, <1>9, <2>2
    <3>2. QED
      BY <1>4, <1>10, <1>11, <3>1
  <2>3. QED
    BY <2>1, <2>2
<1>16. QED
  BY <1>7, <1>8, <1>10, <1>12, <1>13, <1>14, <1>15 DEF IsPart, new, more, from, n

(* The kids of a node are copied one after the other.                      *)
IsAdding(added, start, to, tree, kids) ==
  added = [k \in 0 .. Len(kids) |-> IF k = 0 THEN start ELSE CopyKid(added[k - 1], to, tree, kids[k])]

IsAddingTo(added, n, start, to, tree, kids) ==
  added[0] = start /\ \A k \in 1 .. n : added[k] = CopyKid(added[k - 1], to, tree, kids[k])

LEMMA AddingExists ==
  ASSUME NEW start, NEW to, NEW tree, NEW kids, Len(kids) \in Nat
  PROVE  \E added : IsAdding(added, start, to, tree, kids)
<1> DEFINE new == Len(kids)
           P == {k \in Nat : \E added : IsAddingTo(added, k, start, to, tree, kids)}
<1>1. 0 \in P
  <2> DEFINE added == [n \in 0 .. 0 |-> start]
  <2>1. added[0] = start
    OBVIOUS
  <2> HIDE DEF added
  <2>2. IsAddingTo(added, 0, start, to, tree, kids)
    BY <2>1 DEF IsAddingTo
  <2>3. QED
    BY <2>2
<1>2. ASSUME NEW k \in 0 .. new - 1, k \in P
      PROVE  k + 1 \in P
  <2>1. PICK added : IsAddingTo(added, k, start, to, tree, kids)
    BY <1>2
  <2> DEFINE more == [n \in 0 .. k + 1 |-> IF n = 0 THEN start ELSE CopyKid(added[n - 1], to, tree, kids[n])]
  <2>2. k \in Nat /\ 0 \in 0 .. k + 1
    OBVIOUS
  <2>3. more[0] = start
    BY <2>2
  <2>4. ASSUME NEW n \in 1 .. k + 1 PROVE more[n] = CopyKid(more[n - 1], to, tree, kids[n])
    <3>1. more[n] = CopyKid(added[n - 1], to, tree, kids[n])
      BY <2>2
    <3>2. more[n - 1] = added[n - 1]
      <4>1. CASE n = 1
        BY <2>1, <2>2, <4>1 DEF IsAddingTo
      <4>2. CASE n # 1
        <5>1. n - 1 \in 1 .. k /\ n - 1 \in 0 .. k + 1 /\ n - 1 # 0
          BY <2>2, <4>2
        <5>2. more[n - 1] = CopyKid(added[n - 1 - 1], to, tree, kids[n - 1])
          BY <5>1
        <5>3. added[n - 1] = CopyKid(added[n - 1 - 1], to, tree, kids[n - 1])
          BY <2>1, <5>1 DEF IsAddingTo
        <5>4. QED
          BY <5>2, <5>3
      <4>3. QED
        BY <4>1, <4>2
    <3>3. QED
      BY <3>1, <3>2
  <2> HIDE DEF more
  <2>5. IsAddingTo(more, k + 1, start, to, tree, kids)
    BY <2>3, <2>4 DEF IsAddingTo
  <2>6. QED
    BY <2>2, <2>5
<1>3. new \in P
  <2> HIDE DEF P
  <2>1. 0 .. new \subseteq P
    BY <1>1, <1>2, UpTo
  <2>2. QED
    BY <2>1
<1>4. PICK steps : IsAddingTo(steps, new, start, to, tree, kids)
  BY <1>3
<1> DEFINE added == [n \in 0 .. new |-> steps[n]]
           again == [n \in 0 .. new |-> IF n = 0 THEN start ELSE CopyKid(added[n - 1], to, tree, kids[n])]
<1>5. ASSUME NEW n \in 0 .. new
      PROVE  added[n] = again[n]
  <2>1. CASE n = 0
    BY <1>4, <2>1 DEF IsAddingTo
  <2>2. CASE n # 0
    <3>1. n \in 1 .. new /\ n - 1 \in 0 .. new
      BY <2>2
    <3>2. added[n - 1] = steps[n - 1] /\ added[n] = steps[n]
      BY <3>1
    <3>3. steps[n] = CopyKid(steps[n - 1], to, tree, kids[n])
      BY <1>4, <3>1 DEF IsAddingTo
    <3> HIDE DEF added
    <3>4. QED
      BY <2>2, <3>2, <3>3
  <2>3. QED
    BY <2>1, <2>2
<1>6. added = again
  <2>1. added = [n \in 0 .. new |-> added[n]] /\ again = [n \in 0 .. new |-> again[n]]
    OBVIOUS
  <2> HIDE DEF added, again
  <2>2. QED
    BY <1>5, <2>1
<1>7. QED
  BY <1>6 DEF IsAdding

(* The list of the kids is ascending.                                      *)
LEMMA ListAscends ==
  ASSUME NEW list, NEW indices, IsListOf(list, indices), indices \subseteq Nat
  PROVE  \A i, j \in 1 .. Len(list) : i < j => list[i] < list[j]
<1> DEFINE n == Len(list)
           P == {k \in 0 .. n : \A i \in 1 .. k : i < k => list[i] < list[k]}
<1>1. /\ n \in Nat /\ \A k \in 1 .. n : list[k] \in Nat
      /\ \A k \in 1 .. n - 1 : list[k] < list[k + 1]
  BY DEF IsListOf
<1> HIDE DEF n
<1>2. 0 \in P
  BY <1>1
<1>3. ASSUME NEW k \in 0 .. n - 1, k \in P
      PROVE  k + 1 \in P
  <2> SUFFICES ASSUME NEW i \in 1 .. k + 1, i < k + 1
               PROVE  list[i] < list[k + 1]
    BY <1>1
  <2>1. k \in 1 .. n - 1 /\ i \in 1 .. k /\ k + 1 \in 1 .. n /\ i \in 1 .. n /\ k \in 1 .. n
    BY <1>1
  <2>2. list[k] < list[k + 1] /\ list[k] \in Nat /\ list[k + 1] \in Nat /\ list[i] \in Nat
    BY <1>1, <2>1
  <2>3. i < k => list[i] < list[k]
    BY <1>3, <2>1
  <2>4. i = k \/ i < k
    BY <2>1
  <2>5. QED
    BY <2>2, <2>3, <2>4
<1>4. 0 .. n \subseteq P
  <2> HIDE DEF P
  <2>1. QED
    BY <1>1, <1>2, <1>3, UpTo
<1>5. ASSUME NEW i \in 1 .. n, NEW j \in 1 .. n, i < j
      PROVE  list[i] < list[j]
  <2>1. j \in P
    BY <1>1, <1>4
  <2>2. i \in 1 .. j
    BY <1>1, <1>5
  <2>3. QED
    BY <1>5, <2>1, <2>2
<1>6. QED
  BY <1>5 DEF n

(* What there is when the kids of the node from are to be copied.          *)
Adding(start, up, src, to, kids, tree, parent, S, V) ==
  /\ tree \in NodeTrees(S, V) /\ Shape(tree, parent)
  /\ start \in NodeTrees(S, V) /\ IsPart(start, up, src, tree, parent)
  /\ to \in 1 .. Size(start) /\ IsListOf(kids, Kids(parent, src[to]))
  /\ \A k \in 1 .. Len(kids) : \A j \in 1 .. Size(start) : src[j] # kids[k]

HasAdded(t, more, from, n, start, up, src, to, kids) ==
  /\ Size(t) = Size(start) + n
  /\ \A j \in 1 .. Size(start) : from[j] = src[j]
  /\ \A j \in 2 .. Size(start) : more[j] = up[j]
  /\ \A k \in 1 .. n : from[Size(start) + k] = kids[k] /\ more[Size(start) + k] = to

AddedTo(t, n, start, up, src, to, kids, tree, parent, S, V) ==
  /\ t \in NodeTrees(S, V)
  /\ \E more, from : IsPart(t, more, from, tree, parent) /\ HasAdded(t, more, from, n, start, up, src, to, kids)

LEMMA AddedNext ==
  ASSUME NEW start, NEW up, NEW src, NEW to, NEW kids, NEW tree, NEW parent, NEW S, NEW V,
         Adding(start, up, src, to, kids, tree, parent, S, V),
         NEW n \in 0 .. Len(kids) - 1, NEW t, AddedTo(t, n, start, up, src, to, kids, tree, parent, S, V)
  PROVE  AddedTo(CopyKid(t, to, tree, kids[n + 1]), n + 1, start, up, src, to, kids, tree, parent, S, V)
<1> DEFINE kid == kids[n + 1]
           size == Size(start)
           new == CopyKid(t, to, tree, kid)
<1>1. /\ tree \in NodeTrees(S, V) /\ Shape(tree, parent)
      /\ start \in NodeTrees(S, V) /\ IsPart(start, up, src, tree, parent)
      /\ to \in 1 .. size /\ IsListOf(kids, Kids(parent, src[to]))
      /\ \A k \in 1 .. Len(kids) : \A j \in 1 .. size : src[j] # kids[k]
  BY DEF Adding
<1>2. t \in NodeTrees(S, V)
  BY DEF AddedTo
<1>3. PICK more, from : IsPart(t, more, from, tree, parent) /\ HasAdded(t, more, from, n, start, up, src, to, kids)
  BY DEF AddedTo
<1>4. /\ Size(t) = size + n
      /\ \A j \in 1 .. size : from[j] = src[j]
      /\ \A j \in 2 .. size : more[j] = up[j]
      /\ \A k \in 1 .. n : from[size + k] = kids[k] /\ more[size + k] = to
  BY <1>3 DEF HasAdded
<1>5. size \in Nat /\ size >= 1 /\ Len(kids) \in Nat /\ n \in Nat /\ n + 1 \in 1 .. Len(kids)
  <2>1. Len(kids) \in Nat
    BY <1>1 DEF IsListOf
  <2>2. size \in Nat /\ size >= 1
    BY <1>1 DEF IsPart, Shape
  <2>3. QED
    BY <2>1, <2>2
<1> HIDE DEF size
<1>6. kid \in Kids(parent, from[to])
  BY <1>1, <1>4, <1>5 DEF IsListOf
<1>7. to \in 1 .. Size(t)
  BY <1>1, <1>4, <1>5
<1>8. ASSUME NEW j \in 1 .. Size(t) PROVE from[j] # kid
  <2>1. CASE j \in 1 .. size
    BY <1>1, <1>4, <1>5, <2>1
  <2>2. CASE j \notin 1 .. size
    <3>1. j - size \in 1 .. n /\ j = size + (j - size)
      BY <1>4, <1>5, <2>2
    <3>2. from[j] = kids[j - size]
      BY <1>4, <3>1
    <3>3. Kids(parent, src[to]) \subseteq Nat
      <4>1. DOMAIN parent = 2 .. Size(tree)
        BY <1>1, ShapeItems
      <4>2. QED
        BY <4>1 DEF Kids
    <3>4. j - size \in 1 .. Len(kids) /\ j - size < n + 1
      BY <1>5, <3>1
    <3>5. kids[j - size] < kids[n + 1]
      BY <1>1, <1>5, <3>3, <3>4, ListAscends
    <3>6. kids[j - size] \in Nat /\ kids[n + 1] \in Nat
      BY <1>1, <1>5, <3>3, <3>4 DEF IsListOf
    <3>7. QED
      BY <3>2, <3>5, <3>6
  <2>3. QED
    BY <2>1, <2>2
<1> DEFINE above == WithChild(more, Size(t) + 1, to)
           source == WithSource(from, Size(t) + 1, kid)
<1> HIDE DEF kid
<1>9. /\ new \in NodeTrees(S, V) /\ Size(new) = Size(t) + 1
      /\ IsPart(new, above, source, tree, parent)
  BY <1>1, <1>2, <1>3, <1>6, <1>7, <1>8, CopyKidPart
<1>10. /\ source[Size(t) + 1] = kid /\ above[Size(t) + 1] = to
       /\ \A j \in 1 .. Size(t) : source[j] = from[j]
       /\ \A j \in 2 .. Size(t) : above[j] = more[j]
  BY <1>4, <1>5 DEF WithSource, WithChild
<1> HIDE DEF new, above, source
<1>11. HasAdded(new, above, source, n + 1, start, up, src, to, kids)
  <2>1. Size(new) = size + (n + 1)
    BY <1>4, <1>5, <1>9
  <2>2. \A j \in 1 .. size : source[j] = src[j]
    BY <1>4, <1>5, <1>10
  <2>3. \A j \in 2 .. size : above[j] = up[j]
    BY <1>4, <1>5, <1>10
  <2>4. ASSUME NEW k \in 1 .. n + 1
        PROVE  source[size + k] = kids[k] /\ above[size + k] = to
    <3>1. CASE k = n + 1
      <4>1. size + k = Size(t) + 1
        BY <1>4, <1>5, <3>1
      <4>2. QED
        BY <1>10, <3>1, <4>1 DEF kid
    <3>2. CASE k # n + 1
      <4>1. k \in 1 .. n /\ size + k \in 1 .. Size(t) /\ size + k \in 2 .. Size(t)
        BY <1>4, <1>5, <3>2
      <4>2. QED
        BY <1>4, <1>10, <4>1
    <3>3. QED
      BY <3>1, <3>2
  <2>5. QED
    BY <2>1, <2>2, <2>3, <2>4 DEF HasAdded, size
<1>12. QED
  BY <1>9, <1>11 DEF AddedTo, new, kid

LEMMA AllAdded ==
  ASSUME NEW start, NEW up, NEW src, NEW to, NEW kids, NEW tree, NEW parent, NEW S, NEW V,
         Adding(start, up, src, to, kids, tree, parent, S, V),
         NEW added, IsAdding(added, start, to, tree, kids)
  PROVE  AddedTo(added[Len(kids)], Len(kids), start, up, src, to, kids, tree, parent, S, V)
<1> DEFINE P == {n \in 0 .. Len(kids) : AddedTo(added[n], n, start, up, src, to, kids, tree, parent, S, V)}
<1>1. Len(kids) \in Nat /\ Size(start) \in Nat
  BY DEF Adding, IsListOf, IsPart, Shape
<1>2. added[0] = start /\ \A n \in 1 .. Len(kids) : added[n] = CopyKid(added[n - 1], to, tree, kids[n])
  <2>1. 0 \in 0 .. Len(kids) /\ \A n \in 1 .. Len(kids) : n \in 0 .. Len(kids) /\ n # 0
    BY <1>1
  <2>2. QED
    BY <2>1 DEF IsAdding
<1>3. 0 \in P
  <2>1. HasAdded(start, up, src, 0, start, up, src, to, kids)
    BY <1>1 DEF HasAdded
  <2>2. AddedTo(start, 0, start, up, src, to, kids, tree, parent, S, V)
    BY <2>1 DEF AddedTo, Adding
  <2>3. QED
    BY <1>1, <1>2, <2>2
<1>4. ASSUME NEW n \in 0 .. Len(kids) - 1, n \in P
      PROVE  n + 1 \in P
  <2>1. n + 1 \in 1 .. Len(kids) /\ n + 1 \in 0 .. Len(kids) /\ (n + 1) - 1 = n
    BY <1>1
  <2>2. added[n + 1] = CopyKid(added[n], to, tree, kids[n + 1])
    BY <1>2, <2>1
  <2>3. AddedTo(CopyKid(added[n], to, tree, kids[n + 1]), n + 1, start, up, src, to, kids, tree, parent, S, V)
    BY <1>4, AddedNext
  <2>4. QED
    BY <2>1, <2>2, <2>3
<1>5. 0 .. Len(kids) \subseteq P
  <2> HIDE DEF P
  <2>1. QED
    BY <1>1, <1>3, <1>4, UpTo
<1>6. QED
  BY <1>1, <1>5

-----------------------------------------------------------------------------
(* The nodes copied whose kids are not are on the stack, the others done.  *)
Entries == [from : Nat, to : Nat]

Top(copy) == copy.stack[Len(copy.stack)]

InCopy(copy, up, src, done, tree, parent, S, V) ==
  /\ copy.tree \in NodeTrees(S, V) /\ IsPart(copy.tree, up, src, tree, parent)
  /\ copy.stack \in Seq(Entries)
  /\ \A a \in 1 .. Len(copy.stack) :
       /\ copy.stack[a].to \in 1 .. Size(copy.tree) /\ src[copy.stack[a].to] = copy.stack[a].from
       /\ copy.stack[a].to \notin done
  /\ \A a, b \in 1 .. Len(copy.stack) : copy.stack[a].to = copy.stack[b].to => a = b
  /\ done \subseteq 1 .. Size(copy.tree)
  /\ \A j \in 1 .. Size(copy.tree) : j \in done \/ \E a \in 1 .. Len(copy.stack) : copy.stack[a].to = j
  /\ \A j \in 2 .. Size(copy.tree) : up[j] \in done
  /\ \A d \in done : \A c \in Kids(parent, src[d]) : \E j \in 1 .. Size(copy.tree) : src[j] = c

(* The beginning of a sequence, two sequences one after the other.         *)
LEMMA Cut ==
  ASSUME NEW R, NEW s \in Seq(R), NEW n \in 0 .. Len(s)
  PROVE  SubSeq(s, 1, n) \in Seq(R) /\ Len(SubSeq(s, 1, n)) = n /\ \A i \in 1 .. n : SubSeq(s, 1, n)[i] = s[i]
<1>1. Len(s) \in Nat /\ n \in Nat
  OBVIOUS
<1>2. Len(SubSeq(s, 1, n)) = n
  BY <1>1
<1>3. \A i \in 1 .. n : SubSeq(s, 1, n)[i] = s[i]
  BY <1>1
<1>4. SubSeq(s, 1, n) \in Seq(R)
  BY <1>1
<1>5. QED
  BY <1>2, <1>3, <1>4

LEMMA Joined ==
  ASSUME NEW R, NEW s \in Seq(R), NEW t \in Seq(R)
  PROVE  /\ s \o t \in Seq(R) /\ Len(s \o t) = Len(s) + Len(t)
         /\ \A i \in 1 .. Len(s) : (s \o t)[i] = s[i]
         /\ \A i \in 1 .. Len(t) : (s \o t)[Len(s) + i] = t[i]
<1>1. s \o t \in Seq(R)
  OBVIOUS
<1>2. Len(s \o t) = Len(s) + Len(t)
  OBVIOUS
<1>3. \A i \in 1 .. Len(s) : (s \o t)[i] = s[i]
  OBVIOUS
<1>4. \A i \in 1 .. Len(t) : (s \o t)[Len(s) + i] = t[i]
  OBVIOUS
<1>5. QED
  BY <1>1, <1>2, <1>3, <1>4

LEMMA Numbered ==
  ASSUME NEW R, NEW n \in Nat, NEW f \in [1 .. n -> R]
  PROVE  f \in Seq(R) /\ Len(f) = n
<1>1. f \in Seq(R)
  OBVIOUS
<1>2. QED
  BY <1>1

(* What becomes of the stack.                                              *)
IsNextStack(new, old, kids, size) ==
  /\ new \in Seq(Entries) /\ Len(new) = Len(old) - 1 + Len(kids)
  /\ \A a \in 1 .. Len(old) - 1 : new[a] = old[a]
  /\ \A k \in 1 .. Len(kids) : new[Len(old) - 1 + k] = [from |-> kids[k], to |-> size + k]

LEMMA NextStack ==
  ASSUME NEW old \in Seq(Entries), Len(old) >= 1, NEW kids, Len(kids) \in Nat, DOMAIN kids = 1 .. Len(kids),
         \A k \in 1 .. Len(kids) : kids[k] \in Nat, NEW size \in Nat
  PROVE  IsNextStack(SubSeq(old, 1, Len(old) - 1) \o [k \in DOMAIN kids |-> [from |-> kids[k], to |-> size + k]],
                     old, kids, size)
<1> DEFINE head == SubSeq(old, 1, Len(old) - 1)
           tail == [k \in 1 .. Len(kids) |-> [from |-> kids[k], to |-> size + k]]
<1>1. head \in Seq(Entries) /\ Len(head) = Len(old) - 1 /\ \A a \in 1 .. Len(old) - 1 : head[a] = old[a]
  <2>1. Len(old) - 1 \in 0 .. Len(old)
    OBVIOUS
  <2>2. QED
    BY <2>1, Cut
<1>2. \A k \in 1 .. Len(kids) : [from |-> kids[k], to |-> size + k] \in Entries
  BY DEF Entries
<1>3. tail \in Seq(Entries) /\ Len(tail) = Len(kids)
      /\ \A k \in 1 .. Len(kids) : tail[k] = [from |-> kids[k], to |-> size + k]
  <2>1. tail \in [1 .. Len(kids) -> Entries]
    BY <1>2
  <2>2. \A k \in 1 .. Len(kids) : tail[k] = [from |-> kids[k], to |-> size + k]
    OBVIOUS
  <2> HIDE DEF tail
  <2>3. QED
    BY <2>1, <2>2, Numbered
<1> HIDE DEF head, tail
<1>4. head \o tail \in Seq(Entries) /\ Len(head \o tail) = Len(head) + Len(tail)
      /\ (\A a \in 1 .. Len(head) : (head \o tail)[a] = head[a])
      /\ \A k \in 1 .. Len(tail) : (head \o tail)[Len(head) + k] = tail[k]
  <2>1. head \in Seq(Entries) /\ tail \in Seq(Entries)
    BY <1>1, <1>3
  <2>2. QED
    BY <2>1, Joined
<1>5. IsNextStack(head \o tail, old, kids, size)
  BY <1>1, <1>3, <1>4 DEF IsNextStack
<1>6. QED
  BY <1>5 DEF head, tail

(* CopyChildren: the node on the top of the stack is done.                 *)
NextCopy(new, copy, tree, parent, up, src, to, kids, S, V) ==
  /\ AddedTo(new.tree, Len(kids), copy.tree, up, src, to, kids, tree, parent, S, V)
  /\ IsNextStack(new.stack, copy.stack, kids, Size(copy.tree))

LEMMA CopyChildrenAdds ==
  ASSUME NEW tree, NEW parent, NEW S, NEW V, tree \in NodeTrees(S, V), Shape(tree, parent),
         NEW copy, NEW up, NEW src, NEW done, InCopy(copy, up, src, done, tree, parent, S, V),
         Len(copy.stack) >= 1
  PROVE  NextCopy(CopyChildren(tree, copy), copy, tree, parent, up, src,
                  Top(copy).to, Children(tree, Top(copy).from), S, V)
<1> DEFINE from == Top(copy).from
           to == Top(copy).to
           kids == Children(tree, from)
           size == Size(copy.tree)
           top == Len(copy.stack)
           added == CHOOSE f : IsAdding(f, copy.tree, to, tree, kids)
           stack == SubSeq(copy.stack, 1, Len(copy.stack) - 1)
                      \o [k \in DOMAIN kids |-> [from |-> kids[k], to |-> Len(copy.tree.ar) + k]]
<1>1. /\ copy.tree \in NodeTrees(S, V) /\ IsPart(copy.tree, up, src, tree, parent)
      /\ copy.stack \in Seq(Entries)
      /\ \A a \in 1 .. Len(copy.stack) :
           /\ copy.stack[a].to \in 1 .. size /\ src[copy.stack[a].to] = copy.stack[a].from
           /\ copy.stack[a].to \notin done
      /\ \A j \in 2 .. size : up[j] \in done
  BY DEF InCopy
<1>2. top \in 1 .. Len(copy.stack)
  BY <1>1
<1>3. to \in 1 .. size /\ src[to] = from /\ to \notin done
  BY <1>1, <1>2 DEF Top
<1>4. /\ Shape(copy.tree, up) /\ src \in [1 .. size -> 1 .. Size(tree)] /\ src[1] = 1
      /\ \A i, j \in 1 .. size : src[i] = src[j] => i = j
      /\ \A j \in 2 .. size : src[j] \in 2 .. Size(tree) /\ parent[src[j]] = src[up[j]]
  BY <1>1 DEF IsPart
<1>5. size \in Nat /\ size >= 1 /\ up \in [2 .. size -> 1 .. size]
  BY <1>1, <1>4, ShapeItems
<1>6. Size(tree) \in Nat /\ parent \in [2 .. Size(tree) -> 1 .. Size(tree)]
  BY ShapeItems
<1>7. from \in 1 .. Size(tree)
  BY <1>3, <1>4
<1> HIDE DEF kids, from
<1>8. IsListOf(kids, Kids(parent, from))
  BY <1>7, ChildrenAreKids DEF kids
<1>9. /\ Len(kids) \in Nat /\ DOMAIN kids = 1 .. Len(kids)
      /\ \A k \in 1 .. Len(kids) : kids[k] \in Kids(parent, from)
  BY <1>8 DEF IsListOf
<1>10. ASSUME NEW k \in 1 .. Len(kids), NEW j \in 1 .. size
       PROVE  src[j] # kids[k]
  <2> SUFFICES ASSUME src[j] = kids[k] PROVE FALSE
    OBVIOUS
  <2>1. kids[k] \in 2 .. Size(tree) /\ parent[kids[k]] = from
    BY <1>6, <1>9 DEF Kids
  <2>2. j # 1
    BY <1>4, <2>1
  <2>3. j \in 2 .. size /\ up[j] \in 1 .. size
    BY <1>5, <2>2
  <2>4. src[up[j]] = src[to]
    BY <1>3, <1>4, <2>1, <2>3
  <2>5. up[j] = to
    BY <1>3, <1>4, <2>3, <2>4
  <2>6. QED
    BY <1>1, <1>3, <2>3, <2>5
<1>11. Adding(copy.tree, up, src, to, kids, tree, parent, S, V)
  BY <1>1, <1>3, <1>8, <1>10 DEF Adding
<1>12. IsAdding(added, copy.tree, to, tree, kids)
  BY <1>9, AddingExists
<1>13. CopyChildren(tree, copy) = [tree |-> added[Len(kids)], stack |-> stack]
  BY DEF CopyChildren, IsAdding, CopyKid, kids, from, Top
<1> HIDE DEF added
<1>14. AddedTo(added[Len(kids)], Len(kids), copy.tree, up, src, to, kids, tree, parent, S, V)
  BY <1>11, <1>12, AllAdded
<1>15. IsNextStack(stack, copy.stack, kids, size)
  <2>1. \A k \in 1 .. Len(kids) : kids[k] \in Nat
    BY <1>6, <1>9 DEF Kids
  <2>2. size = Len(copy.tree.ar)
    BY DEF Size
  <2> HIDE DEF size
  <2>3. QED
    BY <1>1, <1>5, <1>9, <2>1, <2>2, NextStack
<1> HIDE DEF stack
<1>16. QED
  BY <1>13, <1>14, <1>15 DEF NextCopy, kids, from

LEMMA CopyStep ==
  ASSUME NEW tree, NEW parent, NEW S, NEW V, tree \in NodeTrees(S, V), Shape(tree, parent),
         NEW copy, NEW up, NEW src, NEW done, InCopy(copy, up, src, done, tree, parent, S, V),
         Len(copy.stack) >= 1, NEW new, NEW kids, IsListOf(kids, Kids(parent, Top(copy).from)),
         NextCopy(new, copy, tree, parent, up, src, Top(copy).to, kids, S, V)
  PROVE  /\ Top(copy).to \notin done
         /\ \E more, source : InCopy(new, more, source, done \cup {Top(copy).to}, tree, parent, S, V)
<1> DEFINE from == Top(copy).from
           to == Top(copy).to
           size == Size(copy.tree)
           n == Len(kids)
           old == copy.stack
           top == Len(old)
           all == done \cup {to}
<1>1. /\ copy.tree \in NodeTrees(S, V) /\ IsPart(copy.tree, up, src, tree, parent)
      /\ old \in Seq(Entries)
      /\ \A a \in 1 .. top :
           /\ old[a].to \in 1 .. size /\ src[old[a].to] = old[a].from
           /\ old[a].to \notin done
      /\ \A a, b \in 1 .. top : old[a].to = old[b].to => a = b
      /\ done \subseteq 1 .. size
      /\ \A j \in 1 .. size : j \in done \/ \E a \in 1 .. top : old[a].to = j
      /\ \A j \in 2 .. size : up[j] \in done
      /\ \A d \in done : \A c \in Kids(parent, src[d]) : \E j \in 1 .. size : src[j] = c
  BY DEF InCopy
<1>2. top \in Nat /\ top >= 1 /\ top \in 1 .. top
  BY <1>1
<1>3. to = old[top].to /\ from = old[top].from /\ to \in 1 .. size /\ src[to] = from /\ to \notin done
  BY <1>1, <1>2 DEF Top
<1>4. size \in Nat /\ size >= 1
  BY <1>1 DEF IsPart, Shape
<1>5. /\ n \in Nat
      /\ \A k \in 1 .. n : kids[k] \in Kids(parent, from)
      /\ \A i \in Kids(parent, from) : \E k \in 1 .. n : kids[k] = i
  BY DEF IsListOf
<1>6. new.tree \in NodeTrees(S, V) /\ IsNextStack(new.stack, old, kids, size)
  BY DEF NextCopy, AddedTo
<1>7. PICK more, source : /\ IsPart(new.tree, more, source, tree, parent)
                          /\ HasAdded(new.tree, more, source, n, copy.tree, up, src, to, kids)
  BY DEF NextCopy, AddedTo
<1>8. /\ Size(new.tree) = size + n
      /\ \A j \in 1 .. size : source[j] = src[j]
      /\ \A j \in 2 .. size : more[j] = up[j]
      /\ \A k \in 1 .. n : source[size + k] = kids[k] /\ more[size + k] = to
  BY <1>7 DEF HasAdded
<1>9. /\ new.stack \in Seq(Entries) /\ Len(new.stack) = top - 1 + n
      /\ \A a \in 1 .. top - 1 : new.stack[a] = old[a]
      /\ \A k \in 1 .. n : new.stack[top - 1 + k] = [from |-> kids[k], to |-> size + k]
  BY <1>6 DEF IsNextStack
<1> DEFINE stack == new.stack
<1> HIDE DEF from, to, size, n, old, top
<1>10. ASSUME NEW k \in 1 .. n
       PROVE  new.stack[top - 1 + k].from = kids[k] /\ new.stack[top - 1 + k].to = size + k
  <2>1. new.stack[top - 1 + k] = [from |-> kids[k], to |-> size + k]
    BY <1>9
  <2>2. QED
    BY <2>1
<1> HIDE DEF stack
<1>11. /\ Len(stack) = top - 1 + n
       /\ \A a \in 1 .. top - 1 : stack[a].to = old[a].to /\ stack[a].from = old[a].from
       /\ \A k \in 1 .. n : stack[top - 1 + k].from = kids[k] /\ stack[top - 1 + k].to = size + k
  BY <1>9, <1>10 DEF stack
<1>12. \A a \in 1 .. Len(stack) : a \in 1 .. top - 1 \/ \E k \in 1 .. n : a = top - 1 + k
  <2> SUFFICES ASSUME NEW a \in 1 .. Len(stack), a \notin 1 .. top - 1
               PROVE  \E k \in 1 .. n : a = top - 1 + k
    OBVIOUS
  <2>1. a - (top - 1) \in 1 .. n /\ a = top - 1 + (a - (top - 1))
    BY <1>2, <1>5, <1>11
  <2>2. QED
    BY <2>1
<1>13. \A j \in 1 .. size + n : j \in 1 .. size \/ \E k \in 1 .. n : j = size + k
  <2> SUFFICES ASSUME NEW j \in 1 .. size + n, j \notin 1 .. size
               PROVE  \E k \in 1 .. n : j = size + k
    OBVIOUS
  <2>1. j - size \in 1 .. n /\ j = size + (j - size)
    BY <1>4, <1>5
  <2>2. QED
    BY <2>1
<1>14. ASSUME NEW a \in 1 .. Len(stack)
       PROVE  /\ stack[a].to \in 1 .. size + n /\ source[stack[a].to] = stack[a].from
              /\ stack[a].to \notin all
  <2>1. CASE a \in 1 .. top - 1
    <3>1. a \in 1 .. top /\ a # top
      BY <1>2, <2>1
    <3>2. old[a].to # to
      BY <1>1, <1>2, <1>3, <3>1
    <3>3. old[a].to \in 1 .. size /\ old[a].to \in 1 .. size + n /\ src[old[a].to] = old[a].from /\ old[a].to \notin done
      BY <1>1, <1>4, <1>5, <3>1
    <3>4. QED
      BY <1>8, <1>11, <2>1, <3>2, <3>3
  <2>2. ASSUME NEW k \in 1 .. n, a = top - 1 + k
        PROVE  /\ stack[a].to \in 1 .. size + n /\ source[stack[a].to] = stack[a].from
               /\ stack[a].to \notin all
    <3>1. stack[a].to = size + k /\ stack[a].from = kids[k]
      BY <1>11, <2>2
    <3>2. size + k \in 1 .. size + n /\ size + k \notin 1 .. size
      BY <1>4, <1>5
    <3>3. size + k \notin all
      BY <1>1, <1>3, <3>2
    <3>4. QED
      BY <1>8, <3>1, <3>2, <3>3
  <2>3. QED
    BY <1>12, <2>1, <2>2
<1>15. ASSUME NEW a \in 1 .. Len(stack), NEW b \in 1 .. Len(stack), stack[a].to = stack[b].to
       PROVE  a = b
  <2>1. \A c \in 1 .. top - 1 : c \in 1 .. top /\ stack[c].to = old[c].to /\ stack[c].to \in 1 .. size
    BY <1>1, <1>2, <1>11
  <2>2. \A k \in 1 .. n : stack[top - 1 + k].to = size + k /\ size + k \notin 1 .. size
    BY <1>4, <1>5, <1>11
  <2>3. CASE a \in 1 .. top - 1 /\ b \in 1 .. top - 1
    BY <1>1, <1>15, <2>1, <2>3
  <2>4. CASE a \notin 1 .. top - 1 /\ b \notin 1 .. top - 1
    <3>1. PICK k \in 1 .. n : a = top - 1 + k
      BY <1>12, <2>4
    <3>2. PICK m \in 1 .. n : b = top - 1 + m
      BY <1>12, <2>4
    <3>3. size + k = size + m
      BY <1>15, <2>2, <3>1, <3>2
    <3>4. QED
      BY <1>4, <3>1, <3>2, <3>3
  <2>5. CASE a \in 1 .. top - 1 /\ b \notin 1 .. top - 1
    BY <1>12, <1>15, <2>1, <2>2, <2>5
  <2>6. CASE a \notin 1 .. top - 1 /\ b \in 1 .. top - 1
    BY <1>12, <1>15, <2>1, <2>2, <2>6
  <2>7. QED
    BY <2>3, <2>4, <2>5, <2>6
<1>16. all \subseteq 1 .. size + n
  <2>1. 1 .. size \subseteq 1 .. size + n
    BY <1>4, <1>5
  <2>2. done \subseteq 1 .. size /\ to \in 1 .. size
    BY <1>1, <1>3
  <2>3. QED
    BY <2>1, <2>2 DEF all
<1>17. ASSUME NEW j \in 1 .. size + n
       PROVE  j \in all \/ \E a \in 1 .. Len(stack) : stack[a].to = j
  <2>1. CASE j \in 1 .. size
    <3>1. CASE j \in done
      BY <3>1
    <3>2. CASE j \notin done
      <4>1. PICK a \in 1 .. top : old[a].to = j
        BY <1>1, <2>1, <3>2
      <4>2. CASE a = top
        BY <1>3, <4>1, <4>2
      <4>3. CASE a # top
        <5>1. a \in 1 .. top - 1 /\ a \in 1 .. Len(stack)
          BY <1>2, <1>5, <1>11, <4>3
        <5>2. QED
          BY <1>11, <4>1, <5>1
      <4>4. QED
        BY <4>2, <4>3
    <3>3. QED
      BY <3>1, <3>2
  <2>2. ASSUME NEW k \in 1 .. n, j = size + k
        PROVE  \E a \in 1 .. Len(stack) : stack[a].to = j
    <3>1. top - 1 + k \in 1 .. Len(stack)
      BY <1>2, <1>5, <1>11
    <3>2. QED
      BY <1>11, <2>2, <3>1
  <2>3. QED
    BY <1>13, <2>1, <2>2
<1>18. ASSUME NEW j \in 2 .. size + n
       PROVE  more[j] \in all
  <2>1. j \in 1 .. size + n
    OBVIOUS
  <2>2. CASE j \in 1 .. size
    <3>1. j \in 2 .. size
      BY <1>4, <2>2
    <3>2. QED
      BY <1>1, <1>8, <3>1
  <2>3. CASE j \notin 1 .. size
    BY <1>8, <1>13, <2>1, <2>3
  <2>4. QED
    BY <2>2, <2>3
<1>19. ASSUME NEW d \in all, NEW c \in Kids(parent, source[d])
       PROVE  \E j \in 1 .. size + n : source[j] = c
  <2>1. d \in 1 .. size /\ source[d] = src[d]
    BY <1>1, <1>3, <1>8
  <2>2. CASE d \in done
    <3>1. PICK j \in 1 .. size : src[j] = c
      BY <1>1, <1>19, <2>1, <2>2
    <3>2. j \in 1 .. size + n /\ source[j] = c
      BY <1>4, <1>5, <1>8, <3>1
    <3>3. QED
      BY <3>2
  <2>3. CASE d = to
    <3>1. PICK k \in 1 .. n : kids[k] = c
      BY <1>3, <1>5, <1>19, <2>1, <2>3
    <3>2. size + k \in 1 .. size + n
      BY <1>4, <1>5
    <3>3. QED
      BY <1>8, <3>1, <3>2
  <2>4. QED
    BY <2>2, <2>3
<1> HIDE DEF all
<1>20. InCopy(new, more, source, all, tree, parent, S, V)
  BY <1>6, <1>7, <1>8, <1>9, <1>14, <1>15, <1>16, <1>17, <1>18, <1>19 DEF InCopy, stack
<1>21. QED
  BY <1>3, <1>20 DEF all, to

StartCopy(tree) == [tree |-> NewTree(tree.ar[1].value), stack |-> <<[from |-> 1, to |-> 1]>>]

LEMMA StartInCopy ==
  ASSUME NEW S, NEW V, NEW tree \in NodeTrees(S, V), NEW parent, Shape(tree, parent),
         tree.ar[1].scope = Root
  PROVE  InCopy(StartCopy(tree), [i \in 2 .. 1 |-> 1], [i \in 1 .. 1 |-> 1], {}, tree, parent, S, V)
<1> DEFINE value == tree.ar[1].value
           new == NewTree(value)
           up == [i \in 2 .. 1 |-> 1]
           src == [i \in 1 .. 1 |-> 1]
           stack == <<[from |-> 1, to |-> 1]>>
<1>1. Size(tree) \in Nat /\ 1 \in 1 .. Size(tree) /\ tree.ar[1] \in Records(S, V)
  BY ShapeItems
<1>2. Root \in S /\ value \in V
  BY <1>1 DEF Records
<1> HIDE DEF value
<1>3. /\ new \in NodeTrees(S, V) /\ Size(new) = 1
      /\ new.ar[1].scope = Root /\ new.ar[1].value = value /\ Shape(new, up)
  BY <1>2, NewTreeShape
<1> HIDE DEF new, up
<1>4. src \in [1 .. 1 -> 1 .. Size(tree)] /\ src[1] = 1 /\ \A i \in 1 .. 1 : i = 1
  BY <1>1
<1> HIDE DEF src
<1>5. \A i \in 2 .. 1 : FALSE
  OBVIOUS
<1>6. IsPart(new, up, src, tree, parent)
  BY <1>3, <1>4, <1>5 DEF IsPart, value
<1>7. stack \in Seq(Entries) /\ Len(stack) = 1 /\ stack[1] = [from |-> 1, to |-> 1]
  <2>1. [from |-> 1, to |-> 1] \in Entries
    BY DEF Entries
  <2>2. QED
    BY <2>1
<1>8. stack[1].to = 1 /\ stack[1].from = 1
  BY <1>7
<1> HIDE DEF stack
<1>9. StartCopy(tree).tree = new /\ StartCopy(tree).stack = stack
  BY DEF StartCopy, new, stack, value
<1>10. QED
  BY <1>3, <1>4, <1>5, <1>6, <1>7, <1>8, <1>9 DEF InCopy, up, src

(* Everything is copied when the stack is empty.                           *)
AllCopied(t, src, tree) == \A i \in 1 .. Size(tree) : \E j \in 1 .. Size(t) : src[j] = i

LEMMA NothingOpen ==
  ASSUME NEW tree, NEW parent, NEW S, NEW V, Shape(tree, parent),
         NEW copy, NEW up, NEW src, NEW done, InCopy(copy, up, src, done, tree, parent, S, V),
         Len(copy.stack) = 0
  PROVE  done = 1 .. Size(copy.tree) /\ AllCopied(copy.tree, src, tree)
<1> DEFINE size == Size(copy.tree)
           N == Size(tree)
           P == {k \in 0 .. N : \A i \in 1 .. k : \E j \in 1 .. size : src[j] = i}
<1>1. /\ done \subseteq 1 .. size /\ \A j \in 1 .. size : j \in done
      /\ \A d \in done : \A c \in Kids(parent, src[d]) : \E j \in 1 .. size : src[j] = c
      /\ src[1] = 1 /\ size \in Nat /\ size >= 1
  <2>1. \A a \in 1 .. Len(copy.stack) : FALSE
    OBVIOUS
  <2>2. QED
    BY <2>1 DEF InCopy, IsPart, Shape
<1>2. /\ N \in Nat /\ parent \in [2 .. N -> 1 .. N] /\ \A i \in 2 .. N : parent[i] < i
  BY DEF Shape
<1> HIDE DEF size, N
<1>3. 0 \in P
  BY <1>2
<1>4. ASSUME NEW k \in 0 .. N - 1, k \in P
      PROVE  k + 1 \in P
  <2>1. k \in Nat /\ k + 1 \in 0 .. N /\ \A i \in 1 .. k + 1 : i = k + 1 \/ i \in 1 .. k
    BY <1>2
  <2>2. \E j \in 1 .. size : src[j] = k + 1
    <3>1. CASE k = 0
      BY <1>1, <3>1
    <3>2. CASE k # 0
      <4>1. k + 1 \in 2 .. N /\ parent[k + 1] \in 1 .. N /\ parent[k + 1] < k + 1
        BY <1>2, <2>1, <3>2
      <4>2. parent[k + 1] \in 1 .. k
        BY <2>1, <4>1
      <4>3. PICK j \in 1 .. size : src[j] = parent[k + 1]
        BY <1>4, <4>2
      <4>4. j \in done /\ k + 1 \in Kids(parent, src[j])
        BY <1>1, <1>2, <4>1, <4>3 DEF Kids
      <4>5. QED
        BY <1>1, <4>4
    <3>3. QED
      BY <3>1, <3>2
  <2>3. QED
    BY <1>4, <2>1, <2>2
<1>5. 0 .. N \subseteq P
  <2> HIDE DEF P
  <2>1. QED
    BY <1>2, <1>3, <1>4, UpTo
<1>6. \A i \in 1 .. N : \E j \in 1 .. size : src[j] = i
  BY <1>2, <1>5
<1>7. QED
  BY <1>1, <1>6 DEF size, N, AllCopied

(* The number of nodes of a copy.                                          *)
LEMMA PartCount ==
  ASSUME NEW t, NEW up, NEW src, NEW tree, NEW parent, IsPart(t, up, src, tree, parent), Size(tree) \in Nat
  PROVE  /\ Size(t) \in Nat /\ Size(t) <= Size(tree)
         /\ Size(t) = Size(tree) <=> AllCopied(t, src, tree)
<1> DEFINE A == 1 .. Size(t)
           B == 1 .. Size(tree)
<1>1. Size(t) \in Nat /\ src \in [A -> B] /\ \A i, j \in A : src[i] = src[j] => i = j
  BY DEF IsPart, Shape
<1>2. IsFiniteSet(B) /\ Cardinality(B) = Size(tree) /\ Cardinality(A) = Size(t)
  <2>1. \A n \in Nat : IsFiniteSet(1 .. n) /\ Cardinality(1 .. n) = n
    BY FS_Interval
  <2>2. QED
    BY <1>1, <2>1
<1> HIDE DEF A, B
<1>3. src \in Injection(A, B)
  BY <1>1 DEF Injection, IsInjective
<1>4. Cardinality(A) <= Cardinality(B) /\ (Cardinality(A) = Cardinality(B) <=> src \in Surjection(A, B))
  BY <1>2, <1>3, FS_Injection
<1>5. src \in Surjection(A, B) <=> \A i \in B : \E j \in A : src[j] = i
  BY <1>1 DEF Surjection
<1>6. QED
  BY <1>1, <1>2, <1>4, <1>5 DEF A, B, AllCopied

(* A step for each node.                                                   *)
IsCopying(copied, tree) ==
  copied = [n \in 0 .. Len(tree.ar) |-> IF n = 0 THEN StartCopy(tree) ELSE CopyChildren(tree, copied[n - 1])]

IsCopyingTo(copied, k, tree) ==
  copied[0] = StartCopy(tree) /\ \A n \in 1 .. k : copied[n] = CopyChildren(tree, copied[n - 1])

LEMMA CopyingExists ==
  ASSUME NEW tree, Len(tree.ar) \in Nat
  PROVE  \E copied : IsCopying(copied, tree)
<1> DEFINE size == Len(tree.ar)
           P == {k \in Nat : \E copied : IsCopyingTo(copied, k, tree)}
<1>1. 0 \in P
  <2> DEFINE copied == [n \in 0 .. 0 |-> StartCopy(tree)]
  <2>1. copied[0] = StartCopy(tree)
    OBVIOUS
  <2> HIDE DEF copied
  <2>2. IsCopyingTo(copied, 0, tree)
    BY <2>1 DEF IsCopyingTo
  <2>3. QED
    BY <2>2
<1>2. ASSUME NEW k \in 0 .. size - 1, k \in P
      PROVE  k + 1 \in P
  <2>1. PICK copied : IsCopyingTo(copied, k, tree)
    BY <1>2
  <2> DEFINE more == [n \in 0 .. k + 1 |-> IF n = 0 THEN StartCopy(tree) ELSE CopyChildren(tree, copied[n - 1])]
  <2>2. k \in Nat /\ 0 \in 0 .. k + 1
    OBVIOUS
  <2>3. more[0] = StartCopy(tree)
    BY <2>2
  <2>4. ASSUME NEW n \in 1 .. k + 1 PROVE more[n] = CopyChildren(tree, more[n - 1])
    <3>1. more[n] = CopyChildren(tree, copied[n - 1])
      BY <2>2
    <3>2. more[n - 1] = copied[n - 1]
      <4>1. CASE n = 1
        BY <2>1, <2>2, <4>1 DEF IsCopyingTo
      <4>2. CASE n # 1
        <5>1. n - 1 \in 1 .. k /\ n - 1 \in 0 .. k + 1 /\ n - 1 # 0
          BY <2>2, <4>2
        <5>2. more[n - 1] = CopyChildren(tree, copied[n - 1 - 1])
          BY <5>1
        <5>3. copied[n - 1] = CopyChildren(tree, copied[n - 1 - 1])
          BY <2>1, <5>1 DEF IsCopyingTo
        <5>4. QED
          BY <5>2, <5>3
      <4>3. QED
        BY <4>1, <4>2
    <3>3. QED
      BY <3>1, <3>2
  <2> HIDE DEF more
  <2>5. IsCopyingTo(more, k + 1, tree)
    BY <2>3, <2>4 DEF IsCopyingTo
  <2>6. QED
    BY <2>2, <2>5
<1>3. size \in P
  <2> HIDE DEF P
  <2>1. 0 .. size \subseteq P
    BY <1>1, <1>2, UpTo
  <2>2. QED
    BY <2>1
<1>4. PICK steps : IsCopyingTo(steps, size, tree)
  BY <1>3
<1> DEFINE copied == [n \in 0 .. size |-> steps[n]]
           again == [n \in 0 .. size |-> IF n = 0 THEN StartCopy(tree) ELSE CopyChildren(tree, copied[n - 1])]
<1>5. ASSUME NEW n \in 0 .. size
      PROVE  copied[n] = again[n]
  <2>1. CASE n = 0
    BY <1>4, <2>1 DEF IsCopyingTo
  <2>2. CASE n # 0
    <3>1. n \in 1 .. size /\ n - 1 \in 0 .. size
      BY <2>2
    <3>2. copied[n - 1] = steps[n - 1] /\ copied[n] = steps[n]
      BY <3>1
    <3>3. steps[n] = CopyChildren(tree, steps[n - 1])
      BY <1>4, <3>1 DEF IsCopyingTo
    <3> HIDE DEF copied
    <3>4. QED
      BY <2>2, <3>2, <3>3
  <2>3. QED
    BY <2>1, <2>2
<1>6. copied = again
  <2>1. copied = [n \in 0 .. size |-> copied[n]] /\ again = [n \in 0 .. size |-> again[n]]
    OBVIOUS
  <2> HIDE DEF copied, again
  <2>2. QED
    BY <1>5, <2>1
<1>7. QED
  BY <1>6 DEF IsCopying

(* translate: a copy of all nodes.                                         *)
IsCopy(t, up, src, tree, parent) ==
  IsPart(t, up, src, tree, parent) /\ AllCopied(t, src, tree)

CopiedTo(copy, n, tree, parent, S, V) ==
  \E up, src, done : /\ InCopy(copy, up, src, done, tree, parent, S, V)
                     /\ IsFiniteSet(done) /\ Cardinality(done) = n

LEMMA CopiedNext ==
  ASSUME NEW S, NEW V, NEW tree \in NodeTrees(S, V), NEW parent, Shape(tree, parent),
         NEW n \in 0 .. Size(tree) - 1, NEW copy, CopiedTo(copy, n, tree, parent, S, V)
  PROVE  CopiedTo(CopyChildren(tree, copy), n + 1, tree, parent, S, V)
<1>1. PICK up, src, done : /\ InCopy(copy, up, src, done, tree, parent, S, V)
                           /\ IsFiniteSet(done) /\ Cardinality(done) = n
  BY DEF CopiedTo
<1>2. IsPart(copy.tree, up, src, tree, parent) /\ Len(copy.stack) \in Nat
  BY <1>1 DEF InCopy
<1>3. Size(tree) \in Nat /\ n \in Nat
  BY DEF Shape
<1>4. Len(copy.stack) >= 1
  <2> SUFFICES ASSUME Len(copy.stack) = 0 PROVE FALSE
    BY <1>2
  <2>1. done = 1 .. Size(copy.tree) /\ AllCopied(copy.tree, src, tree)
    <3>1. InCopy(copy, up, src, done, tree, parent, S, V) /\ Len(copy.stack) = 0 /\ Shape(tree, parent)
      BY <1>1
    <3>2. QED
      BY <3>1, NothingOpen
  <2>2. Size(copy.tree) \in Nat /\ Size(copy.tree) = Size(tree)
    BY <1>2, <1>3, <2>1, PartCount
  <2>3. Cardinality(done) = Size(tree)
    BY <1>3, <2>1, <2>2, FS_Interval
  <2>4. QED
    BY <1>1, <1>3, <2>3
<1> DEFINE to == Top(copy).to
           new == CopyChildren(tree, copy)
           kids == Children(tree, Top(copy).from)
<1>5. NextCopy(new, copy, tree, parent, up, src, to, kids, S, V)
  BY <1>1, <1>4, CopyChildrenAdds
<1>6. IsListOf(kids, Kids(parent, Top(copy).from))
  <2>1. Len(copy.stack) \in 1 .. Len(copy.stack)
    BY <1>2, <1>4
  <2>2. to \in 1 .. Size(copy.tree) /\ Top(copy).from = src[to]
    BY <1>1, <2>1 DEF InCopy, Top
  <2>3. Top(copy).from \in 1 .. Size(tree)
    BY <1>2, <2>2 DEF IsPart
  <2>4. QED
    BY <2>3, ChildrenAreKids
<1> HIDE DEF new, kids
<1>7. to \notin done /\ \E more, source : InCopy(new, more, source, done \cup {to}, tree, parent, S, V)
  BY <1>1, <1>4, <1>5, <1>6, CopyStep
<1>8. IsFiniteSet(done \cup {to}) /\ Cardinality(done \cup {to}) = n + 1
  BY <1>1, <1>7, FS_AddElement
<1>9. QED
  BY <1>7, <1>8 DEF CopiedTo, new

LEMMA TranslateCopies ==
  ASSUME NEW S, NEW V, NEW tree \in NodeTrees(S, V), NEW parent, Shape(tree, parent),
         tree.ar[1].scope = Root
  PROVE  /\ translate(tree) \in NodeTrees(S, V)
         /\ \E up, src : IsCopy(translate(tree), up, src, tree, parent)
<1> DEFINE N == Size(tree)
           copied == CHOOSE f : IsCopying(f, tree)
           P == {n \in 0 .. N : CopiedTo(copied[n], n, tree, parent, S, V)}
<1>1. N \in Nat /\ N = Len(tree.ar)
  BY DEF Shape, Size
<1>2. IsCopying(copied, tree)
  BY <1>1, CopyingExists
<1>3. translate(tree) = copied[Len(tree.ar)].tree
  BY DEF translate, IsCopying, StartCopy
<1> HIDE DEF copied, N
<1>4. copied[0] = StartCopy(tree) /\ \A n \in 1 .. N : copied[n] = CopyChildren(tree, copied[n - 1])
  <2>1. 0 \in 0 .. N /\ \A n \in 1 .. N : n \in 0 .. N /\ n # 0
    BY <1>1
  <2>2. copied = [n \in 0 .. N |-> IF n = 0 THEN StartCopy(tree) ELSE CopyChildren(tree, copied[n - 1])]
    BY <1>1, <1>2 DEF IsCopying
  <2>3. QED
    BY <2>1, <2>2
<1>5. 0 \in P
  <2>1. IsFiniteSet({}) /\ Cardinality({}) = 0
    BY FS_EmptySet
  <2>2. CopiedTo(StartCopy(tree), 0, tree, parent, S, V)
    BY <2>1, StartInCopy DEF CopiedTo
  <2>3. QED
    BY <1>1, <1>4, <2>2
<1>6. ASSUME NEW n \in 0 .. N - 1, n \in P
      PROVE  n + 1 \in P
  <2>1. n + 1 \in 1 .. N /\ n + 1 \in 0 .. N /\ (n + 1) - 1 = n
    BY <1>1
  <2>2. copied[n + 1] = CopyChildren(tree, copied[n])
    BY <1>4, <2>1
  <2>3. CopiedTo(CopyChildren(tree, copied[n]), n + 1, tree, parent, S, V)
    BY <1>6, CopiedNext DEF N
  <2>4. QED
    BY <2>1, <2>2, <2>3
<1>7. N \in P
  <2>1. 0 .. N \subseteq P
    <3> HIDE DEF P
    <3>1. QED
      BY <1>1, <1>5, <1>6, UpTo
  <2>2. QED
    BY <1>1, <2>1
<1> DEFINE t == copied[N].tree
<1>8. PICK up, src, done : /\ InCopy(copied[N], up, src, done, tree, parent, S, V)
                           /\ IsFiniteSet(done) /\ Cardinality(done) = N
  BY <1>7 DEF CopiedTo
<1>9. t \in NodeTrees(S, V) /\ IsPart(t, up, src, tree, parent) /\ done \subseteq 1 .. Size(t)
  BY <1>8 DEF InCopy
<1>10. Size(t) \in Nat /\ Size(t) <= N
  BY <1>1, <1>9, PartCount DEF N
<1>11. N <= Size(t)
  <2>1. IsFiniteSet(1 .. Size(t)) /\ Cardinality(1 .. Size(t)) = Size(t)
    BY <1>10, FS_Interval
  <2>2. Cardinality(done) <= Cardinality(1 .. Size(t))
    BY <1>9, <2>1, FS_Subset
  <2>3. QED
    BY <1>8, <2>1, <2>2
<1>12. Size(t) = Size(tree)
  BY <1>1, <1>10, <1>11 DEF N
<1>13. IsCopy(t, up, src, tree, parent)
  BY <1>1, <1>9, <1>12, PartCount DEF IsCopy, N
<1>14. QED
  BY <1>1, <1>3, <1>9, <1>13

(* What a copy shows.                                                      *)
SameNodes(t, up, src, tree, parent) ==
  /\ src \in [1 .. Size(t) -> 1 .. Size(tree)] /\ src[1] = 1
  /\ \A i, j \in 1 .. Size(t) : src[i] = src[j] => i = j
  /\ \A j \in 1 .. Size(t) : t.ar[j].scope = tree.ar[src[j]].scope
  /\ \A j \in 2 .. Size(t) : src[j] \in 2 .. Size(tree) /\ parent[src[j]] = src[up[j]]
  /\ AllCopied(t, src, tree)

ValuesOf(t, defined) ==
  \A j \in 1 .. Size(t) :
    t.ar[j].value = IF t.ar[j].scope \in DOMAIN defined THEN defined[t.ar[j].scope] ELSE NullVal

ChildScopes(tree, i) == {tree.ar[c].scope : c \in {Children(tree, i)[n] : n \in DOMAIN Children(tree, i)}}

LEMMA ChildScopesOfKids ==
  ASSUME NEW tree, NEW parent, Shape(tree, parent), NEW i \in 1 .. Size(tree)
  PROVE  ChildScopes(tree, i) = {tree.ar[c].scope : c \in Kids(parent, i)}
<1> DEFINE list == Children(tree, i)
<1>1. IsListOf(list, Kids(parent, i))
  BY ChildrenAreKids
<1>2. {list[n] : n \in DOMAIN list} = Kids(parent, i)
  <2> HIDE DEF list
  <2>1. QED
    BY <1>1 DEF IsListOf
<1>3. ChildScopes(tree, i) = {tree.ar[c].scope : c \in {list[n] : n \in DOMAIN list}}
  BY DEF ChildScopes
<1> HIDE DEF list
<1>4. QED
  BY <1>2, <1>3

(* What it is that a tree shows, with the scopes of the nodes.             *)
ShowsNodes(tree, defined, scopes) ==
  /\ {tree.ar[i].scope : i \in DOMAIN tree.ar} = scopes
  /\ \A s \in scopes : \E i \in NodesOf(tree, s) :
       /\ NodesOf(tree, s) = {i}
       /\ tree.ar[i].value = IF s \in DOMAIN defined THEN defined[s] ELSE NullVal
       /\ ChildScopes(tree, i) = {u \in scopes \ {Root} : InnerOf(scopes, u) = s}

PassesAll(tree) ==
  /\ {DepthFirst(tree)[n] : n \in 1 .. Len(tree.ar)} = DOMAIN tree.ar
  /\ DepthFirst(tree)[Len(tree.ar) + 1] = Len(tree.ar) + 1

LEMMA ShowsIs ==
  ASSUME NEW shown, NEW defined
  PROVE  Shows(shown, defined) <=> /\ ~shown.failed
                                   /\ ShowsNodes(shown.tree, defined, DOMAIN defined \cup {Root})
                                   /\ PassesAll(shown.tree)
BY DEF Shows, ShowsNodes, PassesAll, ChildScopes, InnerOf, Around

LEMMA CopyShowsNodes ==
  ASSUME NEW S, NEW V, NEW tree \in NodeTrees(S, V), NEW parent, Shape(tree, parent),
         NEW W, NEW t \in NodeTrees(S, W), NEW up, Shape(t, up), NEW src, SameNodes(t, up, src, tree, parent),
         NEW defined, NEW scopes, ShowsNodes(tree, defined, scopes), NEW other, ValuesOf(t, other)
  PROVE  ShowsNodes(t, other, scopes)
<1> DEFINE below(s) == {u \in scopes \ {Root} : InnerOf(scopes, u) = s}
           size == Size(t)
           N == Size(tree)
<1>1. /\ N \in Nat /\ DOMAIN tree.ar = 1 .. N /\ parent \in [2 .. N -> 1 .. N]
      /\ size \in Nat /\ size >= 1 /\ DOMAIN t.ar = 1 .. size /\ up \in [2 .. size -> 1 .. size]
  BY ShapeItems
<1>2. /\ src \in [1 .. size -> 1 .. N] /\ src[1] = 1
      /\ \A i, j \in 1 .. size : src[i] = src[j] => i = j
      /\ \A j \in 1 .. size : t.ar[j].scope = tree.ar[src[j]].scope
      /\ \A j \in 2 .. size : src[j] \in 2 .. N /\ parent[src[j]] = src[up[j]]
      /\ \A i \in 1 .. N : \E j \in 1 .. size : src[j] = i
  BY DEF SameNodes, AllCopied
<1>3. /\ {tree.ar[i].scope : i \in 1 .. N} = scopes
      /\ \A s \in scopes : \E i \in NodesOf(tree, s) :
           NodesOf(tree, s) = {i} /\ ChildScopes(tree, i) = below(s)
  BY <1>1 DEF ShowsNodes
<1> HIDE DEF N, size, below
<1>4. {t.ar[j].scope : j \in 1 .. size} = scopes
  <2>1. \A j \in 1 .. size : t.ar[j].scope \in scopes
    BY <1>2, <1>3
  <2>2. \A s \in scopes : \E j \in 1 .. size : t.ar[j].scope = s
    BY <1>2, <1>3
  <2>3. QED
    BY <2>1, <2>2
<1>5. ASSUME NEW s \in scopes
      PROVE  \E j \in NodesOf(t, s) :
               /\ NodesOf(t, s) = {j}
               /\ t.ar[j].value = IF s \in DOMAIN other THEN other[s] ELSE NullVal
               /\ ChildScopes(t, j) = below(s)
  <2>1. PICK i \in NodesOf(tree, s) : NodesOf(tree, s) = {i} /\ ChildScopes(tree, i) = below(s)
    BY <1>3
  <2>2. i \in 1 .. N /\ tree.ar[i].scope = s
    BY <1>1, <2>1 DEF NodesOf
  <2>3. PICK j \in 1 .. size : src[j] = i
    BY <1>2, <2>2
  <2>4. t.ar[j].scope = s
    BY <1>2, <2>2, <2>3
  <2>5. NodesOf(t, s) = {j}
    <3>1. ASSUME NEW m \in 1 .. size, t.ar[m].scope = s PROVE m = j
      <4>1. src[m] \in 1 .. N /\ tree.ar[src[m]].scope = s
        BY <1>2, <3>1
      <4>2. src[m] \in NodesOf(tree, s)
        BY <1>1, <4>1 DEF NodesOf
      <4>3. src[m] = src[j]
        BY <2>1, <2>3, <4>2
      <4>4. QED
        BY <1>2, <4>3
    <3>2. QED
      BY <1>1, <2>4, <3>1 DEF NodesOf
  <2>6. t.ar[j].value = IF s \in DOMAIN other THEN other[s] ELSE NullVal
    BY <2>4 DEF ValuesOf, size
  <2>7. ChildScopes(t, j) = {t.ar[c].scope : c \in Kids(up, j)}
    BY ChildScopesOfKids DEF size
  <2>8. ChildScopes(tree, i) = {tree.ar[c].scope : c \in Kids(parent, i)}
    BY <2>2, ChildScopesOfKids DEF N
  <2>9. ASSUME NEW c \in Kids(up, j)
        PROVE  \E d \in Kids(parent, i) : tree.ar[d].scope = t.ar[c].scope
    <3>1. c \in 2 .. size /\ c \in 1 .. size /\ up[c] = j
      BY <1>1 DEF Kids
    <3>2. src[c] \in Kids(parent, i)
      BY <1>1, <1>2, <2>3, <3>1 DEF Kids
    <3>3. QED
      BY <1>2, <3>1, <3>2
  <2>10. ASSUME NEW d \in Kids(parent, i)
         PROVE  \E c \in Kids(up, j) : t.ar[c].scope = tree.ar[d].scope
    <3>1. d \in 2 .. N /\ d \in 1 .. N /\ parent[d] = i
      BY <1>1 DEF Kids
    <3>2. PICK c \in 1 .. size : src[c] = d
      BY <1>2, <3>1
    <3>3. c \in 2 .. size
      BY <1>1, <1>2, <3>1, <3>2
    <3>4. src[up[c]] = src[j] /\ up[c] \in 1 .. size
      BY <1>1, <1>2, <2>3, <3>1, <3>2, <3>3
    <3>5. c \in Kids(up, j)
      BY <1>1, <1>2, <3>3, <3>4 DEF Kids
    <3>6. QED
      BY <1>2, <3>2, <3>5
  <2>11. ChildScopes(t, j) = ChildScopes(tree, i)
    BY <2>7, <2>8, <2>9, <2>10
  <2>12. j \in NodesOf(t, s)
    BY <2>5
  <2>13. QED
    BY <2>1, <2>5, <2>6, <2>11, <2>12
<1>6. QED
  BY <1>1, <1>4, <1>5 DEF ShowsNodes, below

LEMMA ShownValues ==
  ASSUME NEW S, NEW V, NEW tree \in NodeTrees(S, V), NEW parent, Shape(tree, parent),
         NEW defined, NEW scopes, ShowsNodes(tree, defined, scopes)
  PROVE  ValuesOf(tree, defined)
<1>1. DOMAIN tree.ar = 1 .. Size(tree)
  BY ShapeItems
<1>2. ASSUME NEW j \in 1 .. Size(tree)
      PROVE  tree.ar[j].value = IF tree.ar[j].scope \in DOMAIN defined THEN defined[tree.ar[j].scope] ELSE NullVal
  <2> DEFINE s == tree.ar[j].scope
  <2>1. s \in scopes /\ j \in NodesOf(tree, s)
    BY <1>1 DEF ShowsNodes, NodesOf
  <2>2. PICK i \in NodesOf(tree, s) :
          NodesOf(tree, s) = {i} /\ tree.ar[i].value = IF s \in DOMAIN defined THEN defined[s] ELSE NullVal
    BY <2>1 DEF ShowsNodes
  <2>3. i = j
    BY <2>1, <2>2
  <2>4. QED
    BY <2>2, <2>3
<1>3. QED
  BY <1>2 DEF ValuesOf

LEMMA PassesAllNodes ==
  ASSUME NEW S, NEW V, NEW tree \in NodeTrees(S, V), NEW parent, Shape(tree, parent)
  PROVE  PassesAll(tree)
<1>1. DOMAIN tree.ar = 1 .. Size(tree) /\ Len(tree.ar) = Size(tree)
  BY ShapeItems DEF Size
<1>2. QED
  BY <1>1, DepthFirstPasses DEF PassesAll

(* A tree that is translated shows the same.                               *)
LEMMA TranslateShows ==
  ASSUME NEW S, NEW V, NEW shown, IsTree(shown.tree, S, V), NEW defined, Shows(shown, defined),
         NEW copy, copy.tree = translate(shown.tree), ~copy.failed
  PROVE  IsTree(copy.tree, S, V) /\ Shows(copy, defined)
<1> DEFINE tree == shown.tree
           t == copy.tree
<1>1. tree \in NodeTrees(S, V) /\ tree.ar[1].scope = Root
  BY DEF IsTree
<1>2. PICK parent : Shape(tree, parent)
  BY DEF IsTree
<1>3. t \in NodeTrees(S, V) /\ \E up, src : IsCopy(t, up, src, tree, parent)
  BY <1>1, <1>2, TranslateCopies
<1>4. PICK up, src : IsCopy(t, up, src, tree, parent)
  BY <1>3
<1> HIDE DEF tree, t
<1>5. /\ Shape(t, up) /\ SameNodes(t, up, src, tree, parent)
      /\ \A j \in 1 .. Size(t) : t.ar[j].value = tree.ar[src[j]].value /\ t.ar[j].scope = tree.ar[src[j]].scope
      /\ src \in [1 .. Size(t) -> 1 .. Size(tree)] /\ src[1] = 1 /\ Size(t) \in Nat /\ Size(t) >= 1
  BY <1>4 DEF IsCopy, IsPart, SameNodes, Shape
<1>6. ShowsNodes(tree, defined, DOMAIN defined \cup {Root})
  BY ShowsIs DEF tree
<1>7. ValuesOf(tree, defined)
  BY <1>1, <1>2, <1>6, ShownValues
<1>8. ValuesOf(t, defined)
  BY <1>5, <1>7 DEF ValuesOf
<1>9. ShowsNodes(t, defined, DOMAIN defined \cup {Root})
  BY <1>1, <1>2, <1>3, <1>5, <1>6, <1>8, CopyShowsNodes
<1>10. PassesAll(t)
  BY <1>3, <1>5, PassesAllNodes
<1>11. t.ar[1].scope = Root
  BY <1>1, <1>5
<1>12. IsTree(t, S, V)
  BY <1>3, <1>5, <1>11 DEF IsTree
<1>13. QED
  BY <1>9, <1>10, <1>12, ShowsIs DEF t

(* The nodes of a tree with other values.                                  *)
Revalued(t, tree) ==
  /\ Len(t.ar) = Len(tree.ar) /\ t.last = tree.last
  /\ \A i \in 1 .. Size(tree) : /\ t.ar[i].scope = tree.ar[i].scope
                                /\ t.ar[i].next = tree.ar[i].next /\ t.ar[i].chld = tree.ar[i].chld

LEMMA RevaluedShows ==
  ASSUME NEW S, NEW V, NEW shown, IsTree(shown.tree, S, V), NEW defined, Shows(shown, defined),
         NEW W, NEW copy, copy.tree \in NodeTrees(S, W), Revalued(copy.tree, shown.tree), ~copy.failed,
         NEW other, DOMAIN other = DOMAIN defined, ValuesOf(copy.tree, other)
  PROVE  Shows(copy, other)
<1> DEFINE tree == shown.tree
           t == copy.tree
           src == [i \in 1 .. Size(t) |-> i]
           scopes == DOMAIN defined \cup {Root}
<1>1. tree \in NodeTrees(S, V) /\ t \in NodeTrees(S, W)
  BY DEF IsTree
<1>2. PICK parent : Shape(tree, parent)
  BY DEF IsTree
<1>3. /\ Size(t) = Size(tree) /\ t.last = tree.last
      /\ \A i \in 1 .. Size(tree) : /\ t.ar[i].scope = tree.ar[i].scope
                                    /\ t.ar[i].next = tree.ar[i].next /\ t.ar[i].chld = tree.ar[i].chld
  BY DEF Revalued, Size
<1> HIDE DEF tree, t
<1>4. /\ Size(tree) \in Nat /\ Size(tree) >= 1 /\ Len(tree.last) = Size(tree)
      /\ parent \in [2 .. Size(tree) -> 1 .. Size(tree)]
      /\ \A i \in 2 .. Size(tree) : parent[i] < i
      /\ tree.ar[1].next = NoNode
      /\ \A i \in 1 .. Size(tree) : IsLeast(Kids(parent, i), tree.ar[i].chld)
      /\ \A i \in 2 .. Size(tree) : IsLeast(Younger(parent, i), tree.ar[i].next)
      /\ \A i \in 1 .. Size(tree) : Kids(parent, i) # {} => IsGreatest(Kids(parent, i), tree.last[tree.ar[i].chld])
  BY <1>2 DEF Shape
<1>5. Shape(t, parent)
  <2>1. \A i \in 2 .. Size(tree) : i \in 1 .. Size(tree)
    BY <1>4
  <2>2. 1 \in 1 .. Size(tree)
    BY <1>4
  <2>3. \A i \in 1 .. Size(t) : IsLeast(Kids(parent, i), t.ar[i].chld)
    BY <1>3, <1>4
  <2>4. \A i \in 2 .. Size(t) : IsLeast(Younger(parent, i), t.ar[i].next)
    BY <1>3, <1>4, <2>1
  <2>5. \A i \in 1 .. Size(t) : Kids(parent, i) # {} => IsGreatest(Kids(parent, i), t.last[t.ar[i].chld])
    BY <1>3, <1>4
  <2>6. t.ar[1].next = NoNode
    BY <1>3, <1>4, <2>2
  <2>7. QED
    BY <1>3, <1>4, <2>3, <2>4, <2>5, <2>6 DEF Shape
<1>6. SameNodes(t, parent, src, tree, parent)
  <2>1. /\ src \in [1 .. Size(t) -> 1 .. Size(tree)] /\ \A i \in 1 .. Size(t) : src[i] = i
        /\ 1 \in 1 .. Size(t) /\ \A j \in 2 .. Size(t) : j \in 1 .. Size(t) /\ parent[j] \in 1 .. Size(t)
    BY <1>3, <1>4
  <2> HIDE DEF src
  <2>2. AllCopied(t, src, tree)
    BY <1>3, <2>1 DEF AllCopied
  <2>3. QED
    BY <1>3, <2>1, <2>2 DEF SameNodes
<1>7. ShowsNodes(tree, defined, scopes)
  BY ShowsIs DEF tree
<1>8. ValuesOf(t, other)
  BY DEF t
<1> HIDE DEF scopes, src
<1>9. ShowsNodes(t, other, scopes)
  BY <1>1, <1>2, <1>5, <1>6, <1>7, <1>8, CopyShowsNodes
<1>10. PassesAll(t)
  BY <1>1, <1>5, PassesAllNodes
<1>11. QED
  BY <1>9, <1>10, ShowsIs DEF t, scopes

(* The tree of what is defined for all keys: any finite definitions in     *)
(* scopes that nest.                                                       *)
Definable(defined, V) ==
  /\ Bounded(DOMAIN defined) /\ Nesting(DOMAIN defined)
  /\ defined = [s \in DOMAIN defined |-> defined[s]]
  /\ \A s \in DOMAIN defined : defined[s] \in V
  /\ NullVal \in V

LEMMA TreeOfAllShows ==
  ASSUME NEW defined, NEW V, Definable(defined, V)
  PROVE  IsTree(TreeOfAll(defined).tree, Spans, V) /\ Shows(TreeOfAll(defined), defined)
<1> DEFINE all == SetAll(defined)
           built == getTree(all.table)
           copy == TreeOfAll(defined)
<1>1. ~all.failed /\ Holds(all.table, DOMAIN defined, defined, V)
  BY SetAllHolds DEF Definable
<1>2. HeldIn(all.table, defined, V) /\ NullVal \in V
  BY <1>1 DEF HeldIn, Definable
<1>3. Shows(built, defined) /\ IsTree(built.tree, Spans, V)
  BY <1>2, HeldShows
<1>4. ~built.failed
  BY <1>3, ShowsIs
<1>5. copy.tree = translate(built.tree) /\ ~copy.failed
  BY <1>1, <1>4 DEF TreeOfAll
<1> HIDE DEF copy, built
<1>6. IsTree(copy.tree, Spans, V) /\ Shows(copy, defined)
  BY <1>3, <1>5, TranslateShows
<1>7. QED
  BY <1>6 DEF copy

LEMMA AgainTranslated ==
  ASSUME NEW defined, NEW V, Definable(defined, V),
         NEW copy, copy.tree = translate(TreeOfAll(defined).tree), copy.failed = TreeOfAll(defined).failed
  PROVE  IsTree(copy.tree, Spans, V) /\ Shows(copy, defined)
<1> DEFINE all == TreeOfAll(defined)
<1>1. IsTree(all.tree, Spans, V) /\ Shows(all, defined)
  BY TreeOfAllShows
<1>2. ~copy.failed
  BY <1>1, ShowsIs
<1> HIDE DEF all
<1>3. copy.tree = translate(all.tree)
  BY DEF all
<1>4. QED
  BY <1>1, <1>2, <1>3, TranslateShows
=============================================================================
