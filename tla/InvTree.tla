------------------------------ MODULE InvTree ------------------------------
(***************************************************************************)
(* Scopes and the inverse tree of scope.hpp that every scope-bound table   *)
(* of the type database is stored in: an array of [scope, value, prev]     *)
(* elements in which prev leads from an element to the element of the next *)
(* enclosing scope.  The search tree std::map from the end of a scope to   *)
(* the first element of a list is the function ends.                       *)
(*                                                                         *)
(* Array indices count from 1 here, the -1 of the code is NoLink.  A loop  *)
(* that follows prev is described by the set of elements it passes, which  *)
(* is the least set that holds the first one and is closed under prev up   *)
(* to the elements where the loop stops.                                   *)
(***************************************************************************)
EXTENDS Naturals, Sequences

CONSTANT NullVal    \* what a lookup returns that finds nothing (m_nullval)

NoLink == 0

(* Scope::contains for a scope and for a scope-step: end is exclusive.     *)
Contains(s, t) == t.start >= s.start /\ t.end <= s.end

Covers(s, step) == s.start <= step /\ step < s.end

(* Two scopes that overlap without one including the other.                *)
Crossing(s, t) ==
  /\ s.start < t.end /\ t.start < s.end
  /\ ~Contains(s, t) /\ ~Contains(t, s)

-----------------------------------------------------------------------------
(* The loops "ai = index; while (ai >= 0) {... ai = m_ar[ai].prev;}".      *)

Closed(ar, index, Stop) ==
  {C \in SUBSET DOMAIN ar :
     /\ index \in C
     /\ \A m \in C \ Stop : ar[m].prev # NoLink => ar[m].prev \in C}

Walk(ar, index, Stop) ==
  LET closed == Closed(ar, index, Stop)
  IN  {j \in DOMAIN ar : \A C \in closed : j \in C}

(* The element a loop stops at, NoLink if it runs off the end of the list. *)
StopsAt(ar, index, Stop) ==
  LET met == Walk(ar, index, Stop) \cap Stop
  IN  IF met = {} THEN NoLink ELSE CHOOSE j \in met : TRUE

(* The last element a loop passes before it stops (pred_ai), if any.       *)
LastPassed(ar, index, Stop) ==
  LET passed == Walk(ar, index, Stop) \ Stop
  IN  IF passed = {} THEN NoLink
      ELSE CHOOSE j \in passed : ar[j].prev \in Stop \cup {NoLink}

(* getInnerValue and first: the first element that starts before the step. *)
first(ar, index, step) ==
  StopsAt(ar, index, {j \in DOMAIN ar : ar[j].scope.start <= step})

getInnerValue(ar, index, step) ==
  LET i == first(ar, index, step)
  IN  IF i = NoLink THEN NullVal ELSE ar[i].value

findUpValue(ar, index, scope) ==
  LET i == StopsAt(ar, index, {j \in DOMAIN ar : \/ ar[j].scope.end # scope.end
                                                 \/ ar[j].scope.start <= scope.start})
  IN  IF i # NoLink /\ ar[i].scope = scope THEN ar[i].value ELSE NullVal

(* Mutant: the first element of the right neighbour, without the walk.     *)
rightNeighborUnchecked(ar, index, scope) == index

rightNeighborUpLink(ar, index, scope) ==
  StopsAt(ar, index, {j \in DOMAIN ar : Contains(ar[j].scope, scope)})

-----------------------------------------------------------------------------
(* insertUpValue and linkLeftNeighbours pass the elements inside a scope   *)
(* and stop at an element of the same scope or at one not inside it.       *)
NotInside(ar, scope) ==
  {j \in DOMAIN ar : ar[j].scope = scope \/ ~Contains(scope, ar[j].scope)}

Meets(ar, index, scope) == StopsAt(ar, index, NotInside(ar, scope))

Innerlast(ar, index, scope) == LastPassed(ar, index, NotInside(ar, scope))

(* Both loops let the last element inside the scope lead to the new one,   *)
(* for the list of its end (insertUpValue) and for the lists that end      *)
(* inside the scope (linkLeftNeighbours, which leaves a list alone that    *)
(* meets the scope itself).  Lists that join share that last element, and  *)
(* to link it to the new element once more changes nothing, so that the    *)
(* loops are independent of their order and read the array before the call.*)
linkLeftNeighbours(ar, lists, scope, newindex) ==
  LET open(x) == LET met == Meets(ar, x, scope)
                 IN  met = NoLink \/ ar[met].scope # scope
      preds   == {Innerlast(ar, x, scope) : x \in {y \in lists : open(y)}}
  IN  [i \in DOMAIN ar |-> IF i \in preds THEN [ar[i] EXCEPT !.prev = newindex]
                                          ELSE ar[i]]

-----------------------------------------------------------------------------
(* Mutant: std::map::lower_bound, as if the end of a scope were inclusive. *)
EndsFrom(ends, k) == {e \in DOMAIN ends : k <= e}

(* std::map::upper_bound on the ends of the scopes: the lists that end     *)
(* after k, and the first of them.                                         *)
EndsAfter(ends, k) == {e \in DOMAIN ends : k < e}

upper_bound(ends, k) ==
  CHOOSE e \in EndsAfter(ends, k) : \A f \in EndsAfter(ends, k) : e <= f

(* ScopedInstance::get, ScopedMap::get: the list to search.                *)
get(ar, ends, step) ==
  IF EndsAfter(ends, step) = {} THEN NullVal
  ELSE getInnerValue(ar, ends[upper_bound(ends, step)], step)

(* ScopedInstance::getThis, ScopedMap::getDef.                             *)
getDef(ar, ends, scope) ==
  IF scope.end \notin DOMAIN ends THEN NullVal
  ELSE findUpValue(ar, ends[scope.end], scope)

(* Mutant: the iterator starts with the first element of the list.         *)
match_range_unfiltered(ar, ends, step) ==
  IF EndsAfter(ends, step) = {} THEN {} ELSE Walk(ar, ends[upper_bound(ends, step)], {})

(* ScopedMap::match_range: the elements the returned iterator visits.      *)
match_range(ar, ends, step) ==
  LET i == first(ar, ends[upper_bound(ends, step)], step)
  IN  IF EndsAfter(ends, step) = {} \/ i = NoLink THEN {} ELSE Walk(ar, i, {})

(* Mutant: no check for conflicts.                                         *)
NoHierarchyError(ar, ends, scope) == FALSE

(* What insertUpValue finds in the list that ends where the scope ends.    *)
Known(ar, ends, scope) ==
  /\ scope.end \in DOMAIN ends
  /\ LET met == Meets(ar, ends[scope.end], scope)
     IN  met # NoLink /\ ar[met].scope = scope

HierarchyError(ar, ends, scope) ==
  /\ scope.end \in DOMAIN ends
  /\ LET met == Meets(ar, ends[scope.end], scope)
     IN  met # NoLink /\ ~Contains(ar[met].scope, scope)

(* The common part of ScopedInstance::set, ScopedMap::set and getOrSet for *)
(* a scope that is neither known nor in conflict.                          *)
Uplink(ar, ends, scope) ==
  IF EndsAfter(ends, scope.end) = {} THEN NoLink
  ELSE rightNeighborUpLink(ar, ends[upper_bound(ends, scope.end)], scope)

(* insertUpValue links the new element to the one that stopped the walk.   *)
NewPrev(ar, ends, scope) ==
  IF scope.end \in DOMAIN ends /\ Meets(ar, ends[scope.end], scope) # NoLink
  THEN Meets(ar, ends[scope.end], scope)
  ELSE Uplink(ar, ends, scope)

NewEnds(ar, ends, scope) ==
  [e \in DOMAIN ends \cup {scope.end} |->
     IF /\ e = scope.end
        /\ e \in DOMAIN ends => Innerlast(ar, ends[e], scope) = NoLink
     THEN Len(ar) + 1
     ELSE ends[e]]

Inserted(ar, ends, scope, value) ==
  LET lists == {ends[e] : e \in {f \in DOMAIN ends : scope.start < f /\ f <= scope.end}}
  IN  Append(linkLeftNeighbours(ar, lists, scope, Len(ar) + 1),
             [scope |-> scope, value |-> value, prev |-> NewPrev(ar, ends, scope)])

-----------------------------------------------------------------------------
(* The elements own of one key in an array whose search tree is ends: one  *)
(* element per scope, the search tree leads to the innermost element of    *)
(* every end that occurs, and the uplink of an element leads to the        *)
(* smallest scope of the key that encloses it.                             *)
Enclosing(ar, own, scope) ==
  {j \in own : ar[j].scope # scope /\ Contains(ar[j].scope, scope)}

LeadsToEncloser(ar, own, scope, link) ==
  \/ link = NoLink /\ Enclosing(ar, own, scope) = {}
  \/ /\ link \in Enclosing(ar, own, scope)
     /\ \A j \in Enclosing(ar, own, scope) : Contains(ar[j].scope, ar[link].scope)

EndsLeadToInnermost(ar, ends, own) ==
  /\ DOMAIN ends = {ar[i].scope.end : i \in own}
  /\ \A e \in DOMAIN ends :
       /\ ends[e] \in own /\ ar[ends[e]].scope.end = e
       /\ \A i \in own : ar[i].scope.end = e => ar[i].scope.start <= ar[ends[e]].scope.start

WellLinked(ar, ends, own) ==
  /\ \A i, j \in own : ar[i].scope = ar[j].scope => i = j
  /\ EndsLeadToInnermost(ar, ends, own)
  /\ \A i \in own : LeadsToEncloser(ar, own, ar[i].scope, ar[i].prev)

(* The definitions the elements own stand for.                             *)
Contents(ar, own) ==
  [s \in {ar[i].scope : i \in own} |-> ar[CHOOSE i \in own : ar[i].scope = s].value]
=============================================================================
