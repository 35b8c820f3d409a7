---------------------------- MODULE MCScopedMap ----------------------------
(***************************************************************************)
(* Instances of ScopedMap.  The first scopes have two with one end, two    *)
(* with one start, neighbours, a chain of three, and two that overlap: the *)
(* one that ends first is refused if the other one and the one inside both *)
(* are there.  Keys and values are only compared, so renaming them changes *)
(* nothing.                                                                *)
(***************************************************************************)
EXTENDS ScopedMap, TLC

Scope(s, e) == [start |-> s, end |-> e]

AlmostNested == {Scope(0, 4), Scope(1, 3), Scope(1, 2), Scope(2, 3), Scope(2, 4)}

OverlappingScopes == {Scope(4, 5), Scope(3, 7), Scope(2, 6), Scope(2, 5), Scope(1, 7)}

Renaming == Permutations(Keys) \cup Permutations(Values)

StepsTo4 == 0 .. 4

StepsTo7 == 1 .. 7
=============================================================================
