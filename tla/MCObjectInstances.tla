-------------------------- MODULE MCObjectInstances --------------------------
(***************************************************************************)
(* An instance of ObjectInstances: the outermost scope, two scopes with    *)
(* one end, two with one start, a neighbour, and two that overlap.  Names  *)
(* and handles are only compared, so renaming them changes nothing.        *)
(***************************************************************************)
EXTENDS InstanceTrees, TLC

Scope(s, e) == [start |-> s, end |-> e]

AlmostNested == {Scope(0, 6), Scope(2, 4), Scope(2, 3), Scope(1, 3), Scope(4, 5)}

Renaming == Permutations(Names) \cup Permutations(Handles)

StepsTo6 == 0 .. 6
=============================================================================
