---------------------------- MODULE MCTypeTable ----------------------------
(***************************************************************************)
(* An instance of TypeTable: overloads and synonyms of them in two         *)
(* contexts.  Of the scopes [2,5] and [3,7] overlap and both include [4,5],*)
(* so that some tables have nested scopes, some overlapping ones that are  *)
(* refused and some overlapping ones that are not (scope.hpp:249).  Two    *)
(* overloads differ in the constructors only, one has too many parameters. *)
(***************************************************************************)
EXTENDS TypeTable

Scope(s, e) == [start |-> s, end |-> e]

NestedAndOverlapping == {Scope(2, 5), Scope(4, 5), Scope(3, 7)}

\* The last is a handle of no type
SomeContexts == {-1, 0, 1, 9}

Parameter(type, constructor) == [type |-> type, constructor |-> constructor]

Overload(constructor, parameter) == [constructor |-> constructor, parameter |-> parameter]

SomeOverloads ==
  {Overload(0, <<>>), Overload(0, <<Parameter(1, 0), Parameter(2, 0)>>),
   Overload(5, <<Parameter(1, 6), Parameter(2, 0)>>),
   Overload(0, <<Parameter(1, 0), Parameter(1, 0), Parameter(1, 0)>>)}
=============================================================================
