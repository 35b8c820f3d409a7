---------------------------- MODULE MCDerivation ----------------------------
(***************************************************************************)
(* Tables of up to three reductions between three types and the type 0 in  *)
(* an outer and an inner scope, calls with arguments at and behind their   *)
(* limits, and queries from inside and from outside the inner scope.       *)
(***************************************************************************)
EXTENDS Derivation

Scope(s, e) == [start |-> s, end |-> e]

TwoScopes == {Scope(0, 5), Scope(1, 3)}

StepsAtEnds == {1, 3}

Call(from, to, constructor, tag, weight) ==
  [fromType |-> from, toType |-> to, constructor |-> constructor, tag |-> tag, weight |-> weight]

ValidCalls ==
  {Call(1, 2, 0, 1, 1), Call(1, 2, 1, 1, 1), Call(1, 2, 0, 32, 0), Call(1, 3, 0, 1, 2),
   Call(2, 3, 0, 1, 0), Call(2, 3, 0, 1, 1), Call(2, 0, 0, 32, 0)}

RejectedCalls ==
  {Call(1, 2, -1, 1, 0), Call(0, 1, 0, 1, 0), Call(1, 4, 0, 1, 0), Call(4, 1, 0, 1, 0),
   Call(1, 1, 0, 1, 0), Call(1, 2, 0, 0, 0), Call(1, 2, 0, 33, 0), Call(1, 2, 0, 1, -1)}

CallsAtLimits == ValidCalls \cup RejectedCalls

SomeTagMasks == {{1}, {1, 32}}

(* From type 1 to 3, inside and outside of the inner scope, with any       *)
(* number or with at most one of the counted reductions.                   *)
OneToThreeQueries ==
  [step : StepsAtEnds, toType : {3}, fromType : {1}, tags : {{1, 32}}, count : {-1, 1}]
=============================================================================
