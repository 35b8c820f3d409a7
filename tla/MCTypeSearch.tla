---------------------------- MODULE MCTypeSearch ----------------------------
(***************************************************************************)
(* Searches in all graphs of four types that leave out some of the         *)
(* reductions below and give the others a weight: paths of different       *)
(* length to type 4, a circle between 2 and 3, and a way back from 4.      *)
(***************************************************************************)
EXTENDS TypeSearch

FourTypes == 1 .. 4

Edges == {<<1, 2>>, <<1, 3>>, <<2, 3>>, <<3, 2>>, <<2, 4>>, <<3, 4>>, <<4, 1>>}

NoReduction == 9

Graph(weights, counted) ==
  [t \in FourTypes |->
     SelectSeq([r \in FourTypes |-> [right   |-> r,
                                     weight  |-> IF <<t, r>> \in Edges THEN weights[<<t, r>>] ELSE NoReduction,
                                     counted |-> <<t, r>> \in counted]],
               LAMBDA redu : redu.weight # NoReduction)]

Unlimited == 99

(* deriveType from 1 to 4, with at most one of the counted reductions or   *)
(* with any number of them.                                                *)
DeriveInit ==
  /\ \E weights \in [Edges -> {NoReduction, 0, 1, 2}] :
       /\ weights[<<4, 1>>] \in {NoReduction, 1}
       /\ redus = Graph(weights, {<<1, 2>>, <<2, 3>>, <<3, 4>>})
  /\ starts = <<1>>
  /\ goals = {4}
  /\ maxCount \in {1, Unlimited}
  /\ Begin

(* resolveType with one or more context types, also one passed twice, and  *)
(* a name that is defined for one or for two of the types.                 *)
ResolveInit ==
  /\ \E weights \in [Edges -> {NoReduction, 0, 1}] : redus = Graph(weights, {})
  /\ starts \in {<<1>>, <<2, 2, 1>>}
  /\ goals \in {{}, {4}, {1, 4}, {3, 4}}
  /\ maxCount = Unlimited
  /\ Begin

Spec == (DeriveInit \/ ResolveInit) /\ [][Turn]_vars /\ WF_vars(Turn)
=============================================================================
