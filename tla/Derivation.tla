----------------------------- MODULE Derivation -----------------------------
(***************************************************************************)
(* deriveType of typedb.cpp as a whole: the search of TypeSearch on the    *)
(* reductions that ReductionTable returns for the scope-step and the tags  *)
(* of the query.  Definitions come first, then a query; the search does    *)
(* not change the table.                                                   *)
(***************************************************************************)
EXTENDS ReductionTable, FiniteSets

CONSTANTS
  Queries,      \* the arguments deriveType is called with
  TagsCount,    \* the tags that are counted
  MaxStack

ASSUME MaxStackAssumption == MaxStack \in Nat

ASSUME QueriesAssumption ==
  Queries \subseteq [step : Nat, toType : Int, fromType : Int, tags : SUBSET Int, count : Int]

VARIABLES
  query,        \* the query, none before there is one
  redus, starts, goals, maxCount,
  stack, queue, result, conflict, done

searchVars == <<query, redus, starts, goals, maxCount, stack, queue, result, conflict, done>>

Search == INSTANCE TypeSearch

NoQuery == [step |-> 0, toType |-> 0, fromType |-> 0, tags |-> {}, count |-> 0]

Unlimited == 99     \* INT_MAX, what a bound of -1 stands for

DInit ==
  /\ Init
  /\ query = NoQuery
  /\ redus = [t \in Types |-> <<>>]
  /\ starts = <<>> /\ goals = {} /\ maxCount = Unlimited
  /\ Search!Begin

(* The reductions of a type as the search gets them, by their targets.     *)
Redulist(step, type, tags) ==
  LET found   == get(step, type, tags)
      targets == Search!InOrder({r.right : r \in found})
      redu(right) == CHOOSE r \in found : r.right = right
  IN  [n \in DOMAIN targets |->
         [right |-> targets[n], weight |-> redu(targets[n]).weight,
          counted |-> redu(targets[n]).tag \in TagsCount]]

deriveType(q) ==
  /\ query = NoQuery
  /\ ValidTypes(q.toType, q.fromType) /\ q.count >= -1
  /\ query' = q
  /\ redus' = [t \in Types |-> Redulist(q.step, t, q.tags)]
  /\ goals' = {q.toType}
  /\ maxCount' = IF q.count = -1 THEN Unlimited ELSE q.count
  /\ Search!Start(<<q.fromType>>)
  /\ reply' = "none"
  /\ UNCHANGED <<headVars, m_list, owner>>

Define == query = NoQuery /\ Next /\ UNCHANGED searchVars

Turn == query # NoQuery /\ Search!Turn /\ UNCHANGED <<vars, query>>

DNext ==
  \/ Define
  \/ \E q \in Queries : deriveType(q)
  \/ Turn

DSpec == DInit /\ [][DNext]_<<vars, searchVars>>

-----------------------------------------------------------------------------
(* The reductions that count between two types: selected, visible, and not *)
(* shadowed by a definition in an inner scope.                             *)
Reductions(from, to) ==
  {Relations[i] : i \in Abstract!Unshadowed(Abstract!Selected(query.step, from, to, query.tags))}

TypePaths ==
  {p \in UNION {[1 .. n -> Types] : n \in 1 .. NofTypes + 1} :
     /\ p[1] = query.fromType /\ p[Len(p)] = query.toType
     /\ \A i, j \in DOMAIN p : p[i] = p[j] => i = j}

(* The sequences of reductions along a path of types.                      *)
Along(p) ==
  {d \in [1 .. Len(p) - 1 -> {Relations[i] : i \in DOMAIN m_list}] :
     \A i \in DOMAIN d : d[i] \in Reductions(p[i], p[i + 1])}

Counted(d) == Search!Total([i \in DOMAIN d |-> IF d[i].tag \in TagsCount THEN 1 ELSE 0], Len(d))

Cost(d) == Search!Total([i \in DOMAIN d |-> d[i].weight], Len(d))

(* The sequences of reductions from the one type to the other.             *)
Allowed == {d \in UNION {Along(p) : p \in TypePaths} : Counted(d) <= maxCount}

Parallel ==
  \E from, to \in Types : \E r, s \in Reductions(from, to) : r # s

(* What derive_type answers for the definitions made: a result exactly if  *)
(* there is a sequence of reductions visible at the step and selected by   *)
(* the tags, and one of minimal cost, provided that the scopes nest and no *)
(* two of the reductions between two types differ in their tag only.       *)
DerivesMinimal ==
  query # NoQuery /\ done /\ Heads!AllNested /\ ~Parallel =>
    /\ Search!Found <=> Allowed # {}
    /\ Search!Found => /\ \A d \in Allowed : result.weight <= Cost(d)
                       /\ \E d \in Allowed : result.weight = Cost(d)
=============================================================================
