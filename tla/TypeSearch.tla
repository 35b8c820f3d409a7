----------------------------- MODULE TypeSearch -----------------------------
(***************************************************************************)
(* The search along reductions of typedb.cpp, which deriveType and         *)
(* resolveType_ run alike: a shortest path search over all paths without a *)
(* repeated type.  m_ar of the ReduStack is the variable stack, an element *)
(* leads with prev to the element it was reduced from; the priority queue  *)
(* is the set queue.  Every step of the model is one turn of the loop.     *)
(*                                                                         *)
(* deriveType starts with one type and stops at toType, resolveType_       *)
(* starts with a list of context types and stops at those for which a type *)
(* of the name searched is visible: both are here the set goals.  redus is *)
(* what ScopedRelationMap::get returns for every type during the search.   *)
(* Weights are integers here: the comparison with an epsilon is exact.     *)
(***************************************************************************)
EXTENDS Naturals, Sequences, SequencesExt

CONSTANTS
  Types,
  MaxStack      \* bound of the size of the stack

ASSUME MaxStackAssumption == MaxStack \in Nat

ASSUME TypesAssumption == IsFiniteSet(Types)

NoIndex == 0

VARIABLES
  redus,        \* type -> list of its reductions [right, weight, counted]
  starts,       \* the context types to start with
  goals,        \* the types the search looks for
  maxCount,     \* bound of the counted reductions on a path
  stack, queue,
  result,       \* the queue element of the first path found
  conflict,     \* the stack index of a second path of the same weight
  done

call == <<redus, starts, goals, maxCount>>

vars == <<call, stack, queue, result, conflict, done>>

StackElem == [type : Types, root : Nat, prev : Nat, pathlen : Nat]

QueueElem == [weight : Nat, index : Nat \ {0}]

NoResult == [weight |-> 0, index |-> NoIndex]

Redu == [right : Types, weight : Nat, counted : BOOLEAN]

(* ScopedRelationMap::get returns one reduction to a type (candidatemap).  *)
InputOK ==
  /\ redus \in [Types -> Seq(Redu)]
  /\ \A t \in Types : \A i, j \in DOMAIN redus[t] : redus[t][i].right = redus[t][j].right => i = j
  /\ starts \in Seq(Types) /\ goals \subseteq Types /\ maxCount \in Nat

TypeOK ==
  /\ InputOK
  /\ stack \in Seq(StackElem)
  /\ \A i \in DOMAIN stack : stack[i].prev < i /\ stack[i].pathlen <= maxCount
  /\ queue \subseteq QueueElem
  /\ \A q \in queue : q.index \in DOMAIN stack
  /\ result.index \in {NoIndex} \cup DOMAIN stack
  /\ conflict \in {NoIndex} \cup DOMAIN stack

-----------------------------------------------------------------------------
(* Mutant: context types passed twice are pushed twice.                    *)
StartsWithDuplicates(types) ==
  [n \in DOMAIN types |->
     [type |-> types[n], root |-> n, prev |-> NoIndex, pathlen |-> 0]]

(* The positions in S in ascending order.                                  *)
InOrder(S) ==
  CHOOSE f \in [1 .. Cardinality(S) -> S] : \A m, n \in DOMAIN f : m < n => f[m] < f[n]

(* pushNonDuplicateStart for all start types: the root of a start is its   *)
(* first place in the list of context types.                               *)
Starts(types) ==
  LET firsts == InOrder({i \in DOMAIN types : \A j \in 1 .. i - 1 : types[j] # types[i]})
  IN  [n \in DOMAIN firsts |->
         [type |-> types[firsts[n]], root |-> firsts[n], prev |-> NoIndex, pathlen |-> 0]]

(* A search for the reductions, starts, goals and limit chosen before.     *)
Begin ==
  /\ stack = Starts(starts)
  /\ queue = {[weight |-> 0, index |-> i] : i \in DOMAIN stack}
  /\ result = NoResult
  /\ conflict = NoIndex
  /\ done = FALSE

(* The start of a search as a step of its caller.                          *)
Start(types) ==
  /\ starts' = types
  /\ stack' = Starts(types)
  /\ queue' = {[weight |-> 0, index |-> i] : i \in DOMAIN Starts(types)}
  /\ result' = NoResult
  /\ conflict' = NoIndex
  /\ done' = FALSE

(* The stack elements from index back to its start, by following prev.     *)
Path(index) ==
  LET path[i \in 0 .. Len(stack)] ==
        IF i = NoIndex THEN <<>> ELSE Append(path[stack[i].prev], stack[i])
  IN  path[index]

TypesOf(path) == [i \in DOMAIN path |-> path[i].type]

(* Mutant: only the element reduced from is compared.                      *)
IsNotParent(index, redu) == stack[index].type # redu.right

(* pushIfNew and the bound of the path length for one reduction.           *)
IsNew(index, redu) ==
  \A i \in DOMAIN Path(index) : Path(index)[i].type # redu.right

Pathlen(index, redu) ==
  IF redu.counted THEN stack[index].pathlen + 1 ELSE stack[index].pathlen

Pushed(q) ==
  LET all == redus[stack[q.index].type]
      new == InOrder({i \in DOMAIN all : Pathlen(q.index, all[i]) <= maxCount /\ IsNew(q.index, all[i])})
  IN  [n \in DOMAIN new |-> all[new[n]]]

(* The elements after the reductions of the element q were put to both.    *)
Expand(q) ==
  LET new == Pushed(q)
      elem(redu) == [type |-> redu.right, root |-> stack[q.index].root,
                     prev |-> q.index, pathlen |-> Pathlen(q.index, redu)]
  IN  /\ Len(stack) + Len(new) <= MaxStack
      /\ stack' = stack \o [n \in DOMAIN new |-> elem(new[n])]
      /\ queue' = (queue \ {q}) \cup
                  {[weight |-> q.weight + new[n].weight, index |-> Len(stack) + n] : n \in DOMAIN new}

(* Mutant: first in, first out.                                            *)
BeforeByIndex(p, q) == p.index < q.index

Before(p, q) == p.weight < q.weight \/ (p.weight = q.weight /\ p.index < q.index)

IsTop(q) == \A p \in queue \ {q} : Before(q, p)

Found == result.index # NoIndex

IsGoal(q) == stack[q.index].type \in goals

-----------------------------------------------------------------------------
(* One turn of the loop for the element q on top of the queue.             *)

(* Mutant: an element of the same weight ends the search, too.             *)
PopNotLighter(q) ==
  /\ Found /\ q.weight >= result.weight
  /\ queue' = queue \ {q}
  /\ done' = TRUE
  /\ UNCHANGED <<call, stack, result, conflict>>

(* An element heavier than the result ends the search.                     *)
PopHeavier(q) ==
  /\ Found /\ q.weight > result.weight
  /\ queue' = queue \ {q}
  /\ done' = TRUE
  /\ UNCHANGED <<call, stack, result, conflict>>

(* The first path found is the result, the search goes on from its end.    *)
PopResult(q) ==
  /\ ~Found /\ IsGoal(q)
  /\ result' = q
  /\ Expand(q)
  /\ UNCHANGED <<call, conflict, done>>

(* A second path of the same weight is a conflict.                         *)
PopConflict(q) ==
  /\ Found /\ q.weight <= result.weight /\ IsGoal(q)
  /\ conflict' = q.index
  /\ queue' = queue \ {q}
  /\ done' = TRUE
  /\ UNCHANGED <<call, stack, result>>

PopOther(q) ==
  /\ Found => q.weight <= result.weight
  /\ ~IsGoal(q)
  /\ Expand(q)
  /\ UNCHANGED <<call, result, conflict, done>>

Exhausted ==
  /\ queue = {}
  /\ done' = TRUE
  /\ UNCHANGED <<call, stack, queue, result, conflict>>

Turn ==
  /\ ~done
  /\ \/ \E q \in queue : IsTop(q) /\ (PopHeavier(q) \/ PopResult(q) \/ PopConflict(q) \/ PopOther(q))
     \/ Exhausted

-----------------------------------------------------------------------------
(* A search in what the caller has chosen.                                 *)
SearchSpec == InputOK /\ Begin /\ [][Turn]_vars

(* The paths there are: sequences of different types from a start on, with *)
(* a reduction from each type to the next one.                             *)
IsReducible(from, to) == \E i \in DOMAIN redus[from] : redus[from][i].right = to

Reduction(from, to) ==
  redus[from][CHOOSE i \in DOMAIN redus[from] : redus[from][i].right = to]

IsPath(p) ==
  /\ \E i \in DOMAIN starts : starts[i] = p[1]
  /\ \A i \in 1 .. Len(p) - 1 : IsReducible(p[i], p[i + 1])
  /\ \A i, j \in DOMAIN p : p[i] = p[j] => i = j

Paths == {p \in UNION {[1 .. n -> Types] : n \in 1 .. Cardinality(Types)} : IsPath(p)}

(* The sum of the first n values of c.                                     *)
Total(c, n) ==
  LET sum[m \in 0 .. n] == IF m = 0 THEN 0 ELSE sum[m - 1] + c[m]
  IN  sum[n]

Weight(p) == Total([i \in 1 .. Len(p) - 1 |-> Reduction(p[i], p[i + 1]).weight], Len(p) - 1)

Count(p) ==
  Total([i \in 1 .. Len(p) - 1 |-> IF Reduction(p[i], p[i + 1]).counted THEN 1 ELSE 0], Len(p) - 1)

Solutions == {p \in Paths : p[Len(p)] \in goals /\ Count(p) <= maxCount}

Best(S) == {p \in S : \A q \in S : Weight(p) <= Weight(q)}

(* A search that has ended has found a path to what it looks for if there  *)
(* is one, and the path found has the smallest sum of weights of all paths *)
(* with no more counted reductions than allowed; it starts at the context  *)
(* type its root says.                                                     *)
ResultMinimal ==
  done => LET best == Best(Solutions)
              path == Path(result.index)
          IN  /\ Found <=> best # {}
              /\ Found => /\ TypesOf(path) \in best
                          /\ Weight(TypesOf(path)) = result.weight
                          /\ starts[stack[result.index].root] = path[1].type

(* A search that has ended reports a conflict exactly if there is another  *)
(* path of the same sum of weights, and tells such a path.                 *)
ConflictIsTie ==
  done => LET best == Best(Solutions)
          IN  /\ conflict # NoIndex <=> \E p, r \in best : p # r
              /\ conflict # NoIndex => /\ TypesOf(Path(conflict)) \in best
                                       /\ conflict # result.index

(* No path is put on the stack twice, so that the search looks at each at  *)
(* most once, even if a context type is passed twice.                      *)
PathsTakenOnce ==
  \A i, j \in DOMAIN stack : TypesOf(Path(i)) = TypesOf(Path(j)) => i = j

(* The search ends, although reductions may lead in a circle.              *)
Terminates == <>done
=============================================================================
