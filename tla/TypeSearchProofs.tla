-------------------------- MODULE TypeSearchProofs --------------------------
(***************************************************************************)
(* That the search for a path of reductions looks at every path at most    *)
(* once, that what it finds is a cheapest path, and that it reports a tie  *)
(* exactly if there is one, for any finite set of types and any            *)
(* reductions, weights and start types.                                    *)
(*                                                                         *)
(* The paths are told apart by their ends: two elements reduced from the   *)
(* same element differ in their type, because an element is expanded once  *)
(* (it leaves the queue when it is, and only what is in the queue is), its *)
(* reductions lead to different types, and start types are pushed once.    *)
(*                                                                         *)
(* The cheapest path is found as Dijkstra's search finds it: the types on  *)
(* the way to a stack element form an allowed path whose weight is that    *)
(* of its queue element, every element not in the queue anymore has all    *)
(* its extensions on the stack, and so every allowed path either is on the *)
(* stack and popped, or leads through an element of the queue, which is    *)
(* not heavier than the path.                                              *)
(***************************************************************************)
EXTENDS TypeSearch, FiniteSetTheorems, SequenceTheorems, TLAPS

Inv == INSTANCE InvTreeProofs WITH NullVal <- NoIndex, MaxStep <- 0

-----------------------------------------------------------------------------
(* A bounded set of positions can be listed in ascending order.            *)
IsOrder(f, S) ==
  f \in [1 .. Cardinality(S) -> S] /\ \A m, n \in DOMAIN f : m < n => f[m] < f[n]

LEMMA FinitePositions ==
  ASSUME NEW b \in Nat, NEW S \in SUBSET (0 .. b)
  PROVE  IsFiniteSet(S)
<1>1. IsFiniteSet(0 .. b)
  BY FS_Interval
<1>2. QED
  BY <1>1, FS_Subset

LEMMA HasOrder ==
  ASSUME NEW b \in Nat, NEW S \in SUBSET (0 .. b - 1)
  PROVE  \E f : IsOrder(f, S)
<1> DEFINE T == {c \in Nat : \E R \in SUBSET (0 .. c - 1) : ~\E f : IsOrder(f, R)}
<1>1. SUFFICES ASSUME T # {} PROVE FALSE
  OBVIOUS
<1>2. PICK c \in T : \A d \in T : c <= d
  BY <1>1, Inv!NatMin
<1>3. PICK R \in SUBSET (0 .. c - 1) : ~\E f : IsOrder(f, R)
  OBVIOUS
<1>4. c \in Nat /\ IsFiniteSet(R)
  <2>1. c \in Nat /\ R \in SUBSET (0 .. c)
    OBVIOUS
  <2>2. QED
    BY <2>1, FinitePositions
<1>5. Cardinality(R) \in Nat
  BY <1>4, FS_CardinalityType
<1>6. R # {}
  <2> SUFFICES ASSUME R = {} PROVE FALSE
    OBVIOUS
  <2>1. Cardinality(R) = 0
    BY FS_EmptySet
  <2>2. IsOrder([i \in 1 .. 0 |-> i], R)
    BY <2>1 DEF IsOrder
  <2>3. QED
    BY <1>3, <2>2
<1>7. c >= 1
  <2>1. PICK i : i \in R
    BY <1>6
  <2>2. i \in 0 .. c - 1
    BY <2>1
  <2>3. QED
    BY <1>4, <2>2
<1> DEFINE top == c - 1
<1>8. top \in R
  <2> SUFFICES ASSUME top \notin R PROVE FALSE
    OBVIOUS
  <2>1. R \in SUBSET (0 .. top - 1) /\ c - 1 \in Nat
    BY <1>4, <1>7
  <2>2. c - 1 \in T
    BY <1>3, <2>1
  <2>3. c <= c - 1
    BY <1>2, <2>2
  <2>4. QED
    BY <1>4, <2>3
<1> DEFINE Q == R \ {top}
<1>9. PICK f : IsOrder(f, Q)
  <2>1. Q \in SUBSET (0 .. top - 1) /\ c - 1 \in Nat
    BY <1>4, <1>7
  <2>2. c - 1 \notin T
    BY <1>2, <1>4
  <2>3. QED
    BY <2>1, <2>2
<1>10. Cardinality(Q) = Cardinality(R) - 1
  BY <1>4, <1>8, FS_RemoveElement
<1> DEFINE n == Cardinality(R)
           g == [i \in 1 .. n |-> IF i = n THEN top ELSE f[i]]
<1>11. n \in Nat /\ Cardinality(Q) = n - 1
  BY <1>5, <1>10
<1>12. f \in [1 .. n - 1 -> Q] /\ \A i, j \in 1 .. n - 1 : i < j => f[i] < f[j]
  BY <1>9, <1>11 DEF IsOrder
<1> HIDE DEF n
<1>13. g \in [1 .. n -> R]
  BY <1>8, <1>11, <1>12
<1>14. ASSUME NEW i \in 1 .. n, NEW j \in 1 .. n, i < j PROVE g[i] < g[j]
  <2>1. i \in 1 .. n - 1 /\ i # n
    BY <1>11, <1>14
  <2>2. CASE j = n
    <3>1. f[i] \in Q
      BY <1>12, <2>1
    <3>2. f[i] < top
      <4>1. f[i] \in 0 .. top /\ f[i] # top
        BY <3>1
      <4>2. QED
        BY <1>4, <4>1
    <3>3. QED
      BY <2>1, <2>2, <3>2
  <2>3. CASE j # n
    <3>1. j \in 1 .. n - 1
      BY <1>11, <2>3
    <3>2. QED
      BY <1>12, <1>14, <2>1, <2>3, <3>1
  <2>4. QED
    BY <2>2, <2>3
<1>15. IsOrder(g, R)
  BY <1>13, <1>14 DEF IsOrder, n
<1>16. QED
  BY <1>3, <1>15

LEMMA InOrderOrders ==
  ASSUME NEW b \in Nat, NEW S \in SUBSET (0 .. b)
  PROVE  /\ Cardinality(S) \in Nat
         /\ InOrder(S) \in [1 .. Cardinality(S) -> S]
         /\ \A m, n \in 1 .. Cardinality(S) : InOrder(S)[m] = InOrder(S)[n] => m = n
         /\ \A i \in S : \E n \in 1 .. Cardinality(S) : InOrder(S)[n] = i
<1>1. PICK f : IsOrder(f, S)
  <2>1. b + 1 \in Nat /\ S \in SUBSET (0 .. b + 1 - 1)
    OBVIOUS
  <2>2. QED
    BY <2>1, HasOrder
<1>2. IsOrder(InOrder(S), S)
  <2>1. InOrder(S) = CHOOSE g \in [1 .. Cardinality(S) -> S] : \A m, n \in DOMAIN g : m < n => g[m] < g[n]
    BY DEF InOrder
  <2>2. QED
    BY <1>1, <2>1 DEF IsOrder
<1>3. IsFiniteSet(S)
  BY FinitePositions
<1>4. Cardinality(S) \in Nat
  BY <1>3, FS_CardinalityType
<1>5. ASSUME NEW m \in 1 .. Cardinality(S), NEW n \in 1 .. Cardinality(S), InOrder(S)[m] = InOrder(S)[n]
      PROVE  m = n
  <2>1. InOrder(S)[m] \in S
    BY <1>2 DEF IsOrder
  <2>2. ~(m < n) /\ ~(n < m)
    <3>1. InOrder(S)[m] \in Nat /\ ~(InOrder(S)[m] < InOrder(S)[m])
      <4>1. \A i \in 0 .. b : i \in Nat /\ ~(i < i)
        OBVIOUS
      <4>2. QED
        BY <2>1, <4>1
    <3>2. QED
      BY <1>2, <1>5, <3>1 DEF IsOrder
  <2>3. QED
    BY <1>4, <2>2
<1>6. InOrder(S) \in Injection(1 .. Cardinality(S), S)
  BY <1>2, <1>5 DEF IsOrder, Injection, IsInjective
<1>7. Cardinality(1 .. Cardinality(S)) = Cardinality(S)
  BY <1>4, FS_Interval
<1>8. InOrder(S) \in Surjection(1 .. Cardinality(S), S)
  BY <1>3, <1>6, <1>7, FS_Injection
<1>9. QED
  BY <1>2, <1>4, <1>5, <1>8 DEF IsOrder, Surjection

-----------------------------------------------------------------------------
(* The paths that lead along prev.                                         *)
IsPathFunction(f, s, n) ==
  f = [i \in 0 .. n |-> IF i = NoIndex THEN <<>> ELSE Append(f[s[i].prev], s[i])]

LEMMA HasPaths ==
  ASSUME NEW n \in Nat, NEW s, \A i \in 1 .. n : s[i].prev \in 0 .. i - 1
  PROVE  \E f : IsPathFunction(f, s, n)
<1> DEFINE T == {k \in 0 .. n : ~\E f : IsPathFunction(f, s, k)}
<1>1. SUFFICES ASSUME T # {} PROVE FALSE
  OBVIOUS
<1>2. T \in SUBSET Nat
  OBVIOUS
<1>3. PICK k \in T : \A l \in T : k <= l
  BY <1>1, <1>2, Inv!NatMin
<1>4. k \in 0 .. n /\ k \in Nat /\ ~\E f : IsPathFunction(f, s, k)
  BY <1>3
<1>5. CASE k = 0
  <2> DEFINE f == [i \in 0 .. 0 |-> <<>>]
  <2>1. f = [i \in 0 .. 0 |-> IF i = NoIndex THEN <<>> ELSE Append(f[s[i].prev], s[i])]
    BY DEF NoIndex
  <2>2. QED
    BY <1>4, <1>5, <2>1 DEF IsPathFunction
<1>6. CASE k # 0
  <2>1. k - 1 \in 0 .. n /\ ~(k <= k - 1)
    BY <1>4, <1>6
  <2>2. k - 1 \notin T
    BY <1>3, <2>1
  <2>3. PICK g : IsPathFunction(g, s, k - 1)
    BY <2>1, <2>2
  <2> DEFINE f == [i \in 0 .. k |-> IF i = k THEN Append(g[s[k].prev], s[k]) ELSE g[i]]
  <2>4. \A i \in 0 .. k - 1 : f[i] = g[i]
    BY <1>4
  <2>5. ASSUME NEW i \in 0 .. k
        PROVE  f[i] = IF i = NoIndex THEN <<>> ELSE Append(f[s[i].prev], s[i])
    <3>1. CASE i = k
      <4>1. s[k].prev \in 0 .. k - 1
        BY <1>4, <1>6
      <4>2. f[s[k].prev] = g[s[k].prev]
        BY <2>4, <4>1
      <4>3. f[k] = Append(g[s[k].prev], s[k])
        BY <1>4
      <4>4. QED
        BY <1>6, <3>1, <4>2, <4>3 DEF NoIndex
    <3>2. CASE i # k
      <4>1. i \in 0 .. k - 1 /\ i \in Nat
        BY <1>4, <3>2
      <4>2. g[i] = IF i = NoIndex THEN <<>> ELSE Append(g[s[i].prev], s[i])
        BY <2>3, <4>1 DEF IsPathFunction
      <4>3. i # 0 => s[i].prev \in 0 .. k - 1
        <5> HAVE i # 0
        <5>1. s[i].prev \in 0 .. i - 1
          BY <1>4, <4>1
        <5>2. QED
          BY <1>4, <4>1, <5>1
      <4>4. QED
        BY <2>4, <4>1, <4>2, <4>3 DEF NoIndex
    <3>3. QED
      BY <3>1, <3>2
  <2>6. f = [i \in 0 .. k |-> IF i = NoIndex THEN <<>> ELSE Append(f[s[i].prev], s[i])]
    <3>1. f = [i \in 0 .. k |-> f[i]]
      OBVIOUS
    <3> HIDE DEF f
    <3>2. QED
      BY <2>5, <3>1
  <2>7. QED
    BY <1>4, <2>6 DEF IsPathFunction
<1>7. QED
  BY <1>5, <1>6

Elems == DOMAIN stack

StackOK ==
  /\ Len(stack) \in Nat /\ Elems = 1 .. Len(stack)
  /\ \A i \in Elems : stack[i] \in StackElem /\ stack[i].prev \in 0 .. i - 1

LEMMA Paths_ ==
  ASSUME StackOK
  PROVE  /\ Path(NoIndex) = <<>>
         /\ \A i \in Elems : Path(i) = Append(Path(stack[i].prev), stack[i])
<1> DEFINE n == Len(stack)
           f == CHOOSE g : IsPathFunction(g, stack, n)
<1>1. n \in Nat /\ Elems = 1 .. n /\ \A i \in 1 .. n : stack[i].prev \in 0 .. i - 1
  BY DEF StackOK
<1>2. IsPathFunction(f, stack, n)
  <2> HIDE DEF n
  <2>1. \E g : IsPathFunction(g, stack, n)
    BY <1>1, HasPaths
  <2>2. QED
    BY <2>1
<1>3. \A i : Path(i) = f[i]
  BY DEF Path, IsPathFunction
<1> HIDE DEF f, n
<1>4. \A i \in 0 .. n : f[i] = IF i = NoIndex THEN <<>> ELSE Append(f[stack[i].prev], stack[i])
  BY <1>2 DEF IsPathFunction
<1>5. 0 \in 0 .. n /\ \A i \in Elems : i \in 0 .. n /\ i # NoIndex
  BY <1>1 DEF NoIndex
<1>6. QED
  BY <1>3, <1>4, <1>5 DEF NoIndex

-----------------------------------------------------------------------------
(* The invariant.                                                          *)

(* Elements reduced from the same element, or starts, differ in the type.  *)
Siblings ==
  \A i, j \in Elems : stack[i].prev = stack[j].prev /\ stack[i].type = stack[j].type => i = j

(* What is in the queue is in it once and nothing was reduced from it yet. *)
Unexpanded ==
  /\ \A p, q \in queue : p.index = q.index => p = q
  /\ \A q \in queue : \A i \in Elems : stack[i].prev # q.index

IInv == TypeOK /\ StackOK /\ Siblings /\ Unexpanded

LEMMA ListIsSeq ==
  ASSUME NEW S, NEW k \in Nat, NEW f \in [1 .. k -> S]
  PROVE  f \in Seq(S) /\ Len(f) = k
<1>1. f \in Seq(S)
  BY SeqDef
<1>2. Len(f) \in Nat /\ DOMAIN f = 1 .. Len(f)
  BY <1>1, LenProperties
<1>3. 1 .. Len(f) = 1 .. k
  BY <1>2
<1>4. \A m, n \in Nat : 1 .. m = 1 .. n => m = n
  <2> SUFFICES ASSUME NEW m \in Nat, NEW n \in Nat, 1 .. m = 1 .. n PROVE m = n
    OBVIOUS
  <2>1. m = 0 \/ m \in 1 .. n
    OBVIOUS
  <2>2. n = 0 \/ n \in 1 .. m
    OBVIOUS
  <2>3. QED
    BY <2>1, <2>2
<1>5. QED
  BY <1>1, <1>2, <1>3, <1>4

LEMMA StartsOnce ==
  ASSUME NEW types \in Seq(Types)
  PROVE  /\ Starts(types) \in Seq(StackElem)
         /\ \A i \in DOMAIN Starts(types) : Starts(types)[i].prev = NoIndex /\ Starts(types)[i].pathlen = 0
         /\ \A i, j \in DOMAIN Starts(types) : Starts(types)[i].type = Starts(types)[j].type => i = j
         /\ \A i \in DOMAIN Starts(types) : /\ Starts(types)[i].root \in DOMAIN types
                                           /\ Starts(types)[i].type = types[Starts(types)[i].root]
         /\ \A i \in DOMAIN types : \E n \in DOMAIN Starts(types) : Starts(types)[n].type = types[i]
<1> DEFINE firsts == {i \in DOMAIN types : \A j \in 1 .. i - 1 : types[j] # types[i]}
           f == InOrder(firsts)
           k == Cardinality(firsts)
           s == [n \in DOMAIN f |-> [type |-> types[f[n]], root |-> f[n], prev |-> NoIndex, pathlen |-> 0]]
<1>1. Starts(types) = s
  BY DEF Starts
<1>2. Len(types) \in Nat /\ DOMAIN types = 1 .. Len(types) /\ \A i \in DOMAIN types : types[i] \in Types
  BY LenProperties, ElementOfSeq
<1>3. firsts \in SUBSET (0 .. Len(types)) /\ firsts \in SUBSET (1 .. Len(types))
  BY <1>2
<1> HIDE DEF firsts
<1>4. /\ k \in Nat /\ f \in [1 .. k -> firsts] /\ \A m, n \in 1 .. k : f[m] = f[n] => m = n
      /\ \A i \in firsts : \E n \in 1 .. k : f[n] = i
  BY <1>2, <1>3, InOrderOrders
<1>13. \A i \in DOMAIN types : \E j \in firsts : types[j] = types[i]
  <2> TAKE i \in DOMAIN types
  <2> DEFINE T == {j \in DOMAIN types : types[j] = types[i]}
  <2>1. T # {} /\ T \in SUBSET Nat
    BY <1>2
  <2>2. PICK j \in T : \A l \in T : j <= l
    BY <2>1, Inv!NatMin
  <2>3. \A l \in 1 .. j - 1 : l \in DOMAIN types /\ ~(j <= l)
    BY <1>2, <2>2
  <2>4. \A l \in 1 .. j - 1 : types[l] # types[j]
    BY <2>2, <2>3
  <2>5. j \in firsts
    BY <2>2, <2>4 DEF firsts
  <2>6. QED
    BY <2>2, <2>5
<1>5. \A i, j \in firsts : types[i] = types[j] => i = j
  <2> SUFFICES ASSUME NEW i \in firsts, NEW j \in firsts, types[i] = types[j] PROVE i = j
    OBVIOUS
  <2>1. i \in Nat /\ j \in Nat /\ i >= 1 /\ j >= 1
    BY <1>2, <1>3
  <2>2. ~(i \in 1 .. j - 1) /\ ~(j \in 1 .. i - 1)
    BY DEF firsts
  <2>3. QED
    BY <2>1, <2>2
<1> HIDE DEF f, k
<1>6. DOMAIN f = 1 .. k /\ DOMAIN s = 1 .. k
  BY <1>4
<1>7. \A n \in 1 .. k : f[n] \in firsts /\ f[n] \in Nat /\ types[f[n]] \in Types
  <2>1. \A i \in firsts : i \in Nat /\ types[i] \in Types
    BY <1>2, <1>3
  <2>2. \A n \in 1 .. k : f[n] \in firsts
    BY <1>4
  <2>3. QED
    BY <2>1, <2>2
<1>8. \A n \in 1 .. k : s[n].type = types[f[n]] /\ s[n].root = f[n] /\ s[n].prev = NoIndex /\ s[n].pathlen = 0
  BY <1>6
<1>9. s \in [1 .. k -> StackElem]
  BY <1>6, <1>7 DEF StackElem, NoIndex
<1>10. s \in Seq(StackElem)
  BY <1>4, <1>9, ListIsSeq
<1> HIDE DEF s
<1>11. \A m, n \in 1 .. k : s[m].type = s[n].type => m = n
  BY <1>4, <1>5, <1>7, <1>8
<1>12. \A n \in 1 .. k : s[n].root \in DOMAIN types
  BY <1>2, <1>3, <1>7, <1>8
<1>14. \A i \in DOMAIN types : \E n \in 1 .. k : s[n].type = types[i]
  <2> TAKE i \in DOMAIN types
  <2>1. PICK j \in firsts : types[j] = types[i]
    BY <1>13
  <2>2. PICK n \in 1 .. k : f[n] = j
    BY <1>4
  <2>3. QED
    BY <1>8, <2>1, <2>2
<1>15. \A n \in 1 .. k : s[n].type = types[s[n].root]
  BY <1>8
<1>16. \A n \in 1 .. k : s[n].prev = NoIndex /\ s[n].pathlen = 0
  BY <1>8
<1>17. QED
  BY <1>1, <1>6, <1>10, <1>11, <1>12, <1>14, <1>15, <1>16

LEMMA BeginInv == InputOK /\ Begin => IInv
<1> SUFFICES ASSUME InputOK, Begin PROVE IInv
  OBVIOUS
<1>1. stack \in Seq(StackElem) /\ starts \in Seq(Types) /\ stack = Starts(starts)
  BY StartsOnce DEF InputOK, Begin
<1>2. Len(stack) \in Nat /\ Elems = 1 .. Len(stack) /\ \A i \in Elems : stack[i] \in StackElem
  BY <1>1, LenProperties, ElementOfSeq DEF Elems
<1>3. /\ \A i \in Elems : stack[i].prev = NoIndex /\ stack[i].pathlen = 0
      /\ \A i, j \in Elems : stack[i].type = stack[j].type => i = j
  BY <1>1, StartsOnce DEF Elems
<1>4. \A i \in Elems : i \in Nat \ {0} /\ stack[i].prev < i /\ stack[i].prev \in 0 .. i - 1 /\ stack[i].pathlen <= maxCount
  BY <1>2, <1>3 DEF NoIndex, InputOK
<1>5. queue = {[weight |-> 0, index |-> i] : i \in Elems}
  BY DEF Begin, Elems
<1>6. queue \subseteq QueueElem /\ \A q \in queue : q.index \in Elems
  BY <1>4, <1>5 DEF QueueElem
<1>7. \A p, q \in queue : p.index = q.index => p = q
  BY <1>5
<1>8. \A q \in queue : \A i \in Elems : stack[i].prev # q.index
  BY <1>3, <1>4, <1>6 DEF NoIndex
<1>9. TypeOK
  BY <1>1, <1>4, <1>6 DEF TypeOK, Elems, Begin, NoResult
<1>10. QED
  BY <1>2, <1>3, <1>4, <1>7, <1>8, <1>9 DEF IInv, StackOK, Siblings, Unexpanded

-----------------------------------------------------------------------------
(* What one turn of the loop puts on the stack.                            *)
LEMMA PushedOnce ==
  ASSUME IInv, NEW q \in queue
  PROVE  /\ \E k \in Nat : Pushed(q) \in [1 .. k -> Redu]
         /\ \A m, n \in DOMAIN Pushed(q) : Pushed(q)[m].right = Pushed(q)[n].right => m = n
         /\ \A n \in DOMAIN Pushed(q) : Pathlen(q.index, Pushed(q)[n]) <= maxCount
         /\ \A n \in DOMAIN Pushed(q) :
              /\ IsNew(q.index, Pushed(q)[n])
              /\ \E i \in DOMAIN redus[stack[q.index].type] : Pushed(q)[n] = redus[stack[q.index].type][i]
         /\ \A i \in DOMAIN redus[stack[q.index].type] :
              /\ Pathlen(q.index, redus[stack[q.index].type][i]) <= maxCount
              /\ IsNew(q.index, redus[stack[q.index].type][i])
              => \E n \in DOMAIN Pushed(q) : Pushed(q)[n] = redus[stack[q.index].type][i]
<1> DEFINE all == redus[stack[q.index].type]
           may(redu) == Pathlen(q.index, redu) <= maxCount /\ IsNew(q.index, redu)
           ok == {i \in DOMAIN all : may(all[i])}
           f == InOrder(ok)
           k == Cardinality(ok)
           p == [n \in DOMAIN f |-> all[f[n]]]
<1>1. Pushed(q) = p
  BY DEF Pushed
<1>2. stack[q.index].type \in Types
  BY DEF IInv, TypeOK, StackOK, Elems, StackElem
<1>3. all \in Seq(Redu) /\ \A i, j \in DOMAIN all : all[i].right = all[j].right => i = j
  BY <1>2 DEF IInv, TypeOK, InputOK
<1> HIDE DEF all
<1>4. Len(all) \in Nat /\ DOMAIN all = 1 .. Len(all) /\ \A i \in DOMAIN all : all[i] \in Redu
  BY <1>3, LenProperties, ElementOfSeq
<1> HIDE DEF may
<1>5. /\ ok \in SUBSET (0 .. Len(all)) /\ \A i \in ok : i \in DOMAIN all /\ may(all[i])
      /\ \A i \in DOMAIN all : may(all[i]) => i \in ok
  BY <1>4
<1> HIDE DEF ok
<1>6. /\ k \in Nat /\ f \in [1 .. k -> ok] /\ \A m, n \in 1 .. k : f[m] = f[n] => m = n
      /\ \A i \in ok : \E n \in 1 .. k : f[n] = i
  BY <1>4, <1>5, InOrderOrders
<1> HIDE DEF f, k
<1>7. DOMAIN p = 1 .. k /\ \A n \in 1 .. k : p[n] = all[f[n]] /\ f[n] \in ok
  BY <1>6
<1>8. p \in [1 .. k -> Redu]
  BY <1>4, <1>5, <1>6, <1>7
<1> HIDE DEF p
<1>9. \A m, n \in 1 .. k : p[m].right = p[n].right => m = n
  <2> SUFFICES ASSUME NEW m \in 1 .. k, NEW n \in 1 .. k, p[m].right = p[n].right PROVE m = n
    OBVIOUS
  <2>1. f[m] \in DOMAIN all /\ f[n] \in DOMAIN all /\ p[m] = all[f[m]] /\ p[n] = all[f[n]]
    BY <1>5, <1>7
  <2>2. all[f[m]].right = all[f[n]].right
    BY <2>1
  <2>3. f[m] = f[n]
    BY <1>3, <2>1, <2>2
  <2>4. QED
    BY <1>6, <2>3
<1>10. \A n \in 1 .. k : may(p[n]) /\ \E i \in DOMAIN all : p[n] = all[i]
  BY <1>5, <1>7
<1>11. \A i \in DOMAIN all : may(all[i]) => \E n \in 1 .. k : p[n] = all[i]
  BY <1>5, <1>6, <1>7
<1>12. QED
  BY <1>1, <1>6, <1>7, <1>8, <1>9, <1>10, <1>11 DEF may, all

(* The reductions put on the stack are all those to new types, that do not *)
(* exceed the bound of the counted ones.                                   *)
Reduced(q, k, new) ==
  LET all == redus[stack[q.index].type]
  IN  /\ \A n \in 1 .. k : /\ stack'[Len(stack) + n].root = stack[q.index].root
                           /\ stack'[Len(stack) + n].pathlen = Pathlen(q.index, new[n])
                           /\ IsNew(q.index, new[n])
                           /\ \E i \in DOMAIN all : new[n] = all[i]
      /\ \A i \in DOMAIN all :
           Pathlen(q.index, all[i]) <= maxCount /\ IsNew(q.index, all[i]) => \E n \in 1 .. k : new[n] = all[i]

Pushes(q, k, new) ==
  /\ k \in Nat /\ new \in [1 .. k -> Redu]
  /\ \A m, n \in 1 .. k : new[m].right = new[n].right => m = n
  /\ stack' \in Seq(StackElem) /\ Len(stack') = Len(stack) + k
  /\ \A i \in Elems : stack'[i] = stack[i]
  /\ \A n \in 1 .. k : /\ stack'[Len(stack) + n].type = new[n].right
                      /\ stack'[Len(stack) + n].prev = q.index
                      /\ stack'[Len(stack) + n].pathlen <= maxCount
  /\ queue' = (queue \ {q}) \cup {[weight |-> q.weight + new[n].weight, index |-> Len(stack) + n] : n \in 1 .. k}

LEMMA ExpandPushes ==
  ASSUME IInv, NEW q \in queue, Expand(q)
  PROVE  \E k, new : Pushes(q, k, new) /\ Reduced(q, k, new)
<1> DEFINE new == Pushed(q)
           elem(redu) == [type |-> redu.right, root |-> stack[q.index].root,
                          prev |-> q.index, pathlen |-> Pathlen(q.index, redu)]
           elems == [n \in DOMAIN new |-> elem(new[n])]
<1>1. PICK k \in Nat : new \in [1 .. k -> Redu]
  BY PushedOnce
<1>2. /\ \A m, n \in 1 .. k : new[m].right = new[n].right => m = n
      /\ \A n \in 1 .. k : Pathlen(q.index, new[n]) <= maxCount
  BY <1>1, PushedOnce
<1> DEFINE all == redus[stack[q.index].type]
<1>17. /\ \A n \in 1 .. k : IsNew(q.index, new[n]) /\ \E i \in DOMAIN all : new[n] = all[i]
       /\ \A i \in DOMAIN all :
            Pathlen(q.index, all[i]) <= maxCount /\ IsNew(q.index, all[i]) => \E n \in 1 .. k : new[n] = all[i]
  <2>1. DOMAIN new = 1 .. k
    BY <1>1
  <2> HIDE DEF new, all
  <2>2. \A n \in 1 .. k : IsNew(q.index, new[n]) /\ \E i \in DOMAIN all : new[n] = all[i]
    BY <1>1, <2>1, PushedOnce DEF new, all
  <2>3. \A i \in DOMAIN all :
          Pathlen(q.index, all[i]) <= maxCount /\ IsNew(q.index, all[i]) => \E n \in 1 .. k : new[n] = all[i]
    <3> SUFFICES ASSUME NEW i \in DOMAIN all, Pathlen(q.index, all[i]) <= maxCount, IsNew(q.index, all[i])
                 PROVE  \E n \in DOMAIN new : new[n] = all[i]
      BY <2>1
    <3>1. QED
      BY PushedOnce DEF new, all
  <2>4. QED
    BY <2>2, <2>3
<1>3. /\ stack' = stack \o elems
      /\ queue' = (queue \ {q}) \cup
                  {[weight |-> q.weight + new[n].weight, index |-> Len(stack) + n] : n \in DOMAIN new}
  BY DEF Expand
<1> HIDE DEF new
<1>4. stack \in Seq(StackElem) /\ q.index \in Elems /\ q.index \in Nat /\ stack[q.index] \in StackElem
  BY DEF IInv, TypeOK, StackOK, Elems
<1>5. \A redu \in Redu : elem(redu) \in StackElem
  <2> TAKE redu \in Redu
  <2>1. redu.right \in Types /\ redu.counted \in BOOLEAN
    BY DEF Redu
  <2>2. stack[q.index].root \in Nat /\ stack[q.index].pathlen \in Nat
    BY <1>4 DEF StackElem
  <2>3. Pathlen(q.index, redu) \in Nat
    BY <2>2 DEF Pathlen
  <2>4. QED
    BY <1>4, <2>1, <2>2, <2>3 DEF StackElem
<1>6. \A redu : /\ elem(redu).type = redu.right /\ elem(redu).prev = q.index
                /\ elem(redu).root = stack[q.index].root /\ elem(redu).pathlen = Pathlen(q.index, redu)
  OBVIOUS
<1> HIDE DEF elem
<1>7. elems \in [1 .. k -> StackElem] /\ \A n \in 1 .. k : elems[n] = elem(new[n])
  BY <1>1, <1>5
<1> HIDE DEF elems
<1>8. elems \in Seq(StackElem) /\ Len(elems) = k
  BY <1>7, ListIsSeq
<1>9. /\ stack' \in Seq(StackElem) /\ Len(stack') = Len(stack) + k
      /\ \A i \in 1 .. Len(stack) + k :
           stack'[i] = IF i <= Len(stack) THEN stack[i] ELSE elems[i - Len(stack)]
  BY <1>3, <1>4, <1>8, ConcatProperties
<1>10. Len(stack) \in Nat /\ Elems = 1 .. Len(stack)
  BY DEF IInv, StackOK
<1>11. \A i \in Elems : stack'[i] = stack[i]
  BY <1>9, <1>10
<1>12. \A n \in 1 .. k : stack'[Len(stack) + n] = elems[n]
  <2> TAKE n \in 1 .. k
  <2>1. /\ Len(stack) + n \in 1 .. Len(stack) + k /\ ~(Len(stack) + n <= Len(stack))
        /\ Len(stack) + n - Len(stack) = n
    BY <1>10
  <2>2. QED
    BY <1>9, <2>1
<1>13. \A n \in 1 .. k : /\ stack'[Len(stack) + n].type = new[n].right
                       /\ stack'[Len(stack) + n].prev = q.index
                       /\ stack'[Len(stack) + n].pathlen <= maxCount
  <2> TAKE n \in 1 .. k
  <2>1. stack'[Len(stack) + n] = elem(new[n])
    BY <1>7, <1>12
  <2>2. QED
    BY <1>2, <1>6, <2>1
<1>14. DOMAIN new = 1 .. k
  BY <1>1
<1>15. Pushes(q, k, new)
  BY <1>1, <1>2, <1>3, <1>9, <1>11, <1>13, <1>14 DEF Pushes
<1>16. Reduced(q, k, new)
  <2> HIDE DEF all
  <2>1. \A n \in 1 .. k : /\ stack'[Len(stack) + n].root = stack[q.index].root
                         /\ stack'[Len(stack) + n].pathlen = Pathlen(q.index, new[n])
    BY <1>6, <1>7, <1>12
  <2>2. QED
    BY <1>17, <2>1 DEF Reduced, all
<1>18. QED
  BY <1>15, <1>16

LEMMA PushesInv ==
  ASSUME IInv, NEW q \in queue, NEW k, NEW new, Pushes(q, k, new),
         UNCHANGED <<call, conflict>>, result' \in {result, q}
  PROVE  IInv'
<1> DEFINE l == Len(stack)
           old == queue \ {q}
           added == {[weight |-> q.weight + new[n].weight, index |-> l + n] : n \in 1 .. k}
<1>1. /\ l \in Nat /\ Elems = 1 .. l /\ k \in Nat
      /\ \A i \in Elems : stack[i] \in StackElem /\ stack[i].prev \in 0 .. i - 1 /\ stack[i].pathlen <= maxCount
  BY DEF IInv, StackOK, Pushes, TypeOK, Elems
<1>2. /\ stack' \in Seq(StackElem) /\ Len(stack') = l + k
      /\ \A i \in Elems : stack'[i] = stack[i]
      /\ \A n \in 1 .. k : /\ stack'[l + n].type = new[n].right
                          /\ stack'[l + n].prev = q.index
                          /\ stack'[l + n].pathlen <= maxCount
  BY DEF Pushes
<1>3. /\ q.index \in Elems /\ q.index \in Nat /\ q.weight \in Nat /\ queue \subseteq QueueElem
      /\ \A p \in queue : p.index \in Elems
  BY DEF IInv, TypeOK, Elems, QueueElem
<1>4. queue' = old \cup added
  BY DEF Pushes
<1>5. \A n \in 1 .. k : new[n].weight \in Nat
  BY DEF Pushes, Redu
<1>6. Elems' = 1 .. l + k /\ \A i \in Elems' : stack'[i] \in StackElem
  BY <1>2, LenProperties, ElementOfSeq DEF Elems
<1> HIDE DEF l
<1>7. \A i \in Elems' : i \in Elems \/ \E n \in 1 .. k : i = l + n
  <2> TAKE i \in Elems'
  <2>1. CASE i <= l
    BY <1>1, <1>6, <2>1
  <2>2. CASE i > l
    <3>1. i - l \in 1 .. k /\ i = l + (i - l)
      BY <1>1, <1>6, <2>2
    <3>2. QED
      BY <3>1
  <2>3. QED
    BY <1>1, <1>6, <2>1, <2>2
<1>8. \A n \in 1 .. k : l + n \in Elems' /\ l + n \notin Elems /\ l + n \in Nat \ {0} /\ l < l + n
  BY <1>1, <1>6
<1>9. \A i \in Elems : i \in Elems' /\ i <= l /\ i \in Nat
  BY <1>1, <1>6
<1>10. \A i \in Elems' : /\ stack'[i].prev \in 0 .. i - 1 /\ stack'[i].prev < i
                         /\ stack'[i].prev \in Nat /\ stack'[i].prev <= l
                         /\ stack'[i].pathlen <= maxCount
  <2> TAKE i \in Elems'
  <2>1. CASE i \in Elems
    <3>1. stack'[i] = stack[i] /\ stack[i].prev \in 0 .. i - 1 /\ i <= l /\ i \in Nat
      BY <1>1, <1>2, <1>9, <2>1
    <3>2. stack[i].prev \in Nat /\ stack[i].prev < i /\ stack[i].prev <= l
      BY <1>1, <3>1
    <3>3. QED
      BY <1>1, <2>1, <3>1, <3>2
  <2>2. CASE \E n \in 1 .. k : i = l + n
    <3>1. PICK n \in 1 .. k : i = l + n
      BY <2>2
    <3>2. stack'[i].prev = q.index /\ stack'[i].pathlen <= maxCount
      BY <1>2, <3>1
    <3>3. q.index <= l /\ q.index \in 0 .. i - 1 /\ q.index < i
      BY <1>1, <1>3, <1>9, <3>1
    <3>4. QED
      BY <1>3, <3>2, <3>3
  <2>3. QED
    BY <1>7, <2>1, <2>2
<1>11. added \subseteq QueueElem /\ \A p \in added : \E n \in 1 .. k : p.index = l + n
  BY <1>3, <1>5, <1>8 DEF QueueElem
<1>12. \A m, n \in 1 .. k : l + m = l + n => m = n
  BY <1>1
<1>13. \A p, r \in added : p.index = r.index => p = r
  <2> SUFFICES ASSUME NEW p \in added, NEW r \in added, p.index = r.index PROVE p = r
    OBVIOUS
  <2>1. PICK m \in 1 .. k : p = [weight |-> q.weight + new[m].weight, index |-> l + m]
    OBVIOUS
  <2>2. PICK n \in 1 .. k : r = [weight |-> q.weight + new[n].weight, index |-> l + n]
    OBVIOUS
  <2>3. l + m = l + n
    BY <2>1, <2>2
  <2>4. m = n
    BY <1>12, <2>3
  <2>5. QED
    BY <2>1, <2>2, <2>4
<1> HIDE DEF added
<1>14. queue' \subseteq QueueElem /\ \A p \in queue' : p.index \in Elems'
  BY <1>3, <1>4, <1>8, <1>9, <1>11
<1>15. TypeOK'
  <2>1. result'.index \in {NoIndex} \cup Elems' /\ conflict' \in {NoIndex} \cup Elems'
    BY <1>3, <1>9 DEF IInv, TypeOK, Elems
  <2>2. maxCount' = maxCount
    BY DEF call
  <2>3. InputOK'
    BY DEF IInv, TypeOK, InputOK, call
  <2>4. QED
    BY <1>2, <1>10, <1>14, <2>1, <2>2, <2>3 DEF TypeOK, Elems
<1>16. StackOK'
  BY <1>1, <1>2, <1>6, <1>10 DEF StackOK
<1>17. Siblings'
  <2>1. ASSUME NEW i \in Elems', NEW j \in Elems', stack'[i].prev = stack'[j].prev, stack'[i].type = stack'[j].type
        PROVE  i = j
    <3>1. \A e \in Elems : stack'[e].prev # q.index
      BY <1>2 DEF IInv, Unexpanded
    <3>2. CASE i \in Elems /\ j \in Elems
      BY <1>2, <2>1, <3>2 DEF IInv, Siblings
    <3>3. CASE i \notin Elems /\ j \notin Elems
      <4>1. PICK m \in 1 .. k : i = l + m
        BY <1>7, <3>3
      <4>2. PICK n \in 1 .. k : j = l + n
        BY <1>7, <3>3
      <4>3. new[m].right = new[n].right
        BY <1>2, <2>1, <4>1, <4>2
      <4>4. m = n
        BY <4>3 DEF Pushes
      <4>5. QED
        BY <4>1, <4>2, <4>4
    <3>4. \A e \in Elems' : e \notin Elems => stack'[e].prev = q.index
      BY <1>2, <1>7
    <3>5. QED
      BY <2>1, <3>1, <3>2, <3>3, <3>4
  <2>2. QED
    BY <2>1 DEF Siblings
<1>18. Unexpanded'
  <2>1. ASSUME NEW p \in queue', NEW r \in queue', p.index = r.index PROVE p = r
    <3>1. CASE p \in old /\ r \in old
      BY <2>1, <3>1 DEF IInv, Unexpanded
    <3>2. CASE p \in added /\ r \in added
      BY <1>13, <2>1, <3>2
    <3>3. \A a \in old : \A b \in added : a.index # b.index
      BY <1>3, <1>8, <1>11
    <3>4. QED
      BY <1>4, <2>1, <3>1, <3>2, <3>3
  <2>2. ASSUME NEW p \in queue', NEW i \in Elems' PROVE stack'[i].prev # p.index
    <3>1. CASE p \in added
      <4>1. p.index \in Nat /\ l < p.index
        BY <1>8, <1>11, <3>1
      <4>2. stack'[i].prev \in Nat /\ stack'[i].prev <= l
        BY <1>10
      <4>3. QED
        BY <1>1, <4>1, <4>2
    <3>2. CASE p \in old
      <4>1. p.index # q.index
        BY <3>2 DEF IInv, Unexpanded
      <4>2. CASE i \in Elems
        BY <1>2, <3>2, <4>2 DEF IInv, Unexpanded
      <4>3. CASE i \notin Elems
        <5>1. stack'[i].prev = q.index
          BY <1>2, <1>7, <4>3
        <5>2. QED
          BY <4>1, <5>1
      <4>4. QED
        BY <4>2, <4>3
    <3>3. QED
      BY <1>4, <3>1, <3>2
  <2>3. QED
    BY <2>1, <2>2 DEF Unexpanded
<1>19. QED
  BY <1>15, <1>16, <1>17, <1>18 DEF IInv

LEMMA TurnInv == IInv /\ [Turn]_vars => IInv'
<1> SUFFICES ASSUME IInv, [Turn]_vars PROVE IInv'
  OBVIOUS
<1>1. ASSUME NEW q \in queue, UNCHANGED <<call, stack, result>>, queue' = queue \ {q},
             conflict' \in {conflict, q.index}
      PROVE  IInv'
  <2>1. InputOK' /\ StackOK' /\ Siblings' /\ Elems' = Elems
    BY <1>1 DEF IInv, TypeOK, InputOK, call, StackOK, Siblings, Elems
  <2>2. TypeOK' /\ Unexpanded'
    BY <1>1, <2>1 DEF IInv, TypeOK, Unexpanded, call, Elems
  <2>3. QED
    BY <2>1, <2>2 DEF IInv
<1>2. ASSUME NEW q \in queue, Expand(q), UNCHANGED <<call, conflict>>, result' \in {result, q}
      PROVE  IInv'
  BY <1>2, ExpandPushes, PushesInv
<1>3. CASE Turn
  <2>1. ASSUME NEW q \in queue, PopHeavier(q) PROVE IInv'
    BY <1>1, <2>1 DEF PopHeavier
  <2>2. ASSUME NEW q \in queue, PopResult(q) PROVE IInv'
    BY <1>2, <2>2 DEF PopResult
  <2>3. ASSUME NEW q \in queue, PopConflict(q) PROVE IInv'
    BY <1>1, <2>3 DEF PopConflict
  <2>4. ASSUME NEW q \in queue, PopOther(q) PROVE IInv'
    BY <1>2, <2>4 DEF PopOther
  <2>5. CASE Exhausted
    BY <2>5 DEF Exhausted, IInv, InputOK, call, TypeOK, StackOK, Siblings, Unexpanded, Elems
  <2>6. QED
    BY <1>3, <2>1, <2>2, <2>3, <2>4, <2>5 DEF Turn
<1>4. CASE UNCHANGED vars
  BY <1>4 DEF vars, IInv, InputOK, call, TypeOK, StackOK, Siblings, Unexpanded, Elems
<1>5. QED
  BY <1>3, <1>4

LEMMA AlwaysInv == SearchSpec => []IInv
BY BeginInv, TurnInv, PTL DEF SearchSpec

(* Every element leads back to an element that was pushed before it, with  *)
(* no more counted reductions than allowed, and the queue holds elements   *)
(* of the stack only.                                                      *)
THEOREM TypeCorrect == SearchSpec => []TypeOK
<1>1. IInv => TypeOK
  BY DEF IInv
<1>2. QED
  BY <1>1, AlwaysInv, PTL

-----------------------------------------------------------------------------
(* Elements of the stack are told apart by their paths.                    *)
LEMMA LastOfPath ==
  ASSUME NEW p \in Seq(StackElem), NEW r \in Seq(StackElem), NEW e \in StackElem, NEW d \in StackElem,
         TypesOf(Append(p, e)) = TypesOf(Append(r, d))
  PROVE  TypesOf(p) = TypesOf(r) /\ e.type = d.type
<1> DEFINE pe == Append(p, e)
           rd == Append(r, d)
<1>1. /\ pe \in Seq(StackElem) /\ Len(pe) = Len(p) + 1 /\ Len(p) \in Nat
      /\ \A i \in 1 .. Len(p) : pe[i] = p[i]
      /\ pe[Len(p) + 1] = e
  BY AppendProperties, LenProperties
<1>2. /\ rd \in Seq(StackElem) /\ Len(rd) = Len(r) + 1 /\ Len(r) \in Nat
      /\ \A i \in 1 .. Len(r) : rd[i] = r[i]
      /\ rd[Len(r) + 1] = d
  BY AppendProperties, LenProperties
<1>3. /\ DOMAIN pe = 1 .. Len(p) + 1 /\ DOMAIN p = 1 .. Len(p)
      /\ DOMAIN rd = 1 .. Len(r) + 1 /\ DOMAIN r = 1 .. Len(r)
  BY <1>1, <1>2, LenProperties
<1>4. TypesOf(pe) = TypesOf(rd)
  OBVIOUS
<1> HIDE DEF pe, rd
<1>5. DOMAIN pe = DOMAIN rd /\ \A i \in DOMAIN pe : pe[i].type = rd[i].type
  BY <1>4 DEF TypesOf
<1>6. Len(p) = Len(r)
  <2>1. \A m, n \in Nat : 1 .. m + 1 = 1 .. n + 1 => m = n
    <3> SUFFICES ASSUME NEW m \in Nat, NEW n \in Nat, 1 .. m + 1 = 1 .. n + 1 PROVE m = n
      OBVIOUS
    <3>1. m + 1 \in 1 .. n + 1 /\ n + 1 \in 1 .. m + 1
      OBVIOUS
    <3>2. QED
      BY <3>1
  <2>2. QED
    BY <1>1, <1>2, <1>3, <1>5, <2>1
<1>7. e.type = d.type
  BY <1>1, <1>2, <1>3, <1>5, <1>6
<1>8. \A i \in 1 .. Len(p) : p[i].type = r[i].type
  BY <1>1, <1>2, <1>3, <1>5, <1>6
<1>9. TypesOf(p) = TypesOf(r)
  BY <1>3, <1>6, <1>8 DEF TypesOf
<1>10. QED
  BY <1>7, <1>9

LEMMA PathsTyped ==
  ASSUME StackOK
  PROVE  \A i \in 0 .. Len(stack) : Path(i) \in Seq(StackElem)
<1> DEFINE T == {i \in 0 .. Len(stack) : Path(i) \notin Seq(StackElem)}
<1>1. SUFFICES ASSUME T # {} PROVE FALSE
  OBVIOUS
<1>2. T \in SUBSET Nat
  BY DEF StackOK
<1>3. PICK m \in T : \A i \in T : m <= i
  BY <1>1, <1>2, Inv!NatMin
<1>4. m # 0
  BY Paths_, EmptySeq DEF NoIndex
<1>5. m \in Elems /\ stack[m] \in StackElem /\ stack[m].prev \in 0 .. Len(stack) /\ ~(m <= stack[m].prev)
  BY <1>3, <1>4 DEF StackOK
<1>6. Path(stack[m].prev) \in Seq(StackElem)
  BY <1>3, <1>5
<1>7. Path(m) \in Seq(StackElem)
  BY <1>5, <1>6, Paths_, AppendProperties
<1>8. QED
  BY <1>3, <1>7

LEMMA DifferentPaths == IInv => PathsTakenOnce
<1> SUFFICES ASSUME IInv PROVE PathsTakenOnce
  OBVIOUS
<1> DEFINE Twin(i, j) == j # i /\ TypesOf(Path(i)) = TypesOf(Path(j))
           T == {i \in 0 .. Len(stack) : \E j \in 0 .. Len(stack) : Twin(i, j)}
<1>1. StackOK /\ Len(stack) \in Nat /\ Elems = 1 .. Len(stack)
  BY DEF IInv, StackOK
<1>2. T = {}
  <2> SUFFICES ASSUME T # {} PROVE FALSE
    OBVIOUS
  <2>1. T \in SUBSET Nat
    BY <1>1
  <2>2. PICK m \in T : \A i \in T : m <= i
    BY <2>1, Inv!NatMin
  <2>3. PICK j \in 0 .. Len(stack) : Twin(m, j)
    BY <2>2
  <2>4. m \in 0 .. Len(stack) /\ j # m /\ TypesOf(Path(m)) = TypesOf(Path(j))
    BY <2>2, <2>3
  <2>5. DOMAIN TypesOf(Path(0)) = {}
    <3>1. Path(0) = <<>>
      BY <1>1, Paths_ DEF NoIndex
    <3>2. QED
      BY <3>1 DEF TypesOf
  <2>6. ASSUME NEW i \in Elems
        PROVE  /\ Path(i) = Append(Path(stack[i].prev), stack[i])
               /\ Path(stack[i].prev) \in Seq(StackElem) /\ stack[i] \in StackElem
               /\ stack[i].prev \in 0 .. Len(stack) /\ stack[i].prev < i
               /\ DOMAIN TypesOf(Path(i)) # {}
    <3>1. stack[i] \in StackElem /\ stack[i].prev \in 0 .. Len(stack) /\ stack[i].prev < i
      BY <1>1 DEF StackOK
    <3>2. Path(i) = Append(Path(stack[i].prev), stack[i]) /\ Path(stack[i].prev) \in Seq(StackElem)
      BY <1>1, <3>1, Paths_, PathsTyped
    <3>3. Path(i) \in Seq(StackElem) /\ Len(Path(i)) = Len(Path(stack[i].prev)) + 1
      BY <3>1, <3>2, AppendProperties
    <3>4. Len(Path(stack[i].prev)) \in Nat /\ DOMAIN Path(i) = 1 .. Len(Path(i))
      BY <3>2, <3>3, LenProperties
    <3>5. 1 \in DOMAIN Path(i)
      BY <3>3, <3>4
    <3>6. DOMAIN TypesOf(Path(i)) # {}
      BY <3>5 DEF TypesOf
    <3>7. QED
      BY <3>1, <3>2, <3>6
  <2>7. m \in Elems /\ j \in Elems
    <3>1. m # 0 \/ j # 0
      BY <2>4
    <3>2. \A i \in 0 .. Len(stack) : i # 0 => i \in Elems
      BY <1>1
    <3>3. QED
      BY <2>4, <2>5, <2>6, <3>1, <3>2
  <2>8. TypesOf(Path(stack[m].prev)) = TypesOf(Path(stack[j].prev)) /\ stack[m].type = stack[j].type
    <3>1. TypesOf(Append(Path(stack[m].prev), stack[m])) = TypesOf(Append(Path(stack[j].prev), stack[j]))
      BY <2>4, <2>6, <2>7
    <3>2. /\ Path(stack[m].prev) \in Seq(StackElem) /\ stack[m] \in StackElem
          /\ Path(stack[j].prev) \in Seq(StackElem) /\ stack[j] \in StackElem
      BY <2>6, <2>7
    <3>3. QED
      BY <3>1, <3>2, LastOfPath
  <2>9. stack[m].prev = stack[j].prev
    <3>1. stack[m].prev \notin T
      <4>1. ~(m <= stack[m].prev)
        BY <2>1, <2>2, <2>6, <2>7, <1>1
      <4>2. QED
        BY <2>2, <4>1
    <3>2. stack[m].prev \in 0 .. Len(stack) /\ stack[j].prev \in 0 .. Len(stack)
      BY <2>6, <2>7
    <3>3. ~Twin(stack[m].prev, stack[j].prev)
      BY <3>1, <3>2
    <3>4. QED
      BY <2>8, <3>3
  <2>10. m = j
    BY <2>7, <2>8, <2>9 DEF IInv, Siblings
  <2>11. QED
    BY <2>4, <2>10
<1>3. ASSUME NEW i \in Elems, NEW j \in Elems, TypesOf(Path(i)) = TypesOf(Path(j)) PROVE i = j
  <2>1. i \in 0 .. Len(stack) /\ j \in 0 .. Len(stack)
    BY <1>1
  <2>2. QED
    BY <1>2, <1>3, <2>1
<1>4. QED
  BY <1>3 DEF PathsTakenOnce, Elems

(* The search looks at a path at most once: no two elements of the stack   *)
(* have the same types along prev, whatever the reductions lead to, and    *)
(* even if a context type is passed twice.                                 *)
THEOREM PathsAlwaysTakenOnce == SearchSpec => []PathsTakenOnce
BY AlwaysInv, DifferentPaths, PTL

-----------------------------------------------------------------------------
(* Sums of the first values of a list.                                     *)
IsTotal(f, c, n) == f = [m \in 0 .. n |-> IF m = 0 THEN 0 ELSE f[m - 1] + c[m]]

LEMMA HasTotals ==
  ASSUME NEW n \in Nat, NEW c
  PROVE  \E f : IsTotal(f, c, n)
<1> DEFINE T == {k \in Nat : ~\E f : IsTotal(f, c, k)}
<1>1. SUFFICES ASSUME T # {} PROVE FALSE
  OBVIOUS
<1>2. PICK k \in T : \A l \in T : k <= l
  BY <1>1, Inv!NatMin
<1>3. k \in Nat /\ ~\E f : IsTotal(f, c, k)
  BY <1>2
<1>4. CASE k = 0
  <2> DEFINE f == [m \in 0 .. 0 |-> 0]
  <2>1. f = [m \in 0 .. 0 |-> IF m = 0 THEN 0 ELSE f[m - 1] + c[m]]
    OBVIOUS
  <2>2. QED
    BY <1>3, <1>4, <2>1 DEF IsTotal
<1>5. CASE k # 0
  <2>1. k - 1 \in Nat /\ ~(k <= k - 1)
    BY <1>3, <1>5
  <2>2. k - 1 \notin T
    BY <1>2, <2>1
  <2>3. PICK g : IsTotal(g, c, k - 1)
    BY <2>1, <2>2
  <2> DEFINE f == [m \in 0 .. k |-> IF m = k THEN g[k - 1] + c[k] ELSE g[m]]
  <2>4. ASSUME NEW m \in 0 .. k
        PROVE  f[m] = IF m = 0 THEN 0 ELSE f[m - 1] + c[m]
    <3>1. CASE m = k
      <4>1. m - 1 \in 0 .. k /\ m - 1 # k /\ k \in 0 .. k
        BY <1>3, <1>5, <3>1
      <4>2. f[m - 1] = g[k - 1] /\ f[k] = g[k - 1] + c[k]
        BY <3>1, <4>1
      <4>3. QED
        BY <1>5, <3>1, <4>2
    <3>2. CASE m # k
      <4>1. m \in 0 .. k - 1 /\ m \in Nat /\ (m # 0 => m - 1 \in 0 .. k /\ m - 1 # k)
        BY <1>3, <3>2
      <4>2. g[m] = IF m = 0 THEN 0 ELSE g[m - 1] + c[m]
        BY <2>3, <4>1 DEF IsTotal
      <4>3. f[m] = g[m] /\ (m # 0 => f[m - 1] = g[m - 1])
        BY <3>2, <4>1
      <4>4. QED
        BY <4>2, <4>3
    <3>3. QED
      BY <3>1, <3>2
  <2>5. f = [m \in 0 .. k |-> IF m = 0 THEN 0 ELSE f[m - 1] + c[m]]
    <3>1. f = [m \in 0 .. k |-> f[m]]
      OBVIOUS
    <3> HIDE DEF f
    <3>2. QED
      BY <2>4, <3>1
  <2>6. QED
    BY <1>3, <2>5 DEF IsTotal
<1>6. QED
  BY <1>4, <1>5

LEMMA TotalIsSum ==
  ASSUME NEW n \in Nat, NEW c
  PROVE  \E f : IsTotal(f, c, n) /\ Total(c, n) = f[n]
<1> DEFINE f == CHOOSE g : IsTotal(g, c, n)
<1>1. IsTotal(f, c, n)
  <2>1. \E g : IsTotal(g, c, n)
    BY HasTotals
  <2>2. QED
    BY <2>1
<1>2. Total(c, n) = f[n]
  BY DEF Total, IsTotal
<1>3. QED
  BY <1>1, <1>2

Agree(c, d, k) == \A i \in 1 .. k : c[i] = d[i]

LEMMA SameSums ==
  ASSUME NEW m \in Nat, NEW n \in Nat, NEW k \in Nat, k <= m, k <= n,
         NEW c, NEW d, Agree(c, d, k),
         NEW f, NEW g, IsTotal(f, c, m), IsTotal(g, d, n)
  PROVE  f[k] = g[k]
<1> DEFINE T == {i \in 0 .. k : f[i] # g[i]}
<1>1. SUFFICES ASSUME T # {} PROVE FALSE
  BY DEF T
<1>2. T \in SUBSET Nat
  OBVIOUS
<1>3. PICK i \in T : \A l \in T : i <= l
  BY <1>1, <1>2, Inv!NatMin
<1>4. i \in 0 .. k /\ i \in Nat /\ i \in 0 .. m /\ i \in 0 .. n /\ f[i] # g[i]
  BY <1>3
<1>5. /\ f[i] = IF i = 0 THEN 0 ELSE f[i - 1] + c[i]
      /\ g[i] = IF i = 0 THEN 0 ELSE g[i - 1] + d[i]
  BY <1>4 DEF IsTotal
<1>6. i # 0
  BY <1>4, <1>5
<1>7. i - 1 \in 0 .. k /\ ~(i <= i - 1) /\ i \in 1 .. k
  BY <1>4, <1>6
<1>8. f[i - 1] = g[i - 1]
  BY <1>3, <1>7
<1>9. QED
  BY <1>4, <1>5, <1>6, <1>7, <1>8 DEF Agree

(* A sum depends on the values summed only.                                *)
LEMMA TotalOfSame ==
  ASSUME NEW k \in Nat, NEW c, NEW d, Agree(c, d, k)
  PROVE  Total(c, k) = Total(d, k)
<1>1. PICK f : IsTotal(f, c, k) /\ Total(c, k) = f[k]
  BY TotalIsSum
<1>2. PICK g : IsTotal(g, d, k) /\ Total(d, k) = g[k]
  BY TotalIsSum
<1>3. k <= k
  OBVIOUS
<1>4. f[k] = g[k]
  BY <1>1, <1>2, <1>3, SameSums
<1>5. QED
  BY <1>1, <1>2, <1>4

LEMMA TotalStep ==
  ASSUME NEW k \in Nat, NEW c
  PROVE  Total(c, 0) = 0 /\ Total(c, k + 1) = Total(c, k) + c[k + 1]
<1>1. PICK f : IsTotal(f, c, k) /\ Total(c, k) = f[k]
  BY TotalIsSum
<1>2. PICK g : IsTotal(g, c, k + 1) /\ Total(c, k + 1) = g[k + 1]
  BY TotalIsSum
<1>3. PICK z : IsTotal(z, c, 0) /\ Total(c, 0) = z[0]
  BY TotalIsSum
<1>4. k + 1 \in Nat /\ k <= k /\ k <= k + 1 /\ k + 1 \in 0 .. k + 1 /\ k + 1 # 0 /\ k + 1 - 1 = k
  OBVIOUS
<1>5. f[k] = g[k]
  <2>1. Agree(c, c, k)
    BY DEF Agree
  <2>2. QED
    BY <1>1, <1>2, <1>4, <2>1, SameSums
<1>6. g[k + 1] = g[k] + c[k + 1]
  BY <1>2, <1>4 DEF IsTotal
<1>7. z[0] = 0
  BY <1>3 DEF IsTotal
<1>8. QED
  BY <1>1, <1>2, <1>3, <1>5, <1>6, <1>7

(* Sums of natural numbers grow.                                           *)
LEMMA TotalGrows ==
  ASSUME NEW n \in Nat, NEW c, \A i \in 1 .. n : c[i] \in Nat,
         NEW k \in 0 .. n
  PROVE  Total(c, k) \in Nat /\ Total(c, n) \in Nat /\ Total(c, k) <= Total(c, n)
<1> DEFINE ok(m) == Total(c, m) \in Nat /\ (k <= m => Total(c, k) <= Total(c, m))
           T == {m \in 0 .. n : ~ok(m)}
<1>1. T = {}
  <2> SUFFICES ASSUME T # {} PROVE FALSE
    OBVIOUS
  <2>1. T \in SUBSET Nat
    OBVIOUS
  <2>2. PICK m \in T : \A l \in T : m <= l
    BY <2>1, Inv!NatMin
  <2>3. m \in 0 .. n /\ m \in Nat /\ ~ok(m)
    BY <2>2
  <2> HIDE DEF ok
  <2>4. m # 0
    <3>1. Total(c, 0) = 0
      BY TotalStep
    <3>2. ok(0)
      <4>1. k <= 0 => k = 0
        OBVIOUS
      <4>2. QED
        BY <3>1, <4>1 DEF ok
    <3>3. QED
      BY <2>3, <3>2
  <2>5. m - 1 \in 0 .. n /\ m - 1 \in Nat /\ ~(m <= m - 1) /\ m \in 1 .. n /\ m - 1 + 1 = m
    BY <2>3, <2>4
  <2>6. ok(m - 1)
    BY <2>2, <2>5
  <2>7. Total(c, m) = Total(c, m - 1) + c[m]
    BY <2>5, TotalStep
  <2>8. ok(m)
    <3>1. c[m] \in Nat /\ Total(c, m - 1) \in Nat
      BY <2>5, <2>6 DEF ok
    <3>2. Total(c, m) \in Nat /\ Total(c, m - 1) <= Total(c, m)
      BY <2>7, <3>1
    <3>3. ASSUME k <= m PROVE Total(c, k) <= Total(c, m)
      <4>1. CASE k = m
        BY <3>2, <4>1
      <4>2. CASE k # m
        <5>1. k <= m - 1
          BY <2>3, <3>3, <4>2
        <5>2. Total(c, k) <= Total(c, m - 1) /\ Total(c, k) \in Nat
          <6>1. k \notin T
            <7>1. ~(m <= k)
              BY <2>3, <3>3, <4>2
            <7>2. QED
              BY <2>2, <7>1
          <6>2. ok(k)
            BY <6>1
          <6>3. QED
            BY <2>6, <5>1, <6>2 DEF ok
        <5>3. QED
          BY <3>1, <3>2, <5>2
      <4>3. QED
        BY <4>1, <4>2
    <3>4. QED
      BY <3>2, <3>3 DEF ok
  <2>9. QED
    BY <2>3, <2>8
<1>2. ok(k) /\ ok(n)
  <2>1. k \in 0 .. n /\ n \in 0 .. n
    OBVIOUS
  <2> HIDE DEF ok
  <2>2. QED
    BY <1>1, <2>1
<1>3. QED
  BY <1>2

-----------------------------------------------------------------------------
(* The weight and the counted reductions of a path.                        *)
Weights(p) == [i \in 1 .. Len(p) - 1 |-> Reduction(p[i], p[i + 1]).weight]

Counts(p) == [i \in 1 .. Len(p) - 1 |-> IF Reduction(p[i], p[i + 1]).counted THEN 1 ELSE 0]

LEMMA SumsOfPath ==
  ASSUME NEW p
  PROVE  Weight(p) = Total(Weights(p), Len(p) - 1) /\ Count(p) = Total(Counts(p), Len(p) - 1)
BY DEF Weight, Count, Weights, Counts

LEMMA ReductionTyped ==
  ASSUME InputOK, NEW from \in Types, NEW to, IsReducible(from, to)
  PROVE  Reduction(from, to) \in Redu
<1> DEFINE all == redus[from]
           i == CHOOSE n \in DOMAIN all : all[n].right = to
<1>1. all \in Seq(Redu)
  BY DEF InputOK
<1>2. i \in DOMAIN all
  BY DEF IsReducible
<1>3. Reduction(from, to) = all[i]
  BY DEF Reduction
<1> HIDE DEF all, i
<1>4. QED
  BY <1>1, <1>2, <1>3, ElementOfSeq

LEMMA ReductionOf ==
  ASSUME InputOK, NEW from \in Types, NEW n \in DOMAIN redus[from]
  PROVE  /\ IsReducible(from, redus[from][n].right)
         /\ Reduction(from, redus[from][n].right) = redus[from][n]
<1> DEFINE all == redus[from]
           i == CHOOSE m \in DOMAIN all : all[m].right = all[n].right
<1>1. i \in DOMAIN all /\ all[i].right = all[n].right
  OBVIOUS
<1>2. i = n
  BY <1>1 DEF InputOK
<1>3. Reduction(from, all[n].right) = all[i]
  BY DEF Reduction
<1>4. QED
  BY <1>2, <1>3 DEF IsReducible

IsChain(p) == \A i \in 1 .. Len(p) - 1 : IsReducible(p[i], p[i + 1])

LEMMA ValuesNatural ==
  ASSUME InputOK, NEW p \in Seq(Types), IsChain(p), NEW i \in 1 .. Len(p) - 1
  PROVE  Weights(p)[i] \in Nat /\ Counts(p)[i] \in Nat
<1>1. Len(p) \in Nat /\ DOMAIN p = 1 .. Len(p) /\ \A n \in DOMAIN p : p[n] \in Types
  BY LenProperties, ElementOfSeq
<1>2. i \in 1 .. Len(p) /\ i + 1 \in 1 .. Len(p)
  BY <1>1
<1>3. Reduction(p[i], p[i + 1]) \in Redu
  BY <1>1, <1>2, ReductionTyped DEF IsChain
<1>4. QED
  BY <1>3 DEF Weights, Counts, Redu

LEMMA SumsOfOne ==
  ASSUME NEW t
  PROVE  Weight(<<t>>) = 0 /\ Count(<<t>>) = 0
<1>1. Len(<<t>>) - 1 = 0 /\ 0 \in Nat
  OBVIOUS
<1>2. QED
  BY <1>1, SumsOfPath, TotalStep

LEMMA AppendSums ==
  ASSUME NEW p \in Seq(Types), Len(p) >= 1, NEW t \in Types
  PROVE  /\ Weight(Append(p, t)) = Weight(p) + Reduction(p[Len(p)], t).weight
         /\ Count(Append(p, t)) = Count(p) + (IF Reduction(p[Len(p)], t).counted THEN 1 ELSE 0)
<1> DEFINE r == Append(p, t)
           n == Len(p)
<1>1. n \in Nat /\ n >= 1 /\ n - 1 \in Nat /\ n - 1 + 1 = n
  BY LenProperties
<1>2. /\ r \in Seq(Types) /\ Len(r) = n + 1 /\ r[n + 1] = t
      /\ \A i \in 1 .. n : r[i] = p[i]
  BY AppendProperties
<1> HIDE DEF r, n
<1>3. Len(r) - 1 = n
  BY <1>1, <1>2
<1>4. \A i \in 1 .. n - 1 : i \in 1 .. n /\ i + 1 \in 1 .. n
  BY <1>1
<1>5. n \in 1 .. n
  BY <1>1
<1>6. Agree(Weights(r), Weights(p), n - 1) /\ Agree(Counts(r), Counts(p), n - 1)
  BY <1>2, <1>3, <1>4 DEF Agree, Weights, Counts, n
<1>7. /\ Weights(r)[n] = Reduction(p[n], t).weight
      /\ Counts(r)[n] = IF Reduction(p[n], t).counted THEN 1 ELSE 0
  BY <1>2, <1>3, <1>5 DEF Weights, Counts
<1>8. /\ Total(Weights(r), n) = Total(Weights(r), n - 1) + Weights(r)[n]
      /\ Total(Counts(r), n) = Total(Counts(r), n - 1) + Counts(r)[n]
  BY <1>1, TotalStep
<1>9. /\ Total(Weights(r), n - 1) = Total(Weights(p), n - 1)
      /\ Total(Counts(r), n - 1) = Total(Counts(p), n - 1)
  BY <1>1, <1>6, TotalOfSame
<1>10. /\ Weight(r) = Total(Weights(r), n) /\ Count(r) = Total(Counts(r), n)
       /\ Weight(p) = Total(Weights(p), n - 1) /\ Count(p) = Total(Counts(p), n - 1)
  BY <1>3, SumsOfPath DEF n
<1>11. QED
  BY <1>7, <1>8, <1>9, <1>10 DEF r, n

(* The first k types of a path are a path that is not heavier.             *)
Prefix(p, k) == [i \in 1 .. k |-> p[i]]

LEMMA PrefixIsSeq ==
  ASSUME NEW p \in Seq(Types), NEW k \in 1 .. Len(p)
  PROVE  /\ Prefix(p, k) \in Seq(Types) /\ Len(Prefix(p, k)) = k
         /\ k \in Nat /\ \A i \in 1 .. k : Prefix(p, k)[i] = p[i]
<1>1. Len(p) \in Nat /\ DOMAIN p = 1 .. Len(p) /\ \A n \in DOMAIN p : p[n] \in Types
  BY LenProperties, ElementOfSeq
<1>2. k \in Nat /\ \A i \in 1 .. k : i \in 1 .. Len(p)
  BY <1>1
<1>3. Prefix(p, k) \in [1 .. k -> Types]
  BY <1>1, <1>2 DEF Prefix
<1>4. QED
  BY <1>2, <1>3, ListIsSeq DEF Prefix

LEMMA PrefixLighter ==
  ASSUME InputOK, NEW p \in Seq(Types), IsChain(p), NEW k \in 1 .. Len(p)
  PROVE  /\ Weight(Prefix(p, k)) \in Nat /\ Weight(p) \in Nat /\ Weight(Prefix(p, k)) <= Weight(p)
         /\ Count(Prefix(p, k)) \in Nat /\ Count(p) \in Nat /\ Count(Prefix(p, k)) <= Count(p)
<1> DEFINE r == Prefix(p, k)
           n == Len(p)
<1>1. n \in Nat /\ k \in Nat /\ n - 1 \in Nat /\ k - 1 \in Nat /\ k - 1 \in 0 .. n - 1
  BY LenProperties
<1>2. Len(r) = k /\ \A i \in 1 .. k : r[i] = p[i]
  BY PrefixIsSeq
<1> HIDE DEF r, n
<1>3. \A i \in 1 .. k - 1 : i \in 1 .. k /\ i + 1 \in 1 .. k /\ i \in 1 .. n - 1
  BY <1>1 DEF n
<1>4. Agree(Weights(r), Weights(p), k - 1) /\ Agree(Counts(r), Counts(p), k - 1)
  BY <1>2, <1>3 DEF Agree, Weights, Counts, n
<1>5. \A i \in 1 .. n - 1 : Weights(p)[i] \in Nat /\ Counts(p)[i] \in Nat
  BY ValuesNatural DEF n
<1>6. /\ Total(Weights(p), k - 1) \in Nat /\ Total(Weights(p), n - 1) \in Nat
      /\ Total(Weights(p), k - 1) <= Total(Weights(p), n - 1)
  BY <1>1, <1>5, TotalGrows
<1>7. /\ Total(Counts(p), k - 1) \in Nat /\ Total(Counts(p), n - 1) \in Nat
      /\ Total(Counts(p), k - 1) <= Total(Counts(p), n - 1)
  BY <1>1, <1>5, TotalGrows
<1>8. /\ Total(Weights(r), k - 1) = Total(Weights(p), k - 1)
      /\ Total(Counts(r), k - 1) = Total(Counts(p), k - 1)
  BY <1>1, <1>4, TotalOfSame
<1>9. /\ Weight(r) = Total(Weights(r), k - 1) /\ Count(r) = Total(Counts(r), k - 1)
      /\ Weight(p) = Total(Weights(p), n - 1) /\ Count(p) = Total(Counts(p), n - 1)
  BY <1>2, SumsOfPath DEF n
<1>10. QED
  BY <1>6, <1>7, <1>8, <1>9 DEF r

LEMMA PrefixIsPath ==
  ASSUME NEW p \in Seq(Types), IsPath(p), NEW k \in 1 .. Len(p)
  PROVE  IsChain(p) /\ IsPath(Prefix(p, k))
<1> DEFINE r == Prefix(p, k)
<1>1. Len(p) \in Nat /\ DOMAIN p = 1 .. Len(p) /\ k \in Nat /\ 1 \in 1 .. k
  BY LenProperties
<1>2. Len(r) = k /\ DOMAIN r = 1 .. k /\ \A i \in 1 .. k : r[i] = p[i]
  BY PrefixIsSeq, LenProperties
<1> HIDE DEF r
<1>3. /\ \A i \in 1 .. k - 1 : i \in 1 .. k /\ i + 1 \in 1 .. k /\ i \in 1 .. Len(p) - 1
      /\ \A i \in 1 .. k : i \in DOMAIN p
  BY <1>1
<1>4. IsChain(p)
  BY DEF IsPath, IsChain
<1>5. IsPath(r)
  BY <1>1, <1>2, <1>3 DEF IsPath
<1>6. QED
  BY <1>4, <1>5 DEF r

LEMMA PrefixGrows ==
  ASSUME NEW p \in Seq(Types), Len(p) >= 1
  PROVE  /\ Prefix(p, 1) = <<p[1]>> /\ Prefix(p, Len(p)) = p
         /\ \A k \in 1 .. Len(p) - 1 : Prefix(p, k + 1) = Append(Prefix(p, k), p[k + 1])
<1>1. Len(p) \in Nat /\ DOMAIN p = 1 .. Len(p) /\ p = [i \in 1 .. Len(p) |-> p[i]]
  BY LenProperties
<1>2. Prefix(p, Len(p)) = p
  BY <1>1 DEF Prefix
<1>3. Prefix(p, 1) = <<p[1]>>
  <2>1. Prefix(p, 1) \in Seq(Types) /\ Len(Prefix(p, 1)) = 1 /\ Prefix(p, 1)[1] = p[1]
    <3>1. 1 \in 1 .. Len(p) /\ 1 \in 1 .. 1
      BY <1>1
    <3>2. QED
      BY <3>1, PrefixIsSeq
  <2>2. p[1] \in Types
    BY <1>1, ElementOfSeq
  <2>3. QED
    BY <2>1, <2>2
<1>4. ASSUME NEW k \in 1 .. Len(p) - 1 PROVE Prefix(p, k + 1) = Append(Prefix(p, k), p[k + 1])
  <2>1. k \in 1 .. Len(p) /\ k + 1 \in 1 .. Len(p) /\ k \in Nat
    BY <1>1
  <2> DEFINE r == Prefix(p, k + 1)
             s == Prefix(p, k)
             a == Append(s, p[k + 1])
  <2>2. p[k + 1] \in Types
    BY <1>1, <2>1, ElementOfSeq
  <2>3. /\ r \in Seq(Types) /\ Len(r) = k + 1 /\ \A i \in 1 .. k + 1 : r[i] = p[i]
        /\ s \in Seq(Types) /\ Len(s) = k /\ \A i \in 1 .. k : s[i] = p[i]
    BY <2>1, PrefixIsSeq
  <2> HIDE DEF r, s
  <2>4. a \in Seq(Types) /\ Len(a) = k + 1 /\ a[k + 1] = p[k + 1] /\ \A i \in 1 .. k : a[i] = s[i]
    BY <2>2, <2>3, AppendProperties
  <2> HIDE DEF a
  <2>5. \A i \in 1 .. k + 1 : i \in 1 .. k \/ i = k + 1
    BY <2>1
  <2>6. \A i \in 1 .. k + 1 : r[i] = a[i]
    BY <2>3, <2>4, <2>5
  <2>7. r = a
    BY <2>3, <2>4, <2>6, SeqEqual
  <2>8. QED
    BY <2>7 DEF r, s, a
<1>5. QED
  BY <1>2, <1>3, <1>4

LEMMA AppendIsPath ==
  ASSUME NEW p \in Seq(Types), Len(p) >= 1, NEW t \in Types
  PROVE  IsPath(Append(p, t)) <=> /\ IsPath(p) /\ IsReducible(p[Len(p)], t)
                                  /\ \A i \in DOMAIN p : p[i] # t
<1> DEFINE r == Append(p, t)
           n == Len(p)
<1>1. n \in Nat /\ n >= 1 /\ DOMAIN p = 1 .. n
  BY LenProperties
<1>2. /\ r \in Seq(Types) /\ Len(r) = n + 1 /\ r[n + 1] = t
      /\ \A i \in 1 .. n : r[i] = p[i]
  BY AppendProperties
<1>3. DOMAIN r = 1 .. n + 1
  BY <1>2, LenProperties
<1> HIDE DEF r
<1>11. n \in Nat /\ n >= 1
  BY <1>1
<1> HIDE DEF n
<1>4. /\ \A i \in 1 .. n + 1 : i \in 1 .. n \/ i = n + 1
      /\ \A i \in 1 .. n : i \in 1 .. n + 1 /\ i # n + 1
      /\ \A i \in 1 .. n : i \in 1 .. n - 1 \/ i = n
      /\ \A i \in 1 .. n - 1 : i \in 1 .. n /\ i + 1 \in 1 .. n
      /\ 1 \in 1 .. n /\ n \in 1 .. n /\ n + 1 - 1 = n /\ n + 1 \in 1 .. n + 1
  BY <1>11
<1>5. r[1] = p[1] /\ Len(r) - 1 = n
  BY <1>2, <1>4
<1>6. (\A i \in 1 .. n : IsReducible(r[i], r[i + 1])) <=>
        (\A i \in 1 .. n - 1 : IsReducible(p[i], p[i + 1])) /\ IsReducible(p[n], t)
  BY <1>2, <1>4
<1>7. (\A i, j \in 1 .. n + 1 : r[i] = r[j] => i = j) <=>
        (\A i, j \in 1 .. n : p[i] = p[j] => i = j) /\ (\A i \in 1 .. n : p[i] # t)
  BY <1>2, <1>4
<1>8. Len(p) = n
  BY DEF n
<1>9. IsPath(r) <=> IsPath(p) /\ IsReducible(p[n], t) /\ \A i \in 1 .. n : p[i] # t
  BY <1>1, <1>3, <1>5, <1>6, <1>7, <1>8 DEF IsPath
<1>10. QED
  BY <1>1, <1>8, <1>9 DEF r

-----------------------------------------------------------------------------
(* The paths of the elements, P, one for each element of the stack, and    *)
(* what the search knows of them.                                          *)
Shows(P) ==
  /\ DOMAIN P = Elems
  /\ \A i \in Elems : /\ P[i] \in Seq(Types) /\ Len(P[i]) >= 1 /\ P[i][Len(P[i])] = stack[i].type
                      /\ stack[i].prev = NoIndex => P[i] = <<stack[i].type>>
                      /\ stack[i].prev # NoIndex => P[i] = Append(P[stack[i].prev], stack[i].type)

Valid(P) ==
  \A i \in Elems : /\ IsPath(P[i]) /\ Count(P[i]) = stack[i].pathlen
                   /\ stack[i].root \in DOMAIN starts /\ starts[stack[i].root] = P[i][1]

Weighed(P) == \A q \in queue : q.weight = Weight(P[q.index])

LEMMA TypesOfAppend ==
  ASSUME NEW p \in Seq(StackElem), NEW e \in StackElem, TypesOf(p) \in Seq(Types)
  PROVE  TypesOf(Append(p, e)) = Append(TypesOf(p), e.type)
<1> DEFINE r == Append(p, e)
           s == TypesOf(p)
           a == Append(s, e.type)
<1>1. Len(p) \in Nat /\ DOMAIN p = 1 .. Len(p) /\ e.type \in Types
  BY LenProperties DEF StackElem
<1>2. /\ r \in Seq(StackElem) /\ Len(r) = Len(p) + 1 /\ r[Len(p) + 1] = e
      /\ \A i \in 1 .. Len(p) : r[i] = p[i]
  BY AppendProperties
<1>3. DOMAIN r = 1 .. Len(p) + 1
  BY <1>2, LenProperties
<1>4. DOMAIN s = 1 .. Len(p) /\ \A i \in 1 .. Len(p) : s[i] = p[i].type
  BY <1>1 DEF TypesOf
<1>5. s \in Seq(Types) /\ s \in [1 .. Len(p) -> Types]
  <2>1. s \in Seq(Types) /\ \A i \in DOMAIN s : s[i] \in Types
    BY ElementOfSeq
  <2>2. s = [i \in DOMAIN s |-> s[i]]
    BY DEF TypesOf
  <2> HIDE DEF s
  <2>3. QED
    BY <1>4, <2>1, <2>2
<1>6. Len(s) = Len(p)
  BY <1>1, <1>5, ListIsSeq
<1> HIDE DEF r, s
<1>7. /\ a \in Seq(Types) /\ Len(a) = Len(p) + 1 /\ a[Len(p) + 1] = e.type
      /\ \A i \in 1 .. Len(p) : a[i] = s[i]
  BY <1>1, <1>5, <1>6, AppendProperties
<1>8. DOMAIN a = 1 .. Len(p) + 1 /\ a = [i \in DOMAIN a |-> a[i]]
  BY <1>7, LenProperties
<1> HIDE DEF a
<1>9. \A i \in 1 .. Len(p) + 1 : i \in 1 .. Len(p) \/ i = Len(p) + 1
  BY <1>1
<1>10. \A i \in 1 .. Len(p) + 1 : r[i].type = a[i]
  BY <1>2, <1>4, <1>7, <1>9
<1>11. TypesOf(r) = a
  BY <1>3, <1>8, <1>10 DEF TypesOf
<1>12. QED
  BY <1>11 DEF r, s, a

LEMMA ShownByPath ==
  ASSUME StackOK, NEW P, Shows(P)
  PROVE  \A i \in Elems : TypesOf(Path(i)) = P[i]
<1> DEFINE T == {i \in Elems : TypesOf(Path(i)) # P[i]}
<1>1. SUFFICES ASSUME T # {} PROVE FALSE
  OBVIOUS
<1>2. T \in SUBSET Nat
  BY DEF StackOK
<1>3. PICK m \in T : \A i \in T : m <= i
  BY <1>1, <1>2, Inv!NatMin
<1>4. /\ m \in Elems /\ m \in Nat /\ stack[m] \in StackElem /\ stack[m].prev \in 0 .. Len(stack)
      /\ ~(m <= stack[m].prev)
      /\ stack[m].prev # NoIndex => stack[m].prev \in Elems
  BY <1>3 DEF StackOK, NoIndex
<1>5. Path(m) = Append(Path(stack[m].prev), stack[m]) /\ Path(stack[m].prev) \in Seq(StackElem)
  BY <1>4, Paths_, PathsTyped
<1>6. CASE stack[m].prev = NoIndex
  <2>1. Path(NoIndex) = <<>>
    BY Paths_
  <2>2. TypesOf(<<>>) = <<>>
    BY DEF TypesOf
  <2>3. TypesOf(Append(<<>>, stack[m])) = Append(<<>>, stack[m].type)
    <3>1. <<>> \in Seq(StackElem) /\ <<>> \in Seq(Types)
      BY EmptySeq
    <3>2. QED
      BY <1>4, <2>2, <3>1, TypesOfAppend
  <2>4. Append(<<>>, stack[m].type) = <<stack[m].type>>
    OBVIOUS
  <2>5. TypesOf(Path(m)) = P[m]
    BY <1>4, <1>5, <1>6, <2>1, <2>3, <2>4 DEF Shows
  <2>6. QED
    BY <1>3, <2>5
<1>7. CASE stack[m].prev # NoIndex
  <2>1. TypesOf(Path(stack[m].prev)) = P[stack[m].prev] /\ P[stack[m].prev] \in Seq(Types)
    BY <1>3, <1>4, <1>7 DEF Shows
  <2>2. TypesOf(Path(m)) = Append(P[stack[m].prev], stack[m].type)
    BY <1>4, <1>5, <2>1, TypesOfAppend
  <2>3. TypesOf(Path(m)) = P[m]
    BY <1>4, <1>7, <2>2 DEF Shows
  <2>4. QED
    BY <1>3, <2>3
<1>8. QED
  BY <1>6, <1>7

LEMMA NewOnPath ==
  ASSUME StackOK, NEW P, Shows(P), NEW i \in Elems, NEW redu
  PROVE  IsNew(i, redu) <=> \A n \in DOMAIN P[i] : P[i][n] # redu.right
<1>1. P[i] = TypesOf(Path(i))
  BY ShownByPath
<1>2. DOMAIN P[i] = DOMAIN Path(i) /\ \A n \in DOMAIN Path(i) : P[i][n] = Path(i)[n].type
  BY <1>1 DEF TypesOf
<1>3. QED
  BY <1>2 DEF IsNew

(* What is said of a path in the reductions of the search stays true.      *)
LEMMA SameCall ==
  ASSUME UNCHANGED call, NEW CONSTANT p
  PROVE  Weight(p)' = Weight(p) /\ Count(p)' = Count(p) /\ (IsPath(p)' <=> IsPath(p))
<1>1. redus' = redus /\ starts' = starts
  BY DEF call
<1>2. Weight(p)' = Weight(p)
  BY <1>1 DEF Weight, Reduction
<1>3. Count(p)' = Count(p)
  BY <1>1 DEF Count, Reduction
<1>4. IsPath(p)' <=> IsPath(p)
  BY <1>1 DEF IsPath, IsReducible
<1>5. QED
  BY <1>2, <1>3, <1>4

(* A path made longer by a reduction to a new type is a path.              *)
IsReduced(r, P, e, redu) ==
  /\ r = Append(P[e], redu.right)
  /\ r \in Seq(Types) /\ Len(r) >= 1 /\ r[Len(r)] = redu.right
  /\ IsPath(r) /\ Count(r) = Pathlen(e, redu)
  /\ Weight(r) = Weight(P[e]) + redu.weight
  /\ r[1] = P[e][1]

LEMMA ReducedPath ==
  ASSUME IInv, NEW P, Shows(P), Valid(P), NEW e \in Elems,
         NEW redu, \E i \in DOMAIN redus[stack[e].type] : redu = redus[stack[e].type][i],
         IsNew(e, redu)
  PROVE  IsReduced(Append(P[e], redu.right), P, e, redu)
<1> DEFINE from == stack[e].type
           r == Append(P[e], redu.right)
<1>1. from \in Types /\ InputOK /\ StackOK
  BY DEF IInv, TypeOK, StackOK, StackElem
<1>2. redu \in Redu
  <2>1. redus[from] \in Seq(Redu)
    BY <1>1 DEF InputOK
  <2>2. QED
    BY <2>1, ElementOfSeq
<1>3. IsReducible(from, redu.right) /\ Reduction(from, redu.right) = redu
  BY <1>1, ReductionOf
<1>4. P[e] \in Seq(Types) /\ Len(P[e]) >= 1 /\ P[e][Len(P[e])] = from /\ redu.right \in Types
  BY <1>2 DEF Shows, Redu
<1>5. IsPath(P[e]) /\ Count(P[e]) = stack[e].pathlen
  BY DEF Valid
<1>6. \A n \in DOMAIN P[e] : P[e][n] # redu.right
  BY <1>1, NewOnPath
<1>7. stack[e].pathlen \in Nat
  BY DEF IInv, StackOK, StackElem
<1> HIDE DEF from
<1>9. Len(P[e]) \in Nat /\ 1 \in 1 .. Len(P[e])
  BY <1>4, LenProperties
<1>10. /\ r \in Seq(Types) /\ Len(r) = Len(P[e]) + 1 /\ r[Len(P[e]) + 1] = redu.right
       /\ r[1] = P[e][1]
  BY <1>4, <1>9, AppendProperties
<1>11. IsPath(r)
  BY <1>3, <1>4, <1>5, <1>6, AppendIsPath
<1>12. /\ Weight(r) = Weight(P[e]) + redu.weight
       /\ Count(r) = stack[e].pathlen + (IF redu.counted THEN 1 ELSE 0)
  BY <1>3, <1>4, <1>5, AppendSums
<1> HIDE DEF r
<1>13. Count(r) = Pathlen(e, redu)
  BY <1>7, <1>12 DEF Pathlen
<1>14. Len(r) >= 1
  BY <1>9, <1>10
<1>15. IsReduced(r, P, e, redu)
  BY <1>10, <1>11, <1>12, <1>13, <1>14 DEF IsReduced, r
<1>16. QED
  BY <1>15 DEF r

Extends(P2, P, q, k, new) ==
  /\ DOMAIN P2 = 1 .. Len(stack) + k
  /\ \A i \in Elems : P2[i] = P[i]
  /\ \A n \in 1 .. k : P2[Len(stack) + n] = Append(P[q.index], new[n].right)

LEMMA HasExtension ==
  ASSUME IInv, NEW P, NEW q, NEW k \in Nat, NEW new
  PROVE  \E P2 : Extends(P2, P, q, k, new)
<1> DEFINE l == Len(stack)
           P2 == [i \in 1 .. l + k |-> IF i \in Elems THEN P[i] ELSE Append(P[q.index], new[i - l].right)]
<1>1. l \in Nat /\ Elems = 1 .. l
  BY DEF IInv, StackOK
<1> HIDE DEF l
<1>2. \A i \in Elems : i \in 1 .. l + k
  BY <1>1
<1>3. DOMAIN P2 = 1 .. l + k /\ \A i \in Elems : P2[i] = P[i]
  BY <1>2
<1>4. ASSUME NEW n \in 1 .. k PROVE P2[l + n] = Append(P[q.index], new[n].right)
  <2>1. PICK j \in 1 .. l + k : j = l + n /\ j \notin Elems /\ j - l = n
    BY <1>1
  <2>2. P2[j] = Append(P[q.index], new[j - l].right)
    BY <2>1
  <2> HIDE DEF P2
  <2>3. QED
    BY <2>1, <2>2
<1> HIDE DEF P2
<1>5. Extends(P2, P, q, k, new)
  BY <1>3, <1>4 DEF Extends, l
<1>6. QED
  BY <1>5

(* The elements of the stack after the reductions of q were put on it.     *)
LEMMA PushedElems ==
  ASSUME IInv, NEW q \in queue, NEW k, NEW new, Pushes(q, k, new)
  PROVE  /\ Len(stack) \in Nat /\ k \in Nat /\ Elems = 1 .. Len(stack) /\ Elems' = 1 .. Len(stack) + k
         /\ q.index \in Elems /\ q.index # NoIndex
         /\ \A i \in Elems : i \in Elems' /\ stack'[i] = stack[i]
         /\ \A i \in Elems' : i \in Elems \/ \E n \in 1 .. k : i = Len(stack) + n
         /\ \A n \in 1 .. k : Len(stack) + n \in Elems' /\ Len(stack) + n \notin Elems
<1>1. Len(stack) \in Nat /\ Elems = 1 .. Len(stack) /\ q.index \in Elems
  BY DEF IInv, StackOK, TypeOK, Elems
<1>2. /\ k \in Nat /\ stack' \in Seq(StackElem) /\ Len(stack') = Len(stack) + k
      /\ \A i \in Elems : stack'[i] = stack[i]
  BY DEF Pushes
<1>3. Elems' = 1 .. Len(stack) + k
  BY <1>2, LenProperties DEF Elems
<1>4. q.index # NoIndex
  BY <1>1 DEF NoIndex
<1>5. ASSUME NEW i \in 1 .. Len(stack) + k
      PROVE  i \in 1 .. Len(stack) \/ \E n \in 1 .. k : i = Len(stack) + n
  <2>1. CASE i <= Len(stack)
    BY <1>1, <2>1
  <2>2. CASE i > Len(stack)
    <3>1. i - Len(stack) \in 1 .. k /\ i = Len(stack) + (i - Len(stack))
      BY <1>1, <1>2, <2>2
    <3>2. QED
      BY <3>1
  <2>3. QED
    BY <1>1, <1>2, <2>1, <2>2
<1>6. \A n \in 1 .. k : Len(stack) + n \in 1 .. Len(stack) + k /\ Len(stack) + n \notin 1 .. Len(stack)
  BY <1>1, <1>2
<1>7. \A i \in 1 .. Len(stack) : i \in 1 .. Len(stack) + k
  BY <1>1, <1>2
<1>8. QED
  BY <1>1, <1>2, <1>3, <1>4, <1>5, <1>6, <1>7

(* The pushed elements show the paths reduced to.                          *)
LEMMA PushedShown ==
  ASSUME IInv, NEW P, Shows(P), Valid(P), NEW q \in queue, NEW k, NEW new,
         Pushes(q, k, new), Reduced(q, k, new), NEW n \in 1 .. k
  PROVE  IsReduced(Append(P[q.index], new[n].right), P, q.index, new[n])
<1>1. q.index \in Elems
  BY PushedElems
<1>2. /\ \E i \in DOMAIN redus[stack[q.index].type] : new[n] = redus[stack[q.index].type][i]
      /\ IsNew(q.index, new[n])
  BY DEF Reduced
<1>3. QED
  BY <1>1, <1>2, ReducedPath

Known(P) == Shows(P) /\ Valid(P) /\ Weighed(P)

Step(P, P2, q, k, new) ==
  /\ IInv /\ Known(P) /\ q \in queue
  /\ Pushes(q, k, new) /\ Reduced(q, k, new) /\ UNCHANGED call
  /\ Extends(P2, P, q, k, new)

LEMMA StepShows ==
  ASSUME NEW CONSTANT P, NEW CONSTANT P2, NEW CONSTANT q, NEW CONSTANT k, NEW CONSTANT new,
         Step(P, P2, q, k, new)
  PROVE  Shows(P2)'
<1>1. /\ IInv /\ Shows(P) /\ Valid(P) /\ q \in queue /\ Pushes(q, k, new) /\ Reduced(q, k, new)
      /\ Extends(P2, P, q, k, new)
  BY DEF Step, Known
<1> DEFINE l == Len(stack)
<1>2. /\ l \in Nat /\ k \in Nat /\ Elems' = 1 .. l + k
      /\ q.index \in Elems /\ q.index # NoIndex
      /\ \A i \in Elems : i \in Elems' /\ stack'[i] = stack[i]
      /\ \A i \in Elems' : i \in Elems \/ \E n \in 1 .. k : i = l + n
  <2>1. l \in Nat /\ k \in Nat /\ Elems' = 1 .. l + k
    BY <1>1, PushedElems
  <2>2. q.index \in Elems /\ q.index # NoIndex /\ \A i \in Elems : i \in Elems' /\ stack'[i] = stack[i]
    BY <1>1, PushedElems
  <2>3. \A i \in Elems' : i \in Elems \/ \E n \in 1 .. k : i = l + n
    BY <1>1, PushedElems
  <2>4. QED
    BY <2>1, <2>2, <2>3
<1>3. /\ DOMAIN P2 = 1 .. l + k /\ \A i \in Elems : P2[i] = P[i]
      /\ \A n \in 1 .. k : P2[l + n] = Append(P[q.index], new[n].right)
  BY <1>1 DEF Extends
<1>4. \A i \in Elems : stack[i].prev # NoIndex => stack[i].prev \in Elems
  BY <1>1 DEF IInv, StackOK, NoIndex
<1>5. \A n \in 1 .. k : stack'[l + n].type = new[n].right /\ stack'[l + n].prev = q.index
  BY <1>1 DEF Pushes
<1> HIDE DEF l
<1>6. ASSUME NEW i \in Elems'
      PROVE  /\ P2[i] \in Seq(Types) /\ Len(P2[i]) >= 1 /\ P2[i][Len(P2[i])] = stack'[i].type
             /\ stack'[i].prev = NoIndex => P2[i] = <<stack'[i].type>>
             /\ stack'[i].prev # NoIndex => P2[i] = Append(P2[stack'[i].prev], stack'[i].type)
  <2>1. CASE i \in Elems
    <3>1. P2[i] = P[i] /\ stack'[i] = stack[i]
      BY <1>2, <1>3, <2>1
    <3>2. stack[i].prev # NoIndex => P2[stack[i].prev] = P[stack[i].prev]
      BY <1>3, <1>4, <2>1
    <3>3. QED
      BY <1>1, <2>1, <3>1, <3>2 DEF Shows
  <2>2. ASSUME NEW n \in 1 .. k, i = l + n
        PROVE  /\ P2[i] \in Seq(Types) /\ Len(P2[i]) >= 1 /\ P2[i][Len(P2[i])] = stack'[i].type
               /\ stack'[i].prev # NoIndex /\ P2[i] = Append(P2[stack'[i].prev], stack'[i].type)
    <3>1. IsReduced(Append(P[q.index], new[n].right), P, q.index, new[n])
      BY <1>1, PushedShown
    <3>2. P2[i] = Append(P[q.index], new[n].right) /\ P2[q.index] = P[q.index]
      BY <1>2, <1>3, <2>2
    <3>3. stack'[i].type = new[n].right /\ stack'[i].prev = q.index
      BY <1>5, <2>2
    <3>4. P2[i] \in Seq(Types) /\ Len(P2[i]) >= 1 /\ P2[i][Len(P2[i])] = new[n].right
      BY <3>1, <3>2 DEF IsReduced
    <3>5. QED
      BY <1>2, <3>2, <3>3, <3>4
  <2>3. QED
    BY <1>2, <2>1, <2>2
<1>7. QED
  BY <1>2, <1>3, <1>6 DEF Shows

LEMMA StepValid ==
  ASSUME NEW CONSTANT P, NEW CONSTANT P2, NEW CONSTANT q, NEW CONSTANT k, NEW CONSTANT new,
         Step(P, P2, q, k, new)
  PROVE  Valid(P2)'
<1>1. /\ IInv /\ Shows(P) /\ Valid(P) /\ q \in queue /\ Pushes(q, k, new) /\ Reduced(q, k, new)
      /\ Extends(P2, P, q, k, new) /\ UNCHANGED call
  BY DEF Step, Known
<1> DEFINE l == Len(stack)
<1>2. /\ q.index \in Elems
      /\ \A i \in Elems : i \in Elems' /\ stack'[i] = stack[i]
      /\ \A i \in Elems' : i \in Elems \/ \E n \in 1 .. k : i = l + n
  BY <1>1, PushedElems
<1>3. /\ \A i \in Elems : P2[i] = P[i]
      /\ \A n \in 1 .. k : P2[l + n] = Append(P[q.index], new[n].right)
  BY <1>1 DEF Extends
<1>4. \A n \in 1 .. k : /\ stack'[l + n].root = stack[q.index].root
                       /\ stack'[l + n].pathlen = Pathlen(q.index, new[n])
  BY <1>1 DEF Reduced
<1>5. starts' = starts
  BY <1>1 DEF call
<1> HIDE DEF l
<1>6. ASSUME NEW i \in Elems'
      PROVE  /\ IsPath(P2[i]) /\ Count(P2[i]) = stack'[i].pathlen
             /\ stack'[i].root \in DOMAIN starts /\ starts[stack'[i].root] = P2[i][1]
  <2>1. CASE i \in Elems
    <3>1. P2[i] = P[i] /\ stack'[i] = stack[i]
      BY <1>2, <1>3, <2>1
    <3>2. QED
      BY <1>1, <2>1, <3>1 DEF Valid
  <2>2. ASSUME NEW n \in 1 .. k, i = l + n
        PROVE  /\ IsPath(P2[i]) /\ Count(P2[i]) = stack'[i].pathlen
               /\ stack'[i].root \in DOMAIN starts /\ starts[stack'[i].root] = P2[i][1]
    <3>1. IsReduced(Append(P[q.index], new[n].right), P, q.index, new[n])
      BY <1>1, PushedShown
    <3>2. P2[i] = Append(P[q.index], new[n].right)
      BY <1>3, <2>2
    <3>3. stack'[i].root = stack[q.index].root /\ stack'[i].pathlen = Pathlen(q.index, new[n])
      BY <1>4, <2>2
    <3>4. IsPath(P2[i]) /\ Count(P2[i]) = Pathlen(q.index, new[n]) /\ P2[i][1] = P[q.index][1]
      BY <3>1, <3>2 DEF IsReduced
    <3>5. stack[q.index].root \in DOMAIN starts /\ starts[stack[q.index].root] = P[q.index][1]
      BY <1>1, <1>2 DEF Valid
    <3>6. QED
      BY <3>3, <3>4, <3>5
  <2>3. QED
    BY <1>2, <2>1, <2>2
<1>7. ASSUME NEW CONSTANT i, i \in Elems'
      PROVE  /\ IsPath(P2[i])' /\ Count(P2[i])' = stack'[i].pathlen
             /\ stack'[i].root \in DOMAIN starts' /\ starts'[stack'[i].root] = P2[i][1]
  <2>1. Count(P2[i])' = Count(P2[i]) /\ (IsPath(P2[i])' <=> IsPath(P2[i]))
    BY <1>1, SameCall
  <2>2. QED
    BY <1>5, <1>6, <1>7, <2>1
<1>8. QED
  BY <1>7 DEF Valid

LEMMA StepWeighed ==
  ASSUME NEW CONSTANT P, NEW CONSTANT P2, NEW CONSTANT q, NEW CONSTANT k, NEW CONSTANT new,
         Step(P, P2, q, k, new)
  PROVE  Weighed(P2)'
<1>1. /\ IInv /\ Shows(P) /\ Valid(P) /\ Weighed(P) /\ q \in queue
      /\ Pushes(q, k, new) /\ Reduced(q, k, new)
      /\ Extends(P2, P, q, k, new) /\ UNCHANGED call
  BY DEF Step, Known
<1> DEFINE l == Len(stack)
<1>2. /\ \A i \in Elems : P2[i] = P[i]
      /\ \A n \in 1 .. k : P2[l + n] = Append(P[q.index], new[n].right)
  BY <1>1 DEF Extends
<1>3. queue' = (queue \ {q}) \cup {[weight |-> q.weight + new[n].weight, index |-> l + n] : n \in 1 .. k}
  BY <1>1 DEF Pushes
<1>4. ASSUME NEW CONSTANT r, r \in queue'
      PROVE  r.weight = Weight(P2[r.index])
  <2>1. CASE r \in queue
    <3>1. r.index \in Elems
      BY <1>1, <2>1 DEF IInv, TypeOK, Elems
    <3>2. QED
      BY <1>1, <1>2, <2>1, <3>1 DEF Weighed
  <2>2. ASSUME NEW n \in 1 .. k, r = [weight |-> q.weight + new[n].weight, index |-> l + n]
        PROVE  r.weight = Weight(P2[r.index])
    <3>1. IsReduced(Append(P[q.index], new[n].right), P, q.index, new[n])
      BY <1>1, PushedShown
    <3>2. r.weight = q.weight + new[n].weight /\ r.index = l + n
      BY <2>2
    <3>3. P2[r.index] = Append(P[q.index], new[n].right)
      BY <1>2, <3>2
    <3>4. Weight(P2[r.index]) = Weight(P[q.index]) + new[n].weight
      BY <3>1, <3>3 DEF IsReduced
    <3>5. q.weight = Weight(P[q.index])
      BY <1>1 DEF Weighed
    <3>6. QED
      BY <3>2, <3>4, <3>5
  <2>3. QED
    BY <1>3, <1>4, <2>1, <2>2
<1>5. ASSUME NEW CONSTANT r, r \in queue'
      PROVE  r.weight = Weight(P2[r.index])'
  <2>1. Weight(P2[r.index])' = Weight(P2[r.index])
    BY <1>1, SameCall
  <2>2. QED
    BY <1>4, <1>5, <2>1
<1>6. QED
  BY <1>5 DEF Weighed

LEMMA StepKnown ==
  ASSUME NEW CONSTANT P, NEW CONSTANT P2, NEW CONSTANT q, NEW CONSTANT k, NEW CONSTANT new,
         Step(P, P2, q, k, new)
  PROVE  Known(P2)'
BY StepShows, StepValid, StepWeighed DEF Known

-----------------------------------------------------------------------------
(* The search misses nothing: the paths of the elements not in the queue   *)
(* have been made longer by all reductions, so that every other path there *)
(* is goes through an element in the queue.                                *)
Popped == {i \in Elems : \A q \in queue : q.index # i}

Admissible(p) == IsPath(p) /\ Count(p) <= maxCount

Complete(P) ==
  /\ \A i \in DOMAIN starts : \E e \in Elems : P[e] = <<starts[i]>>
  /\ \A e \in Popped : \A t \in Types : Admissible(Append(P[e], t)) => \E i \in Elems : P[i] = Append(P[e], t)

LEMMA SameAdmissible ==
  ASSUME UNCHANGED call, NEW CONSTANT p
  PROVE  Admissible(p)' <=> Admissible(p)
<1>1. maxCount' = maxCount
  BY DEF call
<1>2. Count(p)' = Count(p) /\ (IsPath(p)' <=> IsPath(p))
  BY SameCall
<1>3. QED
  BY <1>1, <1>2 DEF Admissible

LEMMA StepPopped ==
  ASSUME IInv, NEW CONSTANT q, q \in queue, NEW CONSTANT k, NEW CONSTANT new, Pushes(q, k, new)
  PROVE  Popped' = Popped \cup {q.index}
<1> DEFINE l == Len(stack)
           added == {[weight |-> q.weight + new[n].weight, index |-> l + n] : n \in 1 .. k}
<1>1. /\ q.index \in Elems
      /\ \A i \in Elems : i \in Elems'
      /\ \A i \in Elems' : i \in Elems \/ \E n \in 1 .. k : i = l + n
      /\ \A n \in 1 .. k : l + n \notin Elems
  BY PushedElems
<1>2. queue' = (queue \ {q}) \cup added
  BY DEF Pushes
<1> HIDE DEF l
<1>3. /\ \A r \in added : \E n \in 1 .. k : r.index = l + n
      /\ \A n \in 1 .. k : \E r \in added : r.index = l + n
  <2>1. \A r \in added : \E n \in 1 .. k : r.index = l + n
    OBVIOUS
  <2>2. ASSUME NEW n \in 1 .. k PROVE \E r \in added : r.index = l + n
    <3>1. PICK r : r = [weight |-> q.weight + new[n].weight, index |-> l + n]
      OBVIOUS
    <3>2. r \in added
      BY <3>1
    <3>3. r.index = l + n
      BY <3>1
    <3> HIDE DEF added
    <3>4. QED
      BY <3>2, <3>3
  <2> HIDE DEF added
  <2>3. QED
    BY <2>1, <2>2
<1> HIDE DEF added
<1>4. \A r \in queue : r.index = q.index => r = q
  BY DEF IInv, Unexpanded
<1>5. \A i \in Elems : (\A r \in queue' : r.index # i) <=> (\A r \in queue : r.index # i) \/ i = q.index
  <2> TAKE i \in Elems
  <2>1. \A r \in added : r.index # i
    BY <1>1, <1>3
  <2>2. CASE i = q.index
    BY <1>2, <1>4, <2>1, <2>2
  <2>3. CASE i # q.index
    BY <1>2, <2>1, <2>3
  <2>4. QED
    BY <2>2, <2>3
<1>6. \A i \in Elems' : i \notin Elems => \E r \in queue' : r.index = i
  BY <1>1, <1>2, <1>3
<1>7. QED
  BY <1>1, <1>5, <1>6 DEF Popped

LEMMA StepComplete ==
  ASSUME NEW CONSTANT P, NEW CONSTANT P2, NEW CONSTANT q, NEW CONSTANT k, NEW CONSTANT new,
         Step(P, P2, q, k, new), Complete(P)
  PROVE  Complete(P2)'
<1>1. /\ IInv /\ Shows(P) /\ Valid(P) /\ q \in queue /\ Pushes(q, k, new) /\ Reduced(q, k, new)
      /\ Extends(P2, P, q, k, new) /\ UNCHANGED call
  BY DEF Step, Known
<1> DEFINE l == Len(stack)
<1>2. q.index \in Elems /\ \A i \in Elems : i \in Elems'
  BY <1>1, PushedElems
<1>3. \A n \in 1 .. k : l + n \in Elems'
  BY <1>1, PushedElems
<1>4. /\ \A i \in Elems : P2[i] = P[i]
      /\ \A n \in 1 .. k : P2[l + n] = Append(P[q.index], new[n].right)
  BY <1>1 DEF Extends
<1>5. starts' = starts
  BY <1>1 DEF call
<1>6. Popped' = Popped \cup {q.index} /\ Popped \subseteq Elems
  BY <1>1, StepPopped DEF Popped
<1> HIDE DEF l
<1>7. \A i \in DOMAIN starts' : \E e \in Elems' : P2[e] = <<starts'[i]>>
  BY <1>2, <1>4, <1>5 DEF Complete
<1>8. ASSUME NEW CONSTANT e, e \in Popped', NEW CONSTANT t, t \in Types, Admissible(Append(P2[e], t))
      PROVE  \E i \in Elems' : P2[i] = Append(P2[e], t)
  <2>1. e \in Elems /\ P2[e] = P[e]
    BY <1>2, <1>4, <1>6, <1>8
  <2>2. CASE e \in Popped
    BY <1>2, <1>4, <1>8, <2>1, <2>2 DEF Complete
  <2>3. CASE e = q.index
    <3> DEFINE from == stack[e].type
               all == redus[from]
    <3>1. /\ P[e] \in Seq(Types) /\ Len(P[e]) >= 1 /\ P[e][Len(P[e])] = from
          /\ Count(P[e]) = stack[e].pathlen /\ stack[e].pathlen \in Nat
      BY <1>1, <2>1 DEF Shows, Valid, IInv, StackOK, StackElem
    <3>2. IsPath(Append(P[e], t)) /\ Count(Append(P[e], t)) <= maxCount
      BY <1>8, <2>1 DEF Admissible
    <3>3. IsReducible(from, t) /\ \A i \in DOMAIN P[e] : P[e][i] # t
      BY <1>8, <3>1, <3>2, AppendIsPath
    <3>4. PICK i \in DOMAIN all : all[i].right = t
      BY <3>3 DEF IsReducible
    <3>5. from \in Types /\ InputOK /\ StackOK
      BY <1>1, <2>1 DEF IInv, TypeOK, StackOK, StackElem
    <3>6. Reduction(from, t) = all[i]
      BY <3>4, <3>5, ReductionOf
    <3>7. Count(Append(P[e], t)) = stack[e].pathlen + (IF all[i].counted THEN 1 ELSE 0)
      BY <1>8, <3>1, <3>6, AppendSums
    <3>8. Pathlen(e, all[i]) = Count(Append(P[e], t))
      BY <3>1, <3>7 DEF Pathlen
    <3>9. IsNew(e, all[i])
      BY <1>1, <2>1, <3>3, <3>4, <3>5, NewOnPath
    <3>10. PICK n \in 1 .. k : new[n] = all[i]
      BY <1>1, <2>3, <3>2, <3>4, <3>8, <3>9 DEF Reduced
    <3>11. P2[l + n] = Append(P2[e], t)
      BY <1>4, <2>1, <2>3, <3>4, <3>10
    <3>12. QED
      BY <1>3, <3>11
  <2>4. QED
    BY <1>6, <1>8, <2>2, <2>3
<1>9. ASSUME NEW CONSTANT e, e \in Popped', NEW CONSTANT t, t \in Types, Admissible(Append(P2[e], t))'
      PROVE  \E i \in Elems' : P2[i] = Append(P2[e], t)
  <2>1. Admissible(Append(P2[e], t))
    BY <1>1, <1>9, SameAdmissible
  <2>2. QED
    BY <1>8, <1>9, <2>1
<1>10. QED
  BY <1>7, <1>9 DEF Complete

(* Every path is the path of an element that has left the queue, or there  *)
(* is an element in the queue that is not heavier.                         *)
LEMMA Frontier ==
  ASSUME IInv, NEW P, Known(P), Complete(P),
         NEW p \in Seq(Types), Len(p) >= 1, Admissible(p)
  PROVE  (\E e \in Popped : P[e] = p) \/ (\E q \in queue : q.weight <= Weight(p))
<1> DEFINE T == {k \in 1 .. Len(p) : ~\E e \in Popped : P[e] = Prefix(p, k)}
<1>1. InputOK /\ IsPath(p) /\ IsChain(p) /\ Len(p) \in Nat
      /\ 1 \in 1 .. Len(p) /\ Len(p) \in 1 .. Len(p)
  <2>1. Len(p) \in Nat /\ 1 \in 1 .. Len(p) /\ Len(p) \in 1 .. Len(p)
    BY LenProperties
  <2>2. QED
    BY <2>1, PrefixIsPath DEF Admissible, IInv, TypeOK
<1>2. CASE T = {}
  <2>1. Prefix(p, Len(p)) = p
    BY PrefixGrows
  <2>2. QED
    BY <1>1, <1>2, <2>1
<1>3. CASE T # {}
  <2>1. T \in SUBSET Nat
    BY <1>1
  <2>2. PICK k \in T : \A m \in T : k <= m
    BY <1>3, <2>1, Inv!NatMin
  <2>3. k \in 1 .. Len(p) /\ k \in Nat /\ ~\E e \in Popped : P[e] = Prefix(p, k)
    BY <2>1, <2>2
  <2>4. \E e \in Elems : P[e] = Prefix(p, k)
    <3>1. CASE k = 1
      <4>1. PICK i \in DOMAIN starts : starts[i] = p[1]
        BY <1>1 DEF IsPath
      <4>2. Prefix(p, 1) = <<starts[i]>>
        BY <4>1, PrefixGrows
      <4>3. QED
        BY <3>1, <4>2 DEF Complete
    <3>2. CASE k # 1
      <4>1. k - 1 \in 1 .. Len(p) - 1 /\ k - 1 \in 1 .. Len(p) /\ k - 1 + 1 = k /\ ~(k <= k - 1)
        BY <1>1, <2>3, <3>2
      <4>2. PICK e \in Popped : P[e] = Prefix(p, k - 1)
        BY <2>2, <4>1
      <4>3. Prefix(p, k) = Append(P[e], p[k])
        BY <4>1, <4>2, PrefixGrows
      <4>4. p[k] \in Types
        BY <2>3, ElementOfSeq
      <4>5. IsPath(Prefix(p, k)) /\ Count(Prefix(p, k)) <= Count(p) /\ Count(Prefix(p, k)) \in Nat /\ Count(p) \in Nat
        BY <1>1, <2>3, PrefixIsPath, PrefixLighter
      <4>6. Count(p) <= maxCount /\ maxCount \in Nat
        BY <1>1 DEF Admissible, InputOK
      <4>7. Admissible(Prefix(p, k))
        BY <4>5, <4>6 DEF Admissible
      <4>8. QED
        BY <4>2, <4>3, <4>4, <4>7 DEF Complete
    <3>3. QED
      BY <3>1, <3>2
  <2>5. PICK e \in Elems : P[e] = Prefix(p, k)
    BY <2>4
  <2>6. PICK q \in queue : q.index = e
    BY <2>3, <2>5 DEF Popped
  <2>7. q.weight = Weight(Prefix(p, k))
    BY <2>5, <2>6 DEF Known, Weighed
  <2>8. Weight(Prefix(p, k)) <= Weight(p)
    BY <1>1, <2>3, PrefixLighter
  <2>9. QED
    BY <2>7, <2>8
<1>4. QED
  BY <1>2, <1>3

-----------------------------------------------------------------------------
(* What the search looks for, and what it knows of it while it runs and    *)
(* when it has ended.                                                      *)
Solved(p) == Len(p) >= 1 /\ Admissible(p) /\ p[Len(p)] \in goals

EndsInGoal(e) == stack[e].type \in goals

Progress(P) ==
  /\ conflict = NoIndex
  /\ ~Found => \A e \in Popped : ~EndsInGoal(e)
  /\ Found => /\ result.index \in Popped /\ EndsInGoal(result.index)
              /\ result.weight = Weight(P[result.index])
              /\ \A e \in Popped : EndsInGoal(e) => e = result.index
              /\ \A p \in Seq(Types) : Solved(p) => result.weight <= Weight(p)

IsFinished(P, found, tie) ==
  /\ found.index = NoIndex => tie = NoIndex /\ \A p \in Seq(Types) : ~Solved(p)
  /\ found.index # NoIndex => /\ found.index \in Elems /\ EndsInGoal(found.index)
                              /\ found.weight = Weight(P[found.index])
                              /\ \A p \in Seq(Types) : Solved(p) => found.weight <= Weight(p)
  /\ tie = NoIndex /\ found.index # NoIndex =>
       \A p \in Seq(Types) : Solved(p) /\ Weight(p) <= found.weight => p = P[found.index]
  /\ tie # NoIndex => /\ found.index # NoIndex /\ tie \in Elems /\ tie # found.index /\ EndsInGoal(tie)
                      /\ Weight(P[tie]) <= found.weight

Searching(P) ==
  /\ Known(P)
  /\ ~done => Complete(P) /\ Progress(P)
  /\ done => IsFinished(P, result, conflict)

LEMMA SameSolved ==
  ASSUME UNCHANGED call, NEW CONSTANT p
  PROVE  Solved(p)' <=> Solved(p)
<1>1. goals' = goals
  BY DEF call
<1>2. Admissible(p)' <=> Admissible(p)
  BY SameAdmissible
<1>3. QED
  BY <1>1, <1>2 DEF Solved

LEMMA SameKnown ==
  ASSUME UNCHANGED <<call, stack>>, queue' \subseteq queue, NEW CONSTANT P, Known(P)
  PROVE  Known(P)'
<1>1. starts' = starts /\ stack' = stack /\ Elems' = Elems /\ UNCHANGED call
  BY DEF call, Elems
<1>2. Shows(P)'
  BY <1>1 DEF Known, Shows
<1>3. Valid(P)'
  <2>1. ASSUME NEW CONSTANT i, i \in Elems'
        PROVE  /\ IsPath(P[i])' /\ Count(P[i])' = stack'[i].pathlen
               /\ stack'[i].root \in DOMAIN starts' /\ starts'[stack'[i].root] = P[i][1]
    <3>1. Count(P[i])' = Count(P[i]) /\ (IsPath(P[i])' <=> IsPath(P[i]))
      BY <1>1, SameCall
    <3>2. QED
      BY <1>1, <2>1, <3>1 DEF Known, Valid
  <2>2. QED
    BY <2>1 DEF Valid
<1>4. Weighed(P)'
  <2>1. ASSUME NEW CONSTANT r, r \in queue'
        PROVE  r.weight = Weight(P[r.index])'
    <3>1. Weight(P[r.index])' = Weight(P[r.index])
      BY <1>1, SameCall
    <3>2. QED
      BY <2>1, <3>1 DEF Known, Weighed
  <2>2. QED
    BY <2>1 DEF Weighed
<1>5. QED
  BY <1>2, <1>3, <1>4 DEF Known

LEMMA SameFinished ==
  ASSUME UNCHANGED <<call, stack>>, NEW CONSTANT P, NEW CONSTANT found, NEW CONSTANT tie,
         IsFinished(P, found, tie)
  PROVE  IsFinished(P, found, tie)'
<1>1. UNCHANGED call /\ Elems' = Elems
  BY DEF Elems
<1>2. (EndsInGoal(found.index)' <=> EndsInGoal(found.index)) /\ (EndsInGoal(tie)' <=> EndsInGoal(tie))
  BY DEF EndsInGoal, call
<1>3. Weight(P[found.index])' = Weight(P[found.index]) /\ Weight(P[tie])' = Weight(P[tie])
  BY <1>1, SameCall
<1>4. ASSUME NEW CONSTANT p, p \in Seq(Types), Solved(p)' PROVE Solved(p) /\ Weight(p)' = Weight(p)
  BY <1>1, <1>4, SameCall, SameSolved
<1>5. found.index = NoIndex => tie = NoIndex /\ \A p \in Seq(Types) : ~Solved(p)'
  BY <1>4 DEF IsFinished
<1>6. found.index # NoIndex => \A p \in Seq(Types) : Solved(p)' => found.weight <= Weight(p)'
  BY <1>4 DEF IsFinished
<1>7. tie = NoIndex /\ found.index # NoIndex =>
        \A p \in Seq(Types) : Solved(p)' /\ Weight(p)' <= found.weight => p = P[found.index]
  BY <1>4 DEF IsFinished
<1>8. QED
  BY <1>1, <1>2, <1>3, <1>5, <1>6, <1>7 DEF IsFinished

LEMMA TopIsLightest ==
  ASSUME IInv, NEW q \in queue, IsTop(q), NEW r \in queue
  PROVE  q.weight <= r.weight /\ q.weight \in Nat /\ r.weight \in Nat
<1>1. q.weight \in Nat /\ r.weight \in Nat
  BY DEF IInv, TypeOK, QueueElem
<1>2. r = q \/ Before(q, r)
  BY DEF IsTop
<1>3. QED
  BY <1>1, <1>2 DEF Before

(* What is not lighter than the top of the queue has left it.              *)
LEMMA PathsAhead ==
  ASSUME IInv, NEW P, Known(P), Complete(P), NEW p \in Seq(Types), Solved(p)
  PROVE  /\ Weight(p) \in Nat
         /\ \/ \E e \in Popped : P[e] = p /\ EndsInGoal(e)
            \/ \E r \in queue : r.weight <= Weight(p)
<1>1. Admissible(p) /\ Len(p) >= 1 /\ InputOK
  BY DEF Solved, IInv, TypeOK
<1>2. Weight(p) \in Nat
  <2>1. 1 \in 1 .. Len(p)
    BY <1>1, LenProperties
  <2>2. IsChain(p)
    BY <1>1, <2>1, PrefixIsPath DEF Admissible
  <2>3. QED
    BY <1>1, <2>1, <2>2, PrefixLighter
<1>3. ASSUME NEW e \in Popped, P[e] = p PROVE EndsInGoal(e)
  <2>1. e \in Elems
    BY DEF Popped
  <2>2. P[e][Len(P[e])] = stack[e].type
    BY <2>1 DEF Known, Shows
  <2>3. QED
    BY <1>3, <2>2 DEF Solved, EndsInGoal
<1>4. (\E e \in Popped : P[e] = p) \/ (\E r \in queue : r.weight <= Weight(p))
  BY <1>1, Frontier
<1>5. QED
  BY <1>2, <1>3, <1>4

(* The path of an element that ends in a goal is one that is looked for.   *)
LEMMA FoundIsSolved ==
  ASSUME IInv, NEW P, Known(P), NEW e \in Elems, EndsInGoal(e)
  PROVE  P[e] \in Seq(Types) /\ Solved(P[e])
<1>1. /\ P[e] \in Seq(Types) /\ Len(P[e]) >= 1 /\ P[e][Len(P[e])] = stack[e].type
      /\ IsPath(P[e]) /\ Count(P[e]) = stack[e].pathlen
  BY DEF Known, Shows, Valid
<1>2. stack[e].pathlen <= maxCount
  BY DEF IInv, TypeOK, Elems
<1>3. QED
  BY <1>1, <1>2 DEF Solved, Admissible, EndsInGoal

LEMMA SameGoals ==
  ASSUME NEW CONSTANT P, NEW CONSTANT P2, NEW CONSTANT q, NEW CONSTANT k, NEW CONSTANT new,
         Step(P, P2, q, k, new), NEW CONSTANT e, e \in Popped'
  PROVE  /\ e \in Popped \/ e = q.index
         /\ e \in Elems /\ P2[e] = P[e]
         /\ EndsInGoal(e)' <=> EndsInGoal(e)
<1>1. /\ IInv /\ q \in queue /\ Pushes(q, k, new) /\ Extends(P2, P, q, k, new) /\ UNCHANGED call
  BY DEF Step
<1>2. e \in Popped \/ e = q.index
  BY <1>1, StepPopped
<1>3. e \in Elems
  BY <1>1, <1>2, PushedElems DEF Popped
<1>4. stack'[e] = stack[e]
  BY <1>1, <1>3, PushedElems
<1>5. P2[e] = P[e]
  BY <1>1, <1>3 DEF Extends
<1>6. EndsInGoal(e)' <=> EndsInGoal(e)
  BY <1>1, <1>4 DEF EndsInGoal, call
<1>7. QED
  BY <1>2, <1>3, <1>5, <1>6

(* The first path found is the lightest, because it was on top.            *)
LEMMA StepFinds ==
  ASSUME NEW CONSTANT P, NEW CONSTANT P2, NEW CONSTANT q, NEW CONSTANT k, NEW CONSTANT new,
         Step(P, P2, q, k, new), Complete(P), Progress(P),
         ~Found, IsGoal(q), IsTop(q), result' = q, conflict' = conflict
  PROVE  Progress(P2)'
<1>1. /\ IInv /\ Known(P) /\ q \in queue /\ Pushes(q, k, new) /\ UNCHANGED call
  BY DEF Step
<1>2. /\ conflict' = NoIndex /\ q.index # NoIndex /\ q.index \in Elems
      /\ \A e \in Popped : ~EndsInGoal(e)
  BY <1>1, PushedElems DEF Progress
<1>3. q.index \in Popped'
  BY <1>1, StepPopped
<1>4. EndsInGoal(q.index)' /\ P2[q.index] = P[q.index]
  <2>1. EndsInGoal(q.index)
    BY DEF IsGoal, EndsInGoal
  <2>2. PICK e : e = q.index
    OBVIOUS
  <2>3. e \in Popped' /\ EndsInGoal(e)
    BY <1>3, <2>1, <2>2
  <2>4. EndsInGoal(e)' /\ P2[e] = P[e]
    BY <2>3, SameGoals
  <2>5. QED
    BY <2>2, <2>4
<1>5. q.weight = Weight(P2[q.index])'
  <2>1. Weight(P2[q.index])' = Weight(P2[q.index])
    BY <1>1, SameCall
  <2>2. q.weight = Weight(P[q.index])
    BY <1>1 DEF Known, Weighed
  <2>3. QED
    BY <1>4, <2>1, <2>2
<1>6. ASSUME NEW CONSTANT e, e \in Popped', EndsInGoal(e)' PROVE e = q.index
  BY <1>2, <1>6, SameGoals
<1>7. ASSUME NEW CONSTANT p, p \in Seq(Types), Solved(p)' PROVE q.weight <= Weight(p)'
  <2>1. Solved(p) /\ Weight(p)' = Weight(p)
    BY <1>1, <1>7, SameSolved, SameCall
  <2>2. /\ Weight(p) \in Nat
        /\ \/ \E e \in Popped : P[e] = p /\ EndsInGoal(e)
           \/ \E r \in queue : r.weight <= Weight(p)
    BY <1>1, <1>7, <2>1, PathsAhead
  <2>3. PICK r \in queue : r.weight <= Weight(p)
    BY <1>2, <2>2
  <2>4. q.weight <= r.weight /\ q.weight \in Nat /\ r.weight \in Nat
    BY <1>1, TopIsLightest
  <2>5. QED
    BY <2>1, <2>2, <2>3, <2>4
<1>8. result'.index # NoIndex
  BY <1>2
<1>9. QED
  BY <1>2, <1>3, <1>4, <1>5, <1>6, <1>7, <1>8 DEF Progress, Found

(* The search goes on from an element that does not end in a goal.         *)
LEMMA StepGoesOn ==
  ASSUME NEW CONSTANT P, NEW CONSTANT P2, NEW CONSTANT q, NEW CONSTANT k, NEW CONSTANT new,
         Step(P, P2, q, k, new), Complete(P), Progress(P),
         ~IsGoal(q), UNCHANGED <<result, conflict>>
  PROVE  Progress(P2)'
<1>1. /\ IInv /\ Known(P) /\ q \in queue /\ Pushes(q, k, new) /\ UNCHANGED call
  BY DEF Step
<1>2. ~EndsInGoal(q.index) /\ conflict' = NoIndex
  BY DEF IsGoal, EndsInGoal, Progress
<1>3. ASSUME NEW CONSTANT e, e \in Popped', EndsInGoal(e)' PROVE e \in Popped /\ EndsInGoal(e)
  BY <1>2, <1>3, SameGoals
<1>4. CASE ~Found
  BY <1>2, <1>3, <1>4 DEF Progress, Found
<1>5. CASE Found
  <2>1. PICK found : found = result
    OBVIOUS
  <2>2. /\ found.index \in Popped /\ EndsInGoal(found.index) /\ found.weight = Weight(P[found.index])
        /\ \A e \in Popped : EndsInGoal(e) => e = found.index
        /\ \A p \in Seq(Types) : Solved(p) => found.weight <= Weight(p)
    BY <1>5, <2>1 DEF Progress
  <2>3. found.index \in Popped'
    BY <1>1, <2>2, StepPopped
  <2>4. EndsInGoal(found.index)' /\ P2[found.index] = P[found.index]
    BY <2>2, <2>3, SameGoals
  <2>5. found.weight = Weight(P2[found.index])'
    <3>1. Weight(P2[found.index])' = Weight(P2[found.index])
      BY <1>1, SameCall
    <3>2. QED
      BY <2>2, <2>4, <3>1
  <2>6. ASSUME NEW CONSTANT p, p \in Seq(Types), Solved(p)' PROVE found.weight <= Weight(p)'
    BY <1>1, <2>2, <2>6, SameSolved, SameCall
  <2>7. \A e \in Popped' : EndsInGoal(e)' => e = found.index
    BY <1>3, <2>2
  <2>8. result' = found /\ found.index # NoIndex
    BY <1>5, <2>1 DEF Found
  <2>9. QED
    BY <1>2, <2>3, <2>4, <2>5, <2>6, <2>7, <2>8 DEF Progress, Found
<1>6. QED
  BY <1>4, <1>5

(* What is left in the queue is heavier than the path found.               *)
LEMMA HeavierEnds ==
  ASSUME IInv, NEW P, Known(P), Complete(P), Progress(P), NEW q \in queue, IsTop(q),
         Found, q.weight > result.weight
  PROVE  IsFinished(P, result, conflict)
<1>1. /\ conflict = NoIndex /\ result.index \in Elems /\ EndsInGoal(result.index)
      /\ result.weight = Weight(P[result.index])
      /\ \A e \in Popped : EndsInGoal(e) => e = result.index
      /\ \A p \in Seq(Types) : Solved(p) => result.weight <= Weight(p)
  BY DEF Progress, Popped
<1>2. ASSUME NEW p \in Seq(Types), Solved(p), Weight(p) <= result.weight PROVE p = P[result.index]
  <2>1. /\ Weight(p) \in Nat
        /\ \/ \E e \in Popped : P[e] = p /\ EndsInGoal(e)
           \/ \E r \in queue : r.weight <= Weight(p)
    BY <1>2, PathsAhead
  <2>2. ~\E r \in queue : r.weight <= Weight(p)
    <3> SUFFICES ASSUME NEW r \in queue, r.weight <= Weight(p) PROVE FALSE
      OBVIOUS
    <3>1. q.weight <= r.weight /\ q.weight \in Nat /\ r.weight \in Nat
      BY TopIsLightest
    <3>2. result.weight \in Nat
      <4>1. P[result.index] \in Seq(Types) /\ Solved(P[result.index])
        BY <1>1, FoundIsSolved
      <4>2. QED
        BY <1>1, <4>1, PathsAhead
    <3>3. QED
      BY <1>2, <2>1, <3>1, <3>2
  <2>3. QED
    BY <1>1, <2>1, <2>2
<1>3. QED
  BY <1>1, <1>2 DEF IsFinished, Found

LEMMA ExhaustedEnds ==
  ASSUME IInv, NEW P, Known(P), Complete(P), Progress(P), queue = {}
  PROVE  IsFinished(P, result, conflict)
<1>1. ASSUME NEW p \in Seq(Types), Solved(p)
      PROVE  \E e \in Popped : P[e] = p /\ EndsInGoal(e)
  BY <1>1, PathsAhead
<1>2. CASE ~Found
  BY <1>1, <1>2 DEF Progress, IsFinished, Found
<1>3. CASE Found
  BY <1>1, <1>3 DEF Progress, IsFinished, Found, Popped
<1>4. QED
  BY <1>2, <1>3

LEMMA ConflictEnds ==
  ASSUME IInv, NEW P, Known(P), Progress(P), NEW q \in queue,
         Found, IsGoal(q), q.weight <= result.weight
  PROVE  IsFinished(P, result, q.index)
<1>1. /\ result.index \in Popped /\ EndsInGoal(result.index)
      /\ result.weight = Weight(P[result.index])
      /\ \A p \in Seq(Types) : Solved(p) => result.weight <= Weight(p)
  BY DEF Progress
<1>2. q.index \in Elems /\ q.index # NoIndex /\ q.index # result.index /\ result.index \in Elems
  BY <1>1 DEF Popped, IInv, TypeOK, Elems, QueueElem, NoIndex
<1>3. Weight(P[q.index]) <= result.weight
  BY DEF Known, Weighed
<1>4. EndsInGoal(q.index)
  BY DEF IsGoal, EndsInGoal
<1>5. QED
  BY <1>1, <1>2, <1>3, <1>4 DEF IsFinished, Found

LEMMA SameProgress ==
  ASSUME UNCHANGED <<call, stack, queue, result, conflict>>, NEW CONSTANT P, Complete(P), Progress(P)
  PROVE  Complete(P)' /\ Progress(P)'
<1>1. UNCHANGED call /\ Elems' = Elems /\ Popped' = Popped /\ starts' = starts
  BY DEF Elems, Popped, call
<1>2. \A e : EndsInGoal(e)' <=> EndsInGoal(e)
  BY DEF EndsInGoal, call
<1>3. Complete(P)'
  <2>1. ASSUME NEW CONSTANT e, e \in Popped', NEW CONSTANT t, t \in Types, Admissible(Append(P[e], t))'
        PROVE  \E i \in Elems' : P[i] = Append(P[e], t)
    <3>1. Admissible(Append(P[e], t))
      BY <1>1, <2>1, SameAdmissible
    <3>2. QED
      BY <1>1, <2>1, <3>1 DEF Complete
  <2>2. QED
    BY <1>1, <2>1 DEF Complete
<1>4. Progress(P)'
  <2>1. PICK found : found = result
    OBVIOUS
  <2>2. result' = found /\ Weight(P[found.index])' = Weight(P[found.index]) /\ (Found' <=> Found)
    BY <1>1, <2>1, SameCall DEF Found
  <2>3. ASSUME NEW CONSTANT p, p \in Seq(Types), Solved(p)' PROVE Solved(p) /\ Weight(p)' = Weight(p)
    BY <1>1, <2>3, SameSolved, SameCall
  <2>4. ASSUME Found
        PROVE  /\ found.index \in Popped' /\ EndsInGoal(found.index)'
               /\ found.weight = Weight(P[found.index])'
               /\ \A e \in Popped' : EndsInGoal(e)' => e = found.index
               /\ \A p \in Seq(Types) : Solved(p)' => found.weight <= Weight(p)'
    BY <1>1, <1>2, <2>1, <2>2, <2>3, <2>4 DEF Progress
  <2>5. conflict' = NoIndex /\ (~Found => \A e \in Popped' : ~EndsInGoal(e)')
    BY <1>1, <1>2 DEF Progress
  <2>6. QED
    BY <2>2, <2>4, <2>5 DEF Progress
<1>5. QED
  BY <1>3, <1>4

-----------------------------------------------------------------------------
(* The search knows the paths in every state.                              *)
LEMMA BeginSearching ==
  ASSUME InputOK, Begin
  PROVE  \E P : Searching(P)
<1> DEFINE P == [i \in Elems |-> <<stack[i].type>>]
<1>1. IInv /\ stack = Starts(starts) /\ starts \in Seq(Types)
  BY BeginInv DEF Begin, InputOK
<1>2. /\ \A i \in Elems : stack[i].prev = NoIndex /\ stack[i].pathlen = 0
      /\ \A i \in Elems : stack[i].root \in DOMAIN starts /\ stack[i].type = starts[stack[i].root]
      /\ \A i \in DOMAIN starts : \E e \in Elems : stack[e].type = starts[i]
  <2> HIDE DEF P
  <2>1. \A i \in Elems : stack[i].prev = NoIndex /\ stack[i].pathlen = 0
    BY <1>1, StartsOnce DEF Elems
  <2>2. \A i \in Elems : stack[i].root \in DOMAIN starts /\ stack[i].type = starts[stack[i].root]
    BY <1>1, StartsOnce DEF Elems
  <2>3. \A i \in DOMAIN starts : \E e \in Elems : stack[e].type = starts[i]
    BY <1>1, StartsOnce DEF Elems
  <2>4. QED
    BY <2>1, <2>2, <2>3
<1>3. \A i \in Elems : stack[i].type \in Types
  BY <1>1 DEF IInv, StackOK, StackElem
<1>4. DOMAIN P = Elems /\ \A i \in Elems : P[i] = <<stack[i].type>>
  OBVIOUS
<1>5. /\ \A q \in queue : q.weight = 0 /\ q.index \in Elems
      /\ \A i \in Elems : \E q \in queue : q.index = i
      /\ ~Found /\ conflict = NoIndex /\ ~done
  <2>1. queue = {[weight |-> 0, index |-> i] : i \in Elems}
    BY DEF Begin, Elems
  <2>2. \A i \in Elems : [weight |-> 0, index |-> i] \in queue /\ [weight |-> 0, index |-> i].index = i
    BY <2>1
  <2>3. \A i \in Elems : \E q \in queue : q.index = i
    BY <2>2
  <2>4. QED
    BY <2>1, <2>3 DEF Begin, Found, NoResult
<1> HIDE DEF P
<1>6. Shows(P)
  <2>1. ASSUME NEW t \in Types PROVE <<t>> \in Seq(Types) /\ Len(<<t>>) = 1 /\ <<t>>[1] = t
    OBVIOUS
  <2>2. ASSUME NEW i \in Elems
        PROVE  /\ P[i] \in Seq(Types) /\ Len(P[i]) >= 1 /\ P[i][Len(P[i])] = stack[i].type
               /\ P[i] = <<stack[i].type>> /\ stack[i].prev = NoIndex
    <3>1. PICK t \in Types : t = stack[i].type /\ P[i] = <<t>>
      BY <1>3, <1>4
    <3>2. QED
      BY <1>2, <2>1, <3>1
  <2>3. QED
    BY <1>4, <2>2 DEF Shows
<1>7. Valid(P)
  <2>1. ASSUME NEW i \in Elems
        PROVE  /\ IsPath(P[i]) /\ Count(P[i]) = stack[i].pathlen
               /\ stack[i].root \in DOMAIN starts /\ starts[stack[i].root] = P[i][1]
    <3>1. PICK t : t = stack[i].type
      OBVIOUS
    <3>2. P[i] = <<t>> /\ starts[stack[i].root] = t /\ stack[i].root \in DOMAIN starts /\ stack[i].pathlen = 0
      BY <1>2, <1>4, <3>1
    <3>3. Len(<<t>>) - 1 = 0 /\ DOMAIN <<t>> = 1 .. 1 /\ <<t>>[1] = t
      OBVIOUS
    <3>4. 1 .. 0 = {} /\ \A m, n \in 1 .. 1 : m = n
      OBVIOUS
    <3>5. IsPath(<<t>>)
      BY <3>2, <3>3, <3>4 DEF IsPath
    <3>6. QED
      BY <3>2, <3>3, <3>5, SumsOfOne
  <2>2. QED
    BY <2>1 DEF Valid
<1>8. Weighed(P)
  <2>1. ASSUME NEW q \in queue PROVE q.weight = Weight(P[q.index])
    <3>1. PICK t : P[q.index] = <<t>>
      BY <1>4, <1>5
    <3>2. QED
      BY <1>5, <3>1, SumsOfOne
  <2>2. QED
    BY <2>1 DEF Weighed
<1>9. Popped = {}
  BY <1>5 DEF Popped
<1>10. Complete(P)
  BY <1>2, <1>4, <1>9 DEF Complete
<1>11. Progress(P)
  BY <1>5, <1>9 DEF Progress
<1>12. Searching(P)
  BY <1>5, <1>6, <1>7, <1>8, <1>10, <1>11 DEF Searching, Known
<1>13. QED
  BY <1>12

LEMMA TurnSearching ==
  ASSUME IInv, NEW CONSTANT P, Searching(P), [Turn]_vars
  PROVE  (\E P2 : Searching(P2))'
<1>1. Known(P)
  BY DEF Searching
<1>2. ASSUME NEW CONSTANT q, q \in queue, ~done, Expand(q), UNCHANGED <<call, conflict, done>>,
             \/ ~Found /\ IsGoal(q) /\ IsTop(q) /\ result' = q
             \/ ~IsGoal(q) /\ result' = result
      PROVE  (\E P2 : Searching(P2))'
  <2>1. Complete(P) /\ Progress(P) /\ ~done'
    BY <1>2 DEF Searching
  <2>2. PICK k, new : Pushes(q, k, new) /\ Reduced(q, k, new)
    BY <1>2, ExpandPushes
  <2>3. PICK P2 : Extends(P2, P, q, k, new)
    <3>1. k \in Nat
      BY <2>2 DEF Pushes
    <3>2. QED
      BY <3>1, HasExtension
  <2>4. Step(P, P2, q, k, new)
    BY <1>1, <1>2, <2>2, <2>3 DEF Step
  <2>5. Known(P2)' /\ Complete(P2)'
    BY <2>1, <2>4, StepKnown, StepComplete
  <2>6. Progress(P2)'
    <3>1. CASE ~Found /\ IsGoal(q) /\ IsTop(q) /\ result' = q
      BY <1>2, <2>1, <2>4, <3>1, StepFinds
    <3>2. CASE ~IsGoal(q) /\ result' = result
      BY <1>2, <2>1, <2>4, <3>2, StepGoesOn
    <3>3. QED
      BY <1>2, <3>1, <3>2
  <2>7. Searching(P2)'
    BY <2>1, <2>5, <2>6 DEF Searching
  <2>8. QED
    BY <2>7
<1>3. ASSUME UNCHANGED <<call, stack, result>>, queue' \subseteq queue, done',
             NEW CONSTANT tie, conflict' = tie, IsFinished(P, result, tie)
      PROVE  (\E P2 : Searching(P2))'
  <2>1. Known(P)'
    BY <1>1, <1>3, SameKnown
  <2>2. PICK found : found = result
    OBVIOUS
  <2>3. IsFinished(P, found, tie)
    BY <1>3, <2>2
  <2>4. IsFinished(P, found, tie)'
    BY <1>3, <2>3, SameFinished
  <2>5. result' = found /\ conflict' = tie
    BY <1>3, <2>2
  <2>6. IsFinished(P, result, conflict)'
    BY <2>4, <2>5 DEF IsFinished
  <2>7. Searching(P)'
    BY <1>3, <2>1, <2>6 DEF Searching
  <2>8. QED
    BY <2>7
<1>4. ASSUME Turn PROVE (\E P2 : Searching(P2))'
  <2>1. ~done /\ Complete(P) /\ Progress(P) /\ conflict = NoIndex
    BY <1>4 DEF Turn, Searching, Progress
  <2>2. ASSUME NEW q \in queue, IsTop(q), PopHeavier(q) PROVE (\E P2 : Searching(P2))'
    <3>1. IsFinished(P, result, conflict)
      BY <1>1, <2>1, <2>2, HeavierEnds DEF PopHeavier
    <3>2. UNCHANGED <<call, stack, result>> /\ queue' \subseteq queue /\ done' /\ conflict' = NoIndex
      BY <2>1, <2>2 DEF PopHeavier
    <3>3. QED
      BY <1>3, <2>1, <3>1, <3>2
  <2>3. ASSUME NEW q \in queue, IsTop(q), PopResult(q) PROVE (\E P2 : Searching(P2))'
    BY <1>2, <2>1, <2>3 DEF PopResult
  <2>4. ASSUME NEW q \in queue, PopConflict(q) PROVE (\E P2 : Searching(P2))'
    <3>1. IsFinished(P, result, q.index)
      BY <1>1, <2>1, <2>4, ConflictEnds DEF PopConflict
    <3>2. UNCHANGED <<call, stack, result>> /\ queue' \subseteq queue /\ done' /\ conflict' = q.index
      BY <2>4 DEF PopConflict
    <3>3. QED
      BY <1>3, <3>1, <3>2
  <2>5. ASSUME NEW q \in queue, PopOther(q) PROVE (\E P2 : Searching(P2))'
    BY <1>2, <2>1, <2>5 DEF PopOther
  <2>6. ASSUME Exhausted PROVE (\E P2 : Searching(P2))'
    <3>1. IsFinished(P, result, conflict)
      BY <1>1, <2>1, <2>6, ExhaustedEnds DEF Exhausted
    <3>2. UNCHANGED <<call, stack, result>> /\ queue' \subseteq queue /\ done' /\ conflict' = NoIndex
      BY <2>1, <2>6 DEF Exhausted
    <3>3. QED
      BY <1>3, <2>1, <3>1, <3>2
  <2>7. QED
    BY <1>4, <2>2, <2>3, <2>4, <2>5, <2>6 DEF Turn
<1>5. ASSUME UNCHANGED vars PROVE (\E P2 : Searching(P2))'
  <2>1. UNCHANGED <<call, stack, queue, result, conflict, done>>
    BY <1>5 DEF vars
  <2>2. CASE done
    <3>1. PICK tie : tie = conflict
      OBVIOUS
    <3>2. IsFinished(P, result, tie) /\ conflict' = tie /\ done' /\ queue' \subseteq queue
      BY <2>1, <2>2, <3>1 DEF Searching
    <3>3. QED
      BY <1>3, <2>1, <3>2
  <2>3. CASE ~done
    <3>1. Known(P)' /\ ~done' /\ Complete(P) /\ Progress(P)
      BY <1>1, <2>1, <2>3, SameKnown DEF Searching
    <3>2. Complete(P)' /\ Progress(P)'
      BY <2>1, <3>1, SameProgress
    <3>3. Searching(P)'
      BY <3>1, <3>2 DEF Searching
    <3>4. QED
      BY <3>3
  <2>4. QED
    BY <2>2, <2>3
<1>6. QED
  BY <1>4, <1>5

-----------------------------------------------------------------------------
(* What it knows when it has ended is what is claimed of the result.       *)
LEMMA SolutionsAreSolved ==
  ASSUME NEW p
  PROVE  p \in Solutions <=> p \in Seq(Types) /\ Solved(p)
<1> DEFINE n == Len(p)
<1>1. Cardinality(Types) \in Nat /\ IsFiniteSet(Types)
  BY TypesAssumption, FS_CardinalityType
<1>2. ASSUME p \in Solutions PROVE p \in Seq(Types) /\ Solved(p)
  <2>1. /\ \E m \in 1 .. Cardinality(Types) : p \in [1 .. m -> Types]
        /\ IsPath(p) /\ p[Len(p)] \in goals /\ Count(p) <= maxCount
    BY <1>2 DEF Solutions, Paths
  <2>2. PICK m \in 1 .. Cardinality(Types) : p \in [1 .. m -> Types]
    BY <2>1
  <2>3. m \in Nat /\ m >= 1
    BY <1>1
  <2>4. p \in Seq(Types) /\ Len(p) = m
    BY <2>2, <2>3, ListIsSeq
  <2>5. QED
    BY <2>1, <2>3, <2>4 DEF Solved, Admissible
<1>3. ASSUME p \in Seq(Types), Solved(p) PROVE p \in Solutions
  <2>1. n \in Nat /\ n >= 1 /\ p \in [1 .. n -> Types] /\ DOMAIN p = 1 .. n
    BY <1>3, LenProperties DEF Solved
  <2>2. \A i, j \in 1 .. n : p[i] = p[j] => i = j
    BY <1>3, <2>1 DEF Solved, Admissible, IsPath
  <2> HIDE DEF n
  <2>3. p \in Injection(1 .. n, Types)
    BY <2>1, <2>2 DEF Injection, IsInjective
  <2>4. n <= Cardinality(Types)
    <3>1. Cardinality(1 .. n) = n
      BY <2>1, FS_Interval
    <3>2. Cardinality(1 .. n) <= Cardinality(Types)
      BY <1>1, <2>3, FS_Injection
    <3>3. QED
      BY <3>1, <3>2
  <2>5. n \in 1 .. Cardinality(Types)
    BY <1>1, <2>1, <2>4
  <2>6. p \in Paths
    BY <1>3, <2>1, <2>5 DEF Paths, Solved, Admissible
  <2>7. QED
    BY <1>3, <2>6 DEF Solutions, Solved, Admissible
<1>4. QED
  BY <1>2, <1>3

LEMMA SearchedPaths ==
  ASSUME IInv, NEW P, Searching(P), done
  PROVE  /\ ~Found => conflict = NoIndex /\ Solutions = {}
         /\ Found => /\ result.index \in Elems /\ P[result.index] \in Solutions
                     /\ TypesOf(Path(result.index)) = P[result.index]
                     /\ result.weight = Weight(P[result.index])
                     /\ \A p \in Solutions : result.weight <= Weight(p) /\ Weight(p) \in Nat
         /\ Found /\ conflict = NoIndex => \A p \in Solutions : Weight(p) <= result.weight => p = P[result.index]
         /\ conflict # NoIndex => /\ Found /\ conflict # result.index /\ P[conflict] \in Solutions
                                  /\ TypesOf(Path(conflict)) = P[conflict]
                                  /\ P[conflict] # P[result.index]
                                  /\ Weight(P[conflict]) <= result.weight
<1>1. IsFinished(P, result, conflict) /\ Known(P) /\ Shows(P) /\ StackOK /\ InputOK
  BY DEF Searching, Known, IInv, TypeOK
<1>2. \A e \in Elems : TypesOf(Path(e)) = P[e]
  BY <1>1, ShownByPath
<1>3. \A e \in Elems : EndsInGoal(e) => P[e] \in Solutions
  BY <1>1, FoundIsSolved, SolutionsAreSolved
<1>4. ASSUME NEW p \in Solutions PROVE p \in Seq(Types) /\ Solved(p) /\ Weight(p) \in Nat
  <2>1. p \in Seq(Types) /\ Solved(p)
    BY SolutionsAreSolved
  <2>2. 1 \in 1 .. Len(p)
    BY <2>1, LenProperties DEF Solved
  <2>3. IsChain(p)
    BY <2>1, <2>2, PrefixIsPath DEF Solved, Admissible
  <2>4. QED
    BY <1>1, <2>1, <2>2, <2>3, PrefixLighter
<1>5. ~Found => conflict = NoIndex /\ Solutions = {}
  BY <1>1, <1>4 DEF IsFinished, Found
<1>6. Found => /\ result.index \in Elems /\ EndsInGoal(result.index)
               /\ result.weight = Weight(P[result.index])
               /\ \A p \in Solutions : result.weight <= Weight(p) /\ Weight(p) \in Nat
  BY <1>1, <1>4 DEF IsFinished, Found
<1>7. Found /\ conflict = NoIndex => \A p \in Solutions : Weight(p) <= result.weight => p = P[result.index]
  BY <1>1, <1>4 DEF IsFinished, Found
<1>8. conflict # NoIndex => /\ Found /\ conflict # result.index /\ conflict \in Elems /\ EndsInGoal(conflict)
                            /\ Weight(P[conflict]) <= result.weight
  BY <1>1 DEF IsFinished, Found
<1>9. ASSUME conflict # NoIndex PROVE P[conflict] # P[result.index]
  <2>1. conflict \in Elems /\ result.index \in Elems /\ conflict # result.index
    BY <1>6, <1>8, <1>9
  <2>2. PathsTakenOnce
    BY DifferentPaths
  <2>3. TypesOf(Path(conflict)) # TypesOf(Path(result.index))
    BY <2>1, <2>2 DEF PathsTakenOnce, Elems
  <2>4. QED
    BY <1>2, <2>1, <2>3
<1>10. QED
  BY <1>2, <1>3, <1>5, <1>6, <1>7, <1>8, <1>9

LEMMA FoundIsMinimal ==
  ASSUME IInv, NEW P, Searching(P)
  PROVE  ResultMinimal
<1> SUFFICES ASSUME done PROVE ResultMinimal
  BY DEF ResultMinimal
<1> DEFINE best == Best(Solutions)
           r == P[result.index]
<1>1. ASSUME Found
      PROVE  /\ r \in best /\ TypesOf(Path(result.index)) = r /\ Weight(r) = result.weight
             /\ starts[stack[result.index].root] = Path(result.index)[1].type
  <2>1. /\ result.index \in Elems /\ r \in Solutions /\ TypesOf(Path(result.index)) = r
        /\ result.weight = Weight(r)
        /\ \A p \in Solutions : result.weight <= Weight(p) /\ Weight(p) \in Nat
    BY <1>1, SearchedPaths
  <2>2. r \in best
    BY <2>1 DEF Best
  <2>3. starts[stack[result.index].root] = r[1] /\ 1 \in DOMAIN r
    <3>1. r \in Seq(Types) /\ Len(r) >= 1 /\ starts[stack[result.index].root] = r[1]
      BY <2>1 DEF Searching, Known, Shows, Valid
    <3> HIDE DEF r
    <3>2. QED
      BY <3>1, LenProperties
  <2>4. DOMAIN TypesOf(Path(result.index)) = DOMAIN Path(result.index)
        /\ \A i \in DOMAIN Path(result.index) : TypesOf(Path(result.index))[i] = Path(result.index)[i].type
    BY DEF TypesOf
  <2>5. starts[stack[result.index].root] = Path(result.index)[1].type
    BY <2>1, <2>3, <2>4
  <2>6. QED
    BY <2>1, <2>2, <2>5
<1>2. ~Found => best = {}
  BY SearchedPaths DEF Best
<1> HIDE DEF r, best
<1>3. /\ Found <=> best # {}
      /\ Found => /\ TypesOf(Path(result.index)) \in best
                  /\ Weight(TypesOf(Path(result.index))) = result.weight
                  /\ starts[stack[result.index].root] = Path(result.index)[1].type
  BY <1>1, <1>2
<1>4. QED
  BY <1>3 DEF ResultMinimal, best

LEMMA ConflictTells ==
  ASSUME IInv, NEW P, Searching(P)
  PROVE  ConflictIsTie
<1> SUFFICES ASSUME done PROVE ConflictIsTie
  BY DEF ConflictIsTie
<1> DEFINE best == Best(Solutions)
           r == P[result.index]
           c == P[conflict]
<1>1. ASSUME Found PROVE r \in best /\ \A p \in best : p \in Solutions /\ Weight(p) <= result.weight
  <2>1. /\ r \in Solutions /\ result.weight = Weight(r)
        /\ \A p \in Solutions : result.weight <= Weight(p)
    BY <1>1, SearchedPaths
  <2>2. QED
    BY <2>1 DEF Best
<1>2. ASSUME conflict # NoIndex
      PROVE  c \in best /\ c # r /\ r \in best /\ TypesOf(Path(conflict)) = c /\ conflict # result.index
  <2>1. /\ Found /\ conflict # result.index /\ c \in Solutions /\ TypesOf(Path(conflict)) = c /\ c # r
        /\ Weight(c) <= result.weight
    BY <1>2, SearchedPaths
  <2>2. /\ result.weight = Weight(r) /\ r \in Solutions
        /\ \A p \in Solutions : result.weight <= Weight(p) /\ Weight(p) \in Nat
    BY <2>1, SearchedPaths
  <2> HIDE DEF r, c
  <2>3. \A p \in Solutions : Weight(c) <= Weight(p)
    BY <2>1, <2>2
  <2>4. c \in best
    BY <2>1, <2>3 DEF Best
  <2>5. QED
    BY <1>1, <2>1, <2>4
<1>3. ASSUME conflict = NoIndex, NEW p \in best, NEW s \in best PROVE p = s
  <2>1. Found
    BY <1>3, SearchedPaths DEF Best
  <2>2. p = r /\ s = r
    BY <1>1, <1>3, <2>1, SearchedPaths
  <2>3. QED
    BY <2>2
<1> HIDE DEF best, r, c
<1>4. /\ conflict # NoIndex <=> \E p, s \in best : p # s
      /\ conflict # NoIndex => TypesOf(Path(conflict)) \in best /\ conflict # result.index
  BY <1>2, <1>3
<1>5. QED
  BY <1>4 DEF ConflictIsTie, best

LEMMA AlwaysSearching == SearchSpec => [](IInv /\ \E P : Searching(P))
<1>1. InputOK /\ Begin => IInv /\ \E P : Searching(P)
  BY BeginInv, BeginSearching
<1>2. (IInv /\ \E P : Searching(P)) /\ [Turn]_vars => (IInv /\ \E P : Searching(P))'
  <2> SUFFICES ASSUME IInv, \E P : Searching(P), [Turn]_vars PROVE IInv' /\ (\E P : Searching(P))'
    OBVIOUS
  <2>1. PICK P : Searching(P)
    OBVIOUS
  <2>2. QED
    BY <2>1, TurnInv, TurnSearching
<1>3. QED
  BY <1>1, <1>2, PTL DEF SearchSpec

(* A search that has ended has found a path if there is one, and one with  *)
(* the smallest sum of weights of all the paths with no more counted       *)
(* reductions than allowed.                                                *)
THEOREM ResultAlwaysMinimal == SearchSpec => []ResultMinimal
<1>1. IInv /\ (\E P : Searching(P)) => ResultMinimal
  BY FoundIsMinimal
<1>2. QED
  BY <1>1, AlwaysSearching, PTL

(* It reports a conflict exactly if another path has the same sum.         *)
THEOREM ConflictAlwaysTie == SearchSpec => []ConflictIsTie
<1>1. IInv /\ (\E P : Searching(P)) => ConflictIsTie
  BY ConflictTells
<1>2. QED
  BY <1>1, AlwaysSearching, PTL
=============================================================================
