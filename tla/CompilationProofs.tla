-------------------------- MODULE CompilationProofs --------------------------
(***************************************************************************)
(* That a run of the compiler accounts for every element of the Lua stack, *)
(* and that the scopes it hands out are nested, for every set of           *)
(* productions and every sequence of actions; and that the same holds in   *)
(* every run of a compiler object, after runs that succeeded and after     *)
(* runs that failed.                                                       *)
(*                                                                         *)
(* The first part is about the stack of states alone: what is pushed       *)
(* behind the last element keeps the parts of the states in a row.  The    *)
(* second is about the scopes: the counters of the states do not decrease  *)
(* from the bottom to the top, and no scope spans the counter of a state   *)
(* that is still on the stack, so the next one that starts there includes  *)
(* it or comes behind it.  These are theorems of the specification of      *)
(* ParserRun.  The third part carries them to Compilation: a run starts    *)
(* with a context of its own, and nothing but feedLexem changes it.        *)
(***************************************************************************)
EXTENDS Compilation, SequenceTheorems, WellFoundedInduction, TLAPS

(* Every nonempty set of naturals has a least element.                     *)
LEMMA NatMin ==
  ASSUME NEW T \in SUBSET Nat, T # {}
  PROVE  \E m \in T : \A n \in T : m <= n
<1>1. PICK m \in T : \A n \in T : ~(<<n, m>> \in OpToRel(<, Nat))
  BY NatLessThanWellFounded, WFMin
<1>2. \A n \in T : n \in Nat /\ ~(n < m)
  BY <1>1 DEF OpToRel
<1>3. QED
  BY <1>2

(* Max and Min choose what they are named for.                             *)
LEMMA MaxIsGreatest ==
  ASSUME NEW n \in Nat, NEW T \in SUBSET (1 .. n), T # {}
  PROVE  Max(T) \in T /\ \A x \in T : x <= Max(T)
<1> DEFINE D == {n - x : x \in T}
<1>1. D \in SUBSET Nat /\ D # {}
  <2>1. \A x \in T : n - x \in Nat
    OBVIOUS
  <2>2. PICK y \in T : TRUE
    OBVIOUS
  <2>3. n - y \in D
    BY <2>2
  <2>4. \A d \in D : d \in Nat
    BY <2>1
  <2>5. QED
    BY <2>3, <2>4
<1>2. PICK d \in D : \A e \in D : d <= e
  BY <1>1, NatMin
<1>3. PICK m \in T : d = n - m
  BY <1>2
<1>4. \A x \in T : m >= x
  <2> TAKE x \in T
  <2>1. n - x \in D
    OBVIOUS
  <2>2. n - m <= n - x
    BY <2>1, <1>2, <1>3
  <2> QED
    BY <2>2
<1>5. Max(T) \in T /\ \A x \in T : Max(T) >= x
  BY <1>4 DEF Max
<1>6. QED
  BY <1>5

LEMMA MinIsLeast ==
  ASSUME NEW n \in Nat, NEW T \in SUBSET (1 .. n), T # {}
  PROVE  Min(T) \in T /\ \A x \in T : Min(T) <= x
<1>1. T \in SUBSET Nat
  OBVIOUS
<1>2. PICK m \in T : \A x \in T : m <= x
  BY <1>1, NatMin
<1>3. QED
  BY <1>2 DEF Min

-----------------------------------------------------------------------------
(* The parts of the states are in a row.                                   *)
Linked(stack) ==
  /\ \A i \in DOMAIN stack :
       /\ stack[i].luastki = 0 <=> ~Used(stack, i)
       /\ Used(stack, i) => IsBehindLast(stack, i - 1, stack[i].luastki)
  /\ \A i, j \in DOMAIN stack :
       i < j /\ Used(stack, i) /\ Used(stack, j) => EndOf(stack, i) <= stack[j].luastki

(* Two stacks with the same first k states.                                *)
SamePrefix(s, t, k) == \A i \in 1 .. k : s[i] = t[i]

LEMMA BehindOfPrefix ==
  ASSUME NEW s, NEW t, NEW k \in Nat, SamePrefix(s, t, k), NEW x,
         IsBehindLast(s, k, x)
  PROVE  IsBehindLast(t, k, x)
  BY DEF SamePrefix, IsBehindLast, Used, EndOf

LEMMA BehindIsUnique ==
  ASSUME NEW s, NEW k \in Nat, NEW x, NEW y,
         IsBehindLast(s, k, x), IsBehindLast(s, k, y)
  PROVE  x = y
  BY DEF IsBehindLast

(* States without elements on top do not count.                            *)
LEMMA BehindSkips ==
  ASSUME NEW s, NEW k \in Nat, NEW m \in Nat, k <= m, NEW x,
         \A j \in k + 1 .. m : ~Used(s, j)
  PROVE  IsBehindLast(s, m, x) <=> IsBehindLast(s, k, x)
<1>1. ASSUME IsBehindLast(s, m, x) PROVE IsBehindLast(s, k, x)
  BY <1>1 DEF IsBehindLast
<1>2. ASSUME IsBehindLast(s, k, x) PROVE IsBehindLast(s, m, x)
  BY <1>2 DEF IsBehindLast
<1>3. QED
  BY <1>1, <1>2

(* getNextLuaStackIndex finds where the part of the next state begins.     *)
LEMMA NextIndex ==
  ASSUME NEW stack \in Seq(State)
  PROVE  /\ IsBehindLast(stack, Len(stack), NextLuaStackIndex(stack))
         /\ NextLuaStackIndex(stack) \in Nat /\ NextLuaStackIndex(stack) >= 1
<1> DEFINE used == {i \in DOMAIN stack : stack[i].luastkn # 0}
<1>1. used \in SUBSET (1 .. Len(stack)) /\ Len(stack) \in Nat
  OBVIOUS
<1>2. CASE used = {}
  BY <1>2 DEF NextLuaStackIndex, IsBehindLast, Used
<1>3. CASE used # {}
  <2>1. Max(used) \in used /\ \A x \in used : x <= Max(used)
    BY <1>1, <1>3, MaxIsGreatest
  <2>2. NextLuaStackIndex(stack) = EndOf(stack, Max(used))
    BY <1>3 DEF NextLuaStackIndex, EndOf
  <2>3. PICK h \in 1 .. Len(stack) : h = Max(used)
    BY <2>1, <1>1
  <2>4. ASSUME NEW j \in h + 1 .. Len(stack) PROVE ~Used(stack, j)
    <3>1. j \in DOMAIN stack /\ ~(j <= h)
      BY <1>1
    <3>2. j \notin used
      BY <2>1, <2>3, <3>1
    <3>3. QED
      BY <3>1, <3>2 DEF Used
  <2>5. Used(stack, h)
    BY <2>1, <2>3 DEF Used
  <2>6. stack[h] \in State
    BY <1>1
  <2>7. EndOf(stack, h) \in Nat /\ EndOf(stack, h) >= 1
    <3>1. /\ stack[h].luastki \in Nat /\ stack[h].luastkn \in Nat /\ stack[h].luastkn # 0
      BY <2>5, <2>6 DEF State, Used
    <3>2. QED
      BY <3>1 DEF EndOf
  <2>8. QED
    BY <2>2, <2>3, <2>4, <2>5, <2>7 DEF IsBehindLast
<1>4. QED
  BY <1>2, <1>3

(* With a part for at least one element where the next begins, the parts   *)
(* stay in a row; with none they stay as they are.                         *)
LEMMA PushLinked ==
  ASSUME NEW rest \in Seq(State), Linked(rest), NEW x \in Nat, NEW n \in Nat, NEW c \in Nat,
         IsBehindLast(rest, Len(rest), x),
         NEW new, new = Append(rest, NewState(IF n = 0 THEN 0 ELSE x, n, c))
  PROVE  /\ new \in Seq(State)
         /\ Linked(new)
         /\ IsBehindLast(new, Len(new), x + n)
<1> DEFINE m == Len(rest) + 1
<1>1. NewState(IF n = 0 THEN 0 ELSE x, n, c) \in State
  BY DEF NewState, State
<1>2. /\ new \in Seq(State) /\ Len(new) = m /\ Len(rest) \in Nat
      /\ \A i \in 1 .. Len(rest) : new[i] = rest[i]
      /\ new[m] = NewState(IF n = 0 THEN 0 ELSE x, n, c)
  BY <1>1, AppendProperties
<1>3. \A i \in 1 .. Len(rest) : /\ rest[i] \in State
                                /\ Used(new, i) <=> Used(rest, i)
                                /\ EndOf(new, i) = EndOf(rest, i)
  BY <1>2 DEF Used, EndOf
<1>4. /\ new[m].luastki = IF n = 0 THEN 0 ELSE x
      /\ new[m].luastkn = n
      /\ Used(new, m) <=> n # 0
      /\ n # 0 => EndOf(new, m) = x + n
  BY <1>2 DEF NewState, Used, EndOf
<1>5. IsBehindLast(new, Len(rest), x)
  BY <1>2, BehindOfPrefix DEF SamePrefix
<1>6. x >= 1 /\ \A i \in 1 .. Len(rest) : Used(rest, i) => EndOf(rest, i) <= x
  <2>1. CASE \A j \in 1 .. Len(rest) : ~Used(rest, j)
    BY <2>1, <1>2 DEF IsBehindLast
  <2>2. ASSUME NEW h \in 1 .. Len(rest), Used(rest, h), x = EndOf(rest, h),
               \A j \in h + 1 .. Len(rest) : ~Used(rest, j)
        PROVE  x >= 1 /\ \A i \in 1 .. Len(rest) : Used(rest, i) => EndOf(rest, i) <= x
    <3>1. /\ rest[h].luastki \in Nat /\ rest[h].luastkn \in Nat /\ rest[h].luastkn # 0
      BY <2>2, <1>3 DEF State, Used
    <3>2. x >= 1
      BY <3>1, <2>2 DEF EndOf
    <3>3. ASSUME NEW i \in 1 .. Len(rest), Used(rest, i) PROVE EndOf(rest, i) <= x
      <4>1. i \in 1 .. h
        BY <2>2, <3>3, <1>2
      <4>2. CASE i = h
        BY <4>2, <2>2
      <4>3. CASE i < h
        <5>1. EndOf(rest, i) <= rest[h].luastki
          BY <4>3, <2>2, <3>3, <1>2 DEF Linked
        <5>2. EndOf(rest, i) \in Nat
          <6>1. rest[i] \in State
            BY <1>3
          <6>2. rest[i].luastki \in Nat /\ rest[i].luastkn \in Nat
            BY <6>1 DEF State
          <6>3. QED
            BY <6>2 DEF EndOf
        <5>3. QED
          BY <5>1, <5>2, <3>1, <2>2 DEF EndOf
      <4>4. QED
        BY <4>1, <4>2, <4>3
    <3>4. QED
      BY <3>2, <3>3
  <2>3. QED
    BY <2>1, <2>2, <1>2 DEF IsBehindLast
<1>7. ASSUME NEW i \in DOMAIN new
      PROVE  /\ new[i].luastki = 0 <=> ~Used(new, i)
             /\ Used(new, i) => IsBehindLast(new, i - 1, new[i].luastki)
  <2>1. CASE i \in 1 .. Len(rest)
    <3>1. rest[i].luastki = 0 <=> ~Used(rest, i)
      BY <2>1, <1>2 DEF Linked
    <3>2. Used(rest, i) => IsBehindLast(rest, i - 1, rest[i].luastki)
      BY <2>1, <1>2 DEF Linked
    <3>3. SamePrefix(rest, new, i - 1) /\ i - 1 \in Nat
      BY <2>1, <1>2 DEF SamePrefix
    <3>4. Used(rest, i) => IsBehindLast(new, i - 1, rest[i].luastki)
      BY <3>2, <3>3, BehindOfPrefix
    <3>5. QED
      BY <3>1, <3>4, <2>1, <1>2, <1>3
  <2>2. CASE i = m
    <3>1. i - 1 = Len(rest)
      BY <2>2, <1>2
    <3>2. QED
      BY <3>1, <2>2, <1>4, <1>5, <1>6
  <2>3. QED
    BY <2>1, <2>2, <1>2
<1>8. ASSUME NEW i \in DOMAIN new, NEW j \in DOMAIN new,
             i < j, Used(new, i), Used(new, j)
      PROVE  EndOf(new, i) <= new[j].luastki
  <2>1. i \in 1 .. Len(rest)
    BY <1>8, <1>2
  <2>2. CASE j \in 1 .. Len(rest)
    BY <2>1, <2>2, <1>8, <1>2, <1>3 DEF Linked
  <2>3. CASE j = m
    BY <2>1, <2>3, <1>8, <1>3, <1>4, <1>6
  <2>4. QED
    BY <2>2, <2>3, <1>2
<1>9. Linked(new)
  BY <1>7, <1>8 DEF Linked
<1>10. IsBehindLast(new, m, x + n)
  <2>1. CASE n = 0
    <3>1. \A j \in Len(rest) + 1 .. m : ~Used(new, j)
      BY <2>1, <1>2, <1>4
    <3>2. IsBehindLast(new, m, x)
      BY <3>1, <1>5, <1>2, BehindSkips
    <3>3. QED
      BY <3>2, <2>1
  <2>2. CASE n # 0
    <3>1. m \in 1 .. m /\ \A j \in m + 1 .. m : ~Used(new, j)
      BY <1>2
    <3>2. QED
      BY <3>1, <2>2, <1>4 DEF IsBehindLast
  <2>3. QED
    BY <2>1, <2>2
<1>11. QED
  BY <1>2, <1>9, <1>10

(* What is left of the states when some are popped.                        *)
LEMMA RestLinked ==
  ASSUME NEW s \in Seq(State), NEW k \in 0 .. Len(s), NEW r, r = SubSeq(s, 1, k)
  PROVE  /\ r \in Seq(State) /\ Len(r) = k /\ SamePrefix(s, r, k)
         /\ Linked(s) => Linked(r)
<1>1. Len(s) \in Nat /\ k \in Nat /\ k <= Len(s) /\ \A i \in 1 .. k : s[i] \in State
  OBVIOUS
<1>2. /\ r \in Seq(State)
      /\ Len(r) = IF 1 <= k THEN k - 1 + 1 ELSE 0
      /\ \A i \in 1 .. k - 1 + 1 : r[i] = s[1 + i - 1]
  BY <1>1, SubSeqProperties
<1>3. Len(r) = k /\ \A i \in 1 .. k : r[i] = s[i]
  <2>1. k - 1 + 1 = k
    BY <1>1
  <2>2. \A i \in 1 .. k : 1 + i - 1 = i
    BY <1>1
  <2>3. QED
    BY <1>1, <1>2, <2>1, <2>2
<1>4. SamePrefix(s, r, k)
  BY <1>3 DEF SamePrefix
<1>5. ASSUME Linked(s) PROVE Linked(r)
  <2>1. ASSUME NEW i \in DOMAIN r
        PROVE  /\ i \in DOMAIN s /\ i \in 1 .. k /\ r[i] = s[i]
               /\ Used(r, i) <=> Used(s, i)
               /\ EndOf(r, i) = EndOf(s, i)
    BY <1>1, <1>2, <1>3 DEF Used, EndOf
  <2>2. ASSUME NEW i \in DOMAIN r
        PROVE  /\ r[i].luastki = 0 <=> ~Used(r, i)
               /\ Used(r, i) => IsBehindLast(r, i - 1, r[i].luastki)
    <3>1. SamePrefix(s, r, i - 1) /\ i - 1 \in Nat
      BY <1>1, <1>3, <2>1 DEF SamePrefix
    <3>2. s[i].luastki = 0 <=> ~Used(s, i)
      BY <1>5, <2>1 DEF Linked
    <3>3. Used(s, i) => IsBehindLast(s, i - 1, s[i].luastki)
      BY <1>5, <2>1 DEF Linked
    <3>4. Used(s, i) => IsBehindLast(r, i - 1, s[i].luastki)
      BY <3>1, <3>3, BehindOfPrefix
    <3>5. QED
      BY <2>1, <3>2, <3>4
  <2>3. ASSUME NEW i \in DOMAIN r, NEW j \in DOMAIN r, i < j, Used(r, i), Used(r, j)
        PROVE  EndOf(r, i) <= r[j].luastki
    BY <1>5, <2>1, <2>3 DEF Linked
  <2>4. QED
    BY <2>2, <2>3 DEF Linked
<1>6. QED
  BY <1>2, <1>3, <1>4, <1>5

(* The elements counted for a reduction are those behind the part where    *)
(* the states left end.                                                    *)
LEMMA SizeOfReduction ==
  ASSUME stateStack \in Seq(State), Linked(stateStack),
         NEW n \in Nat, n < Len(stateStack), NEW x \in Nat,
         IsBehindLast(stateStack, Len(stateStack), x)
  PROVE  /\ ReductionSize(n) \in Nat
         /\ IsBehindLast(Rest(n), Len(stateStack) - n, x - ReductionSize(n))
<1> DEFINE L    == Len(stateStack) - n
           taken  == Popped(n)
           used == {i \in DOMAIN taken : taken[i].luastki # 0}
<1>1. /\ Len(stateStack) \in Nat /\ L \in Nat /\ L + n = Len(stateStack)
      /\ L + 1 \in Int /\ \A i \in L + 1 .. Len(stateStack) : stateStack[i] \in State
  OBVIOUS
<1>2. /\ taken \in Seq(State)
      /\ Len(taken) = IF L + 1 <= Len(stateStack) THEN Len(stateStack) - (L + 1) + 1 ELSE 0
      /\ \A i \in 1 .. Len(stateStack) - (L + 1) + 1 : taken[i] = stateStack[L + 1 + i - 1]
  BY <1>1, SubSeqProperties DEF Popped
<1>3. /\ Len(taken) = n /\ DOMAIN taken = 1 .. n
      /\ \A i \in 1 .. n : taken[i] = stateStack[L + i] /\ L + i \in DOMAIN stateStack
  <2>1. Len(stateStack) - (L + 1) + 1 = n
    BY <1>1
  <2>2. \A i \in 1 .. n : L + 1 + i - 1 = L + i /\ L + i \in 1 .. Len(stateStack)
    BY <1>1
  <2>3. QED
    BY <1>1, <1>2, <2>1, <2>2
<1>4. \A i \in 1 .. n : i \in used <=> Used(stateStack, L + i)
  BY <1>3 DEF Linked
<1>5. SamePrefix(stateStack, Rest(n), L)
  <2>1. L \in 0 .. Len(stateStack)
    BY <1>1
  <2>2. Rest(n) = SubSeq(stateStack, 1, L)
    BY DEF Rest
  <2> HIDE DEF L
  <2>3. QED
    BY <2>1, <2>2, RestLinked
<1>6. CASE used = {}
  <2>1. ReductionSize(n) = 0
    BY <1>6 DEF ReductionSize
  <2>2. ASSUME NEW j \in L + 1 .. Len(stateStack) PROVE ~Used(stateStack, j)
    <3>1. j - L \in 1 .. n /\ L + (j - L) = j
      BY <1>1
    <3>2. QED
      BY <1>4, <1>6, <3>1
  <2>3. IsBehindLast(stateStack, L, x)
    BY <2>2, <1>1, BehindSkips
  <2>4. IsBehindLast(Rest(n), L, x)
    BY <2>3, <1>1, <1>5, BehindOfPrefix
  <2>5. x - 0 = x
    OBVIOUS
  <2>6. QED
    BY <2>1, <2>4, <2>5
<1>7. CASE used # {}
  <2>1. used \in SUBSET (1 .. n)
    BY <1>3
  <2>2. PICK f \in 1 .. n : f = Min(used) /\ f \in used /\ \A i \in used : f <= i
    BY <2>1, <1>7, MinIsLeast
  <2>3. PICK l \in 1 .. n : l = Max(used) /\ l \in used /\ \A i \in used : i <= l
    BY <2>1, <1>7, MaxIsGreatest
  <2>4. /\ L + f \in DOMAIN stateStack /\ L + l \in DOMAIN stateStack
        /\ stateStack[L + f] \in State /\ stateStack[L + l] \in State
        /\ Used(stateStack, L + f) /\ Used(stateStack, L + l)
    BY <2>2, <2>3, <1>3, <1>4
  <2>5. ReductionSize(n) = EndOf(stateStack, L + l) - stateStack[L + f].luastki
    <3>1. ReductionSize(n) = taken[l].luastki + taken[l].luastkn - taken[f].luastki
      <4>1. ReductionSize(n) =
              IF used = {} THEN 0
              ELSE taken[Max(used)].luastki + taken[Max(used)].luastkn - taken[Min(used)].luastki
        BY DEF ReductionSize
      <4>2. used # {} /\ Max(used) = l /\ Min(used) = f
        BY <1>7, <2>2, <2>3
      <4> HIDE DEF used, taken
      <4>3. QED
        BY <4>1, <4>2
    <3>2. taken[l] = stateStack[L + l] /\ taken[f] = stateStack[L + f]
      BY <1>3
    <3> HIDE DEF taken, L
    <3>3. ReductionSize(n) = stateStack[L + l].luastki + stateStack[L + l].luastkn
                               - stateStack[L + f].luastki
      BY <3>1, <3>2
    <3>4. EndOf(stateStack, L + l) = stateStack[L + l].luastki + stateStack[L + l].luastkn
      BY DEF EndOf
    <3>5. /\ stateStack[L + f].luastki \in Nat /\ stateStack[L + l].luastki \in Nat
          /\ stateStack[L + l].luastkn \in Nat
      BY <2>4 DEF State
    <3>6. QED
      BY <3>3, <3>4, <3>5
  <2>6. IsBehindLast(stateStack, Len(stateStack), EndOf(stateStack, L + l))
    <3>1. ASSUME NEW j \in L + l + 1 .. Len(stateStack) PROVE ~Used(stateStack, j)
      <4>1. j - L \in 1 .. n /\ L + (j - L) = j /\ ~(j - L <= l)
        BY <1>1
      <4>2. QED
        BY <4>1, <2>3, <1>4
    <3>2. L + l \in 1 .. Len(stateStack)
      BY <1>1
    <3>3. QED
      BY <3>1, <3>2, <2>4 DEF IsBehindLast
  <2>7. x = EndOf(stateStack, L + l)
    BY <2>6, <1>1, BehindIsUnique
  <2>8. IsBehindLast(stateStack, L, stateStack[L + f].luastki)
    <3>1. IsBehindLast(stateStack, L + f - 1, stateStack[L + f].luastki)
      BY <2>4 DEF Linked
    <3>2. ASSUME NEW j \in L + 1 .. L + f - 1 PROVE ~Used(stateStack, j)
      <4>1. j - L \in 1 .. n /\ L + (j - L) = j /\ ~(f <= j - L)
        BY <1>1
      <4>2. QED
        BY <4>1, <2>2, <1>4
    <3>3. L + f - 1 \in Nat /\ L <= L + f - 1
      BY <1>1
    <3>4. QED
      BY <3>1, <3>2, <3>3, <1>1, BehindSkips
  <2>9. /\ stateStack[L + f].luastki \in Nat /\ stateStack[L + f].luastkn \in Nat
        /\ stateStack[L + l].luastki \in Nat /\ stateStack[L + l].luastkn \in Nat
    BY <2>4 DEF State
  <2>10. stateStack[L + f].luastki <= EndOf(stateStack, L + l)
    <3>1. CASE f = l
      BY <3>1, <2>9 DEF EndOf
    <3>2. CASE f # l
      <4>1. L + f < L + l
        <5>1. f <= l
          BY <2>2, <2>3
        <5>2. QED
          BY <5>1, <3>2, <1>1
      <4>2. EndOf(stateStack, L + f) <= stateStack[L + l].luastki
        BY <4>1, <2>4 DEF Linked
      <4> DEFINE a == stateStack[L + f].luastki
                 b == stateStack[L + f].luastkn
                 c == stateStack[L + l].luastki
                 d == stateStack[L + l].luastkn
      <4>3. EndOf(stateStack, L + f) = a + b /\ EndOf(stateStack, L + l) = c + d
        BY DEF EndOf
      <4>4. a + b <= c /\ a \in Nat /\ b \in Nat /\ c \in Nat /\ d \in Nat
        BY <4>2, <4>3, <2>9
      <4> HIDE DEF a, b, c, d
      <4>5. a <= c + d
        BY <4>4
      <4>6. QED
        BY <4>3, <4>5 DEF a
    <3>3. QED
      BY <3>1, <3>2
  <2>11. EndOf(stateStack, L + l) \in Nat
    BY <2>9 DEF EndOf
  <2>12. /\ ReductionSize(n) \in Nat
         /\ x - ReductionSize(n) = stateStack[L + f].luastki
    BY <2>5, <2>7, <2>9, <2>10, <2>11
  <2>13. IsBehindLast(Rest(n), L, stateStack[L + f].luastki)
    BY <2>8, <1>1, <1>5, BehindOfPrefix
  <2>14. QED
    BY <2>12, <2>13
<1>8. QED
  BY <1>6, <1>7

-----------------------------------------------------------------------------
(* What the proofs need of the types; what is below a node does not matter *)
(* here.                                                                   *)
Types ==
  /\ stateStack \in Seq(State) /\ Len(stateStack) >= 1
  /\ scopestep \in Nat /\ tokens \in Nat /\ feeds \in 0 .. MaxFeeds
  /\ phase \in {"run", "accepted", "error"}
  /\ scopes \subseteq Scope
  /\ \E S : luaStack \in Seq(S) /\ \A node \in S : node.scope \in Scope

Accounted ==
  phase = "run" =>
    /\ Linked(stateStack)
    /\ IsBehindLast(stateStack, Len(stateStack), Len(luaStack) + 1)

(* The counter c does not lie inside of a scope.                           *)
Outside(c, S) == \A s \in S : s.end <= c \/ c <= s.start

Rising(stack, step, S) ==
  /\ \A i \in DOMAIN stack : stack[i].scopecnt <= step /\ Outside(stack[i].scopecnt, S)
  /\ \A i, j \in DOMAIN stack : i < j => stack[i].scopecnt <= stack[j].scopecnt

Counters ==
  /\ Rising(stateStack, scopestep, scopes)
  /\ \A s \in scopes : s.end <= scopestep

Inductive == Types /\ Accounted /\ Counters /\ ScopesNested

LEMMA FreshInductive == Fresh /\ feeds \in 0 .. MaxFeeds => Inductive
<1> SUFFICES ASSUME Fresh, feeds \in 0 .. MaxFeeds PROVE Inductive
  OBVIOUS
<1>1. /\ stateStack = <<NewState(0, 0, 0)>> /\ NewState(0, 0, 0) \in State
      /\ luaStack = <<>> /\ scopestep = 0 /\ scopes = {}
  BY DEF Fresh, NewState, State
<1>2. Types
  <2>1. luaStack \in Seq({}) /\ \A node \in {} : node.scope \in Scope
    BY <1>1
  <2>2. \E S : luaStack \in Seq(S) /\ \A node \in S : node.scope \in Scope
    BY <2>1
  <2>3. QED
    BY <1>1, <2>2 DEF Fresh, Types
<1>3. Accounted
  <2>1. /\ DOMAIN stateStack = 1 .. 1 /\ Len(stateStack) = 1
        /\ stateStack[1].luastki = 0 /\ stateStack[1].luastkn = 0
    BY <1>1 DEF NewState
  <2>2. Linked(stateStack)
    BY <2>1 DEF Linked, Used
  <2>3. Len(luaStack) + 1 = 1
    BY <1>1
  <2>4. IsBehindLast(stateStack, 1, 1)
    BY <2>1 DEF IsBehindLast, Used
  <2>5. QED
    BY <2>1, <2>2, <2>3, <2>4 DEF Accounted
<1>4. Counters /\ ScopesNested
  BY <1>1 DEF Counters, ScopesNested, Outside, Rising, NewState
<1>5. QED
  BY <1>2, <1>3, <1>4 DEF Inductive

LEMMA InitInductive == Init => Inductive
  BY FreshInductive, MaxFeedsAssumption DEF Init

-----------------------------------------------------------------------------
(* A state that is pushed with a counter not below that of the last one    *)
(* and outside of all scopes.                                              *)
LEMMA PushCounters ==
  ASSUME NEW rest \in Seq(State), NEW c \in Nat, NEW step \in Nat, NEW S,
         NEW x \in Nat, NEW n \in Nat, NEW new, new = Append(rest, NewState(x, n, c)),
         c <= step, Outside(c, S), Rising(rest, step, S),
         \A i \in DOMAIN rest : rest[i].scopecnt <= c
  PROVE  Rising(new, step, S)
<1>1. NewState(x, n, c) \in State /\ NewState(x, n, c).scopecnt = c
  BY DEF NewState, State
<1>2. /\ DOMAIN new = 1 .. Len(rest) + 1 /\ DOMAIN rest = 1 .. Len(rest)
      /\ Len(rest) \in Nat
      /\ \A i \in 1 .. Len(rest) : new[i] = rest[i]
      /\ new[Len(rest) + 1].scopecnt = c
  BY <1>1, AppendProperties
<1>3. \A i \in DOMAIN new : i \in DOMAIN rest \/ i = Len(rest) + 1
  BY <1>2
<1>4. QED
  BY <1>2, <1>3 DEF Rising

(* The scope of a production starts at the counter of its first symbol, so *)
(* it includes the scopes handed out since and lies behind the others.     *)
LEMMA CallScopes ==
  ASSUME Types, Counters, ScopesNested, NEW prod \in Productions, CallOf(prod)
  PROVE  LET c == ScopeStart(prod.count) IN
         /\ c \in Nat /\ scopestep' \in Nat /\ scopes' \subseteq Scope
         /\ scopestep <= scopestep' /\ c <= scopestep
         /\ \A s \in scopes' : s.end <= scopestep'
         /\ Outside(c, scopes')
         /\ \A i \in 1 .. Len(stateStack) - prod.count :
              /\ stateStack[i].scopecnt <= c
              /\ Outside(stateStack[i].scopecnt, scopes')
         /\ ScopesNested'
<1> DEFINE c == ScopeStart(prod.count)
           n == prod.count
           first == Len(stateStack) - n + 1
<1>1. /\ n \in Nat /\ Len(stateStack) \in Nat /\ n < Len(stateStack)
      /\ prod.call \in BOOLEAN /\ prod.scopeflag \in ScopeFlags
  BY ProductionsAssumption DEF Types, CallOf
<1>2. \A i \in DOMAIN stateStack : stateStack[i].scopecnt \in Nat
  <2>1. ASSUME NEW i \in DOMAIN stateStack PROVE stateStack[i].scopecnt \in Nat
    <3>1. stateStack[i] \in State
      BY DEF Types
    <3>2. QED
      BY <3>1 DEF State
  <2>2. QED
    BY <2>1
<1>3. /\ c \in Nat /\ c <= scopestep /\ Outside(c, scopes)
      /\ \A i \in 1 .. Len(stateStack) - n : stateStack[i].scopecnt <= c
  <2>1. CASE n = 0
    <3>1. c = scopestep
      BY <2>1 DEF ScopeStart
    <3>2. \A i \in 1 .. Len(stateStack) - n : i \in DOMAIN stateStack
      BY <1>1
    <3>3. QED
      BY <3>1, <3>2 DEF Types, Counters, Outside, Rising
  <2>2. CASE n # 0
    <3>1. first \in DOMAIN stateStack /\ first \in Int /\ first <= Len(stateStack)
      BY <1>1, <2>2
    <3>2. Popped(n)[1] = stateStack[first]
      <4>1. \A i \in first .. Len(stateStack) : stateStack[i] \in State
        BY <3>1, <1>1 DEF Types
      <4>2. \A i \in 1 .. Len(stateStack) - first + 1 :
              SubSeq(stateStack, first, Len(stateStack))[i] = stateStack[first + i - 1]
        <5>1. first \in Int /\ Len(stateStack) \in Int
          BY <3>1, <1>1
        <5> HIDE DEF first
        <5>2. QED
          BY <4>1, <5>1, SubSeqProperties
      <4>3. 1 \in 1 .. Len(stateStack) - first + 1 /\ first + 1 - 1 = first
        BY <3>1, <1>1
      <4>4. QED
        BY <4>2, <4>3 DEF Popped
    <3>3. c = stateStack[first].scopecnt
      BY <3>2, <2>2 DEF ScopeStart
    <3>4. \A i \in 1 .. Len(stateStack) - n : i \in DOMAIN stateStack /\ i < first
      BY <1>1
    <3>5. QED
      BY <3>1, <3>3, <3>4, <1>2 DEF Counters, Rising
  <2>3. QED
    BY <2>1, <2>2
<1>4. CASE ~(prod.call /\ prod.scopeflag = "Scope")
  <2>1. /\ scopes' = scopes /\ scopestep' \in Nat /\ scopestep <= scopestep'
    BY <1>1, <1>4 DEF CallOf, Step, Types
  <2>2. \A s \in scopes' : s.end \in Nat /\ s.end <= scopestep'
    BY <2>1 DEF Types, Counters, Scope
  <2>3. \A i \in 1 .. Len(stateStack) - n : Outside(stateStack[i].scopecnt, scopes)
    BY <1>1 DEF Counters, Rising
  <2>4. ScopesNested'
    BY <2>1 DEF ScopesNested, Crossing
  <2>5. scopes' \subseteq Scope
    BY <2>1 DEF Types
  <2>6. QED
    BY <2>1, <2>2, <2>3, <2>4, <2>5, <1>3
<1>5. CASE prod.call /\ prod.scopeflag = "Scope"
  <2> DEFINE added == [start |-> c, end |-> scopestep + 1]
  <2>1. /\ scopes' = scopes \cup {added} /\ scopestep' = scopestep + 1
        /\ scopestep \in Nat
    BY <1>5 DEF CallOf, Step, NodeScope, Types
  <2>2. added \in Scope /\ added.start = c /\ added.end = scopestep + 1
    BY <1>3, <2>1 DEF Scope
  <2> HIDE DEF added, c
  <2>3. \A s \in scopes :
          /\ s.start \in Nat /\ s.end \in Nat /\ s.end <= scopestep
          /\ s.start < s.end /\ (s.end <= c \/ c <= s.start)
    BY <1>3 DEF Types, Counters, Scope, ScopesNested, Outside
  <2>4. \A s \in scopes' : s.end <= scopestep'
    BY <2>1, <2>2, <2>3
  <2>5. \A d \in Nat : d <= c /\ Outside(d, scopes) => Outside(d, scopes')
    BY <2>1, <2>2 DEF Outside
  <2>6. Outside(c, scopes')
    BY <1>3, <2>5
  <2>7. ASSUME NEW i \in 1 .. Len(stateStack) - n
        PROVE  Outside(stateStack[i].scopecnt, scopes')
    <3>1. i \in DOMAIN stateStack
      BY <1>1
    <3>2. Outside(stateStack[i].scopecnt, scopes)
      BY <3>1 DEF Counters, Rising
    <3>3. QED
      BY <3>1, <3>2, <1>2, <1>3, <2>5
  <2>8. ScopesNested'
    <3>1. \A s \in scopes' : s.start < s.end
      BY <1>3, <2>1, <2>2, <2>3
    <3>2. \A s \in scopes : ~Crossing(s, added) /\ ~Crossing(added, s)
      BY <1>3, <2>1, <2>2, <2>3 DEF Crossing
    <3>3. ~Crossing(added, added)
      BY <1>3, <2>1, <2>2 DEF Crossing
    <3>4. \A s, t \in scopes : ~Crossing(s, t)
      BY DEF ScopesNested
    <3>5. \A s, t \in scopes' : ~Crossing(s, t)
      BY <3>2, <3>3, <3>4, <2>1
    <3>6. QED
      BY <3>1, <3>5 DEF ScopesNested, Crossing
  <2>9. scopes' \subseteq Scope
    BY <2>1, <2>2 DEF Types
  <2>10. scopestep <= scopestep' /\ scopestep' \in Nat
    BY <2>1
  <2>11. QED
    BY <2>4, <2>6, <2>7, <2>8, <2>9, <2>10, <1>3 DEF c
<1>6. QED
  BY <1>4, <1>5

(* A reduction replaces as many elements of the Lua stack as it counted by *)
(* the one of the call, or leaves them.                                    *)
LEMMA CallElements ==
  ASSUME Types, Accounted, Counters, ScopesNested, phase = "run",
         NEW prod \in Productions, CallOf(prod)
  PROVE  LET rest == Rest(prod.count)
             x    == NextLuaStackIndex(rest)
         IN  /\ rest \in Seq(State) /\ Len(rest) = Len(stateStack) - prod.count
             /\ Len(rest) >= 1 /\ SamePrefix(stateStack, rest, Len(rest)) /\ Linked(rest)
             /\ x \in Nat /\ IsBehindLast(rest, Len(rest), x)
             /\ NofElements(prod) \in Nat
             /\ Len(luaStack') + 1 = x + NofElements(prod)
             /\ \E S : luaStack' \in Seq(S) /\ \A node \in S : node.scope \in Scope
<1> DEFINE n    == prod.count
           rest == Rest(n)
           x    == NextLuaStackIndex(rest)
           size == ReductionSize(n)
<1>1. /\ n \in Nat /\ Len(stateStack) \in Nat /\ n < Len(stateStack)
      /\ Len(stateStack) - n \in 0 .. Len(stateStack) /\ Len(stateStack) - n >= 1
      /\ stateStack \in Seq(State) /\ Linked(stateStack) /\ prod.call \in BOOLEAN
  BY ProductionsAssumption DEF Types, Accounted, CallOf
<1>2. PICK S : luaStack \in Seq(S) /\ \A node \in S : node.scope \in Scope
  BY DEF Types
<1>3. /\ rest \in Seq(State) /\ Len(rest) = Len(stateStack) - n
      /\ SamePrefix(stateStack, rest, Len(rest)) /\ Linked(rest)
  <2>1. rest = SubSeq(stateStack, 1, Len(stateStack) - n)
    BY DEF Rest
  <2> DEFINE k == Len(stateStack) - n
  <2>2. k \in 0 .. Len(stateStack) /\ rest = SubSeq(stateStack, 1, k)
    BY <1>1, <2>1
  <2> HIDE DEF rest, k
  <2>3. Len(rest) = k /\ rest \in Seq(State) /\ SamePrefix(stateStack, rest, k) /\ Linked(rest)
    BY <1>1, <2>2, RestLinked
  <2>4. QED
    BY <2>3 DEF k
<1>4. x \in Nat /\ x >= 1 /\ IsBehindLast(rest, Len(rest), x)
  <2> HIDE DEF rest
  <2>1. QED
    BY <1>3, NextIndex
<1>5. Len(luaStack) \in Nat /\ Len(luaStack) + 1 \in Nat
  BY <1>2
<1>6. size \in Nat /\ IsBehindLast(rest, Len(rest), Len(luaStack) + 1 - size)
  <2>1. IsBehindLast(stateStack, Len(stateStack), Len(luaStack) + 1)
    BY DEF Accounted
  <2>2. size \in Nat /\ IsBehindLast(rest, Len(stateStack) - n, Len(luaStack) + 1 - size)
    <3> DEFINE y == Len(luaStack) + 1
    <3>1. y \in Nat /\ IsBehindLast(stateStack, Len(stateStack), y)
      BY <1>5, <2>1
    <3> HIDE DEF y, n
    <3>2. ReductionSize(n) \in Nat /\ IsBehindLast(Rest(n), Len(stateStack) - n, y - ReductionSize(n))
      BY <1>1, <3>1, SizeOfReduction
    <3>3. QED
      BY <3>2 DEF y
  <2>3. QED
    BY <2>2, <1>3
<1>7. x = Len(luaStack) + 1 - size
  <2>1. Len(rest) \in Nat
    BY <1>1, <1>3
  <2> HIDE DEF rest, x, size
  <2>2. QED
    BY <2>1, <1>4, <1>6, BehindIsUnique
<1>8. CASE ~prod.call
  <2>1. NofElements(prod) = size /\ luaStack' = luaStack
    BY <1>8 DEF NofElements, CallOf
  <2> HIDE DEF rest, x, size
  <2>2. NofElements(prod) \in Nat /\ Len(luaStack') + 1 = x + NofElements(prod)
    BY <2>1, <1>5, <1>6, <1>7
  <2>3. luaStack' \in Seq(S)
    BY <2>1, <1>2
  <2>4. QED
    BY <2>2, <2>3, <1>1, <1>2, <1>3, <1>4 DEF rest, x
<1>9. CASE prod.call
  <2> DEFINE left == SubSeq(luaStack, 1, Len(luaStack) - size)
             node == Node(prod, Arguments(size))
             T    == S \cup {node}
  <2>1. NofElements(prod) = 1 /\ luaStack' = Append(left, node)
    BY <1>9 DEF NofElements, CallOf, Reduced
  <2>2. Len(luaStack) - size \in Nat /\ Len(luaStack) - size <= Len(luaStack)
    BY <1>4, <1>5, <1>6, <1>7
  <2>3. node.scope \in Scope
    <3>1. ScopeStart(n) \in Nat
      BY CallScopes
    <3>2. Step(prod) \in Nat
      BY DEF Types, Step
    <3>3. NodeScope(prod) \in Scope
      BY <3>1, <3>2 DEF NodeScope, Scope
    <3>4. QED
      BY <3>3 DEF Node
  <2>4. left \in Seq(T) /\ Len(left) = Len(luaStack) - size
    <3>1. \A i \in 1 .. Len(luaStack) - size : luaStack[i] \in T
      BY <1>2, <2>2, <1>5
    <3> DEFINE k == Len(luaStack) - size
    <3> HIDE DEF k, T
    <3>2. k \in Nat /\ k \in Int /\ 1 \in Int /\ \A i \in 1 .. k : luaStack[i] \in T
      BY <2>2, <3>1 DEF k
    <3>3. /\ SubSeq(luaStack, 1, k) \in Seq(T)
          /\ Len(SubSeq(luaStack, 1, k)) = IF 1 <= k THEN k - 1 + 1 ELSE 0
      BY <3>2, SubSeqProperties
    <3>4. Len(SubSeq(luaStack, 1, k)) = k
      BY <3>2, <3>3
    <3>5. QED
      BY <3>3, <3>4 DEF k
  <2> HIDE DEF rest, x, size, left, node
  <2>5. luaStack' \in Seq(T) /\ Len(luaStack') = Len(left) + 1
    BY <2>1, <2>4, AppendProperties
  <2>6. Len(luaStack') + 1 = x + NofElements(prod)
    BY <2>1, <2>4, <2>5, <1>5, <1>6, <1>7
  <2>7. \A element \in T : element.scope \in Scope
    BY <1>2, <2>3
  <2>8. \E U : luaStack' \in Seq(U) /\ \A element \in U : element.scope \in Scope
    BY <2>5, <2>7
  <2>9. NofElements(prod) \in Nat
    BY <2>1
  <2>10. QED
    BY <2>6, <2>8, <2>9, <1>1, <1>3, <1>4 DEF rest, x
<1>10. QED
  BY <1>1, <1>8, <1>9

-----------------------------------------------------------------------------
(* What is left by a reduction, with its counters.                         *)
LEMMA CallCounters ==
  ASSUME Types, Counters, ScopesNested, Accounted, phase = "run",
         NEW prod \in Productions, CallOf(prod)
  PROVE  LET rest == Rest(prod.count)
             c    == ScopeStart(prod.count)
         IN  /\ Rising(rest, scopestep', scopes')
             /\ \A i \in DOMAIN rest : rest[i].scopecnt <= c
<1> DEFINE rest == Rest(prod.count)
           c    == ScopeStart(prod.count)
           k    == Len(stateStack) - prod.count
<1>1. /\ prod.count \in Nat /\ Len(stateStack) \in Nat
      /\ \A i \in 1 .. k : i \in DOMAIN stateStack
  BY ProductionsAssumption DEF Types
<1>2. /\ rest \in Seq(State) /\ Len(rest) = k
      /\ SamePrefix(stateStack, rest, Len(rest))
  BY CallElements
<1>3. \A i \in DOMAIN rest : i \in 1 .. k /\ rest[i] = stateStack[i]
  BY <1>2 DEF SamePrefix
<1>4. /\ c \in Nat /\ scopestep' \in Nat /\ scopestep <= scopestep' /\ c <= scopestep
      /\ \A i \in 1 .. k : stateStack[i].scopecnt <= c /\ Outside(stateStack[i].scopecnt, scopes')
  BY CallScopes
<1>5. \A i \in 1 .. k : stateStack[i].scopecnt \in Nat
  <2>1. ASSUME NEW i \in 1 .. k PROVE stateStack[i].scopecnt \in Nat
    <3>1. stateStack[i] \in State
      BY <1>1 DEF Types
    <3>2. QED
      BY <3>1 DEF State
  <2>2. QED
    BY <2>1
<1>6. \A i, j \in 1 .. k : i < j => stateStack[i].scopecnt <= stateStack[j].scopecnt
  BY <1>1 DEF Counters, Rising
<1> HIDE DEF rest, c, k
<1>7. scopestep \in Nat
  BY DEF Types
<1>8. \A i \in DOMAIN rest :
        /\ rest[i].scopecnt <= scopestep' /\ Outside(rest[i].scopecnt, scopes')
        /\ rest[i].scopecnt <= c
  BY <1>3, <1>4, <1>5, <1>7
<1>9. \A i, j \in DOMAIN rest : i < j => rest[i].scopecnt <= rest[j].scopecnt
  BY <1>3, <1>6
<1>10. QED
  BY <1>8, <1>9 DEF rest, c, Rising

LEMMA ShiftInductive ==
  ASSUME Inductive, phase = "run", feeds' \in 0 .. MaxFeeds, ShiftToken \/ ShiftKeyword
  PROVE  Inductive'
<1> DEFINE x == NextLuaStackIndex(stateStack)
           y == Len(luaStack) + 1
           n == IF ShiftToken THEN 1 ELSE 0
           leaf == Leaf(tokens + 1)
<1>1. /\ stateStack \in Seq(State) /\ Linked(stateStack) /\ Len(stateStack) \in Nat
      /\ IsBehindLast(stateStack, Len(stateStack), y) /\ scopestep \in Nat /\ tokens \in Nat
      /\ Len(stateStack) >= 1
  BY DEF Inductive, Types, Accounted
<1>2. x \in Nat /\ IsBehindLast(stateStack, Len(stateStack), x)
  BY <1>1, NextIndex
<1>3. x = y
  <2> HIDE DEF x, y
  <2>1. QED
    BY <1>1, <1>2, BehindIsUnique
<1>4. /\ scopestep' = scopestep /\ scopes' = scopes /\ phase' = phase /\ tokens' \in Nat
  BY <1>1 DEF ShiftToken, ShiftKeyword
<1>5. PICK S : luaStack \in Seq(S) /\ \A node \in S : node.scope \in Scope
  BY DEF Inductive, Types
<1>6. /\ Len(luaStack') + 1 = x + n /\ n \in Nat
      /\ \E U : luaStack' \in Seq(U) /\ \A node \in U : node.scope \in Scope
  <2>1. CASE ShiftToken
    <3> DEFINE T == S \cup {leaf}
    <3>1. leaf.scope \in Scope
      BY <1>1 DEF Leaf, Scope
    <3>2. luaStack' = Append(luaStack, leaf)
      BY <2>1 DEF ShiftToken
    <3> HIDE DEF leaf
    <3>3. luaStack \in Seq(T) /\ leaf \in T /\ \A node \in T : node.scope \in Scope
      BY <1>5, <3>1
    <3> HIDE DEF T
    <3>4. luaStack' \in Seq(T) /\ Len(luaStack') = Len(luaStack) + 1 /\ Len(luaStack) \in Nat
      BY <3>2, <3>3, AppendProperties
    <3> HIDE DEF x
    <3>5. QED
      BY <2>1, <3>3, <3>4, <1>3
  <2>2. CASE ~ShiftToken
    <3>1. luaStack' = luaStack /\ n = 0
      BY <2>2 DEF ShiftKeyword
    <3> HIDE DEF x, n
    <3>2. QED
      BY <3>1, <1>3, <1>5
  <2>3. QED
    BY <2>1, <2>2
<1>7. stateStack' = Append(stateStack, NewState(IF n = 0 THEN 0 ELSE x, n, scopestep))
  BY DEF ShiftToken, ShiftKeyword
<1>8. /\ stateStack' \in Seq(State) /\ Linked(stateStack')
      /\ IsBehindLast(stateStack', Len(stateStack'), x + n)
  <2> HIDE DEF x, n
  <2>1. QED
    BY <1>1, <1>2, <1>6, <1>7, PushLinked, ZenonT(30)
<1>9. Len(stateStack') >= 1
  BY <1>1, <1>7
<1>10. Types'
  <2> HIDE DEF n, x
  <2>1. scopes' \subseteq Scope /\ phase' \in {"run", "accepted", "error"} /\ scopestep' \in Nat
    BY <1>4 DEF Inductive, Types
  <2>2. QED
    BY <1>4, <1>6, <1>8, <1>9, <2>1 DEF Types
<1>11. Accounted'
  <2> HIDE DEF n, x
  <2>1. QED
    BY <1>6, <1>8 DEF Accounted
<1>12. Counters' /\ ScopesNested'
  <2> DEFINE i0 == IF n = 0 THEN 0 ELSE x
  <2>1. i0 \in Nat /\ n \in Nat
    BY <1>2
  <2>2. /\ Outside(scopestep, scopes) /\ scopestep <= scopestep
        /\ Rising(stateStack, scopestep, scopes)
        /\ \A i \in DOMAIN stateStack : stateStack[i].scopecnt <= scopestep
    BY <1>1 DEF Inductive, Counters, Outside, Rising
  <2>3. stateStack' = Append(stateStack, NewState(i0, n, scopestep))
    BY <1>7
  <2> HIDE DEF i0, n
  <2>4. Rising(stateStack', scopestep, scopes)
    BY <1>1, <2>1, <2>2, <2>3, PushCounters
  <2>5. Counters'
    BY <1>4, <2>4 DEF Inductive, Counters
  <2>6. ScopesNested'
    BY <1>4 DEF Inductive, ScopesNested, Crossing
  <2>7. QED
    BY <2>5, <2>6
<1>13. QED
  BY <1>10, <1>11, <1>12 DEF Inductive

(* What every action with a call does to the other variables.              *)
LEMMA CallTypes ==
  ASSUME Inductive, phase = "run", feeds' \in 0 .. MaxFeeds,
         NEW prod \in Productions, CallOf(prod),
         stateStack' \in Seq(State), Len(stateStack') >= 1,
         phase' \in {"run", "accepted", "error"},
         Rising(stateStack', scopestep', scopes')
  PROVE  Types' /\ Counters' /\ ScopesNested'
<1>1. Types /\ Accounted /\ Counters /\ ScopesNested
  BY DEF Inductive
<1>2. /\ scopestep' \in Nat /\ scopes' \subseteq Scope
      /\ \A s \in scopes' : s.end <= scopestep'
      /\ ScopesNested'
  BY <1>1, CallScopes
<1>3. \E S : luaStack' \in Seq(S) /\ \A node \in S : node.scope \in Scope
  BY <1>1, CallElements
<1>4. tokens' \in Nat
  BY <1>1 DEF CallOf, Types
<1>5. QED
  BY <1>2, <1>3, <1>4 DEF Types, Counters

LEMMA ReduceInductive ==
  ASSUME Inductive, phase = "run", feeds' \in 0 .. MaxFeeds,
         NEW prod \in Productions, Reduce(prod)
  PROVE  Inductive'
<1> DEFINE rest == Rest(prod.count)
           x    == NextLuaStackIndex(rest)
           c    == ScopeStart(prod.count)
           n    == NofElements(prod)
           i0   == IF n = 0 THEN 0 ELSE x
<1>1. Types /\ Accounted /\ Counters /\ ScopesNested /\ CallOf(prod) /\ phase' = "run"
  BY DEF Inductive, Reduce
<1>2. /\ rest \in Seq(State) /\ Len(rest) >= 1 /\ Linked(rest)
      /\ x \in Nat /\ IsBehindLast(rest, Len(rest), x)
      /\ n \in Nat /\ Len(luaStack') + 1 = x + n
  BY <1>1, CallElements
<1>3. /\ c \in Nat /\ c <= scopestep /\ scopestep <= scopestep' /\ scopestep' \in Nat
      /\ Outside(c, scopes')
  BY <1>1, CallScopes
<1>4. /\ Rising(rest, scopestep', scopes')
      /\ \A i \in DOMAIN rest : rest[i].scopecnt <= c
  BY <1>1, CallCounters
<1>5. scopestep \in Nat
  BY <1>1 DEF Types
<1>6. stateStack' = Append(rest, NewState(i0, n, c))
  BY DEF Reduce
<1>7. i0 \in Nat /\ i0 = IF n = 0 THEN 0 ELSE x
  BY <1>2
<1> HIDE DEF rest, x, c, n, i0
<1>8. /\ stateStack' \in Seq(State) /\ Linked(stateStack')
      /\ IsBehindLast(stateStack', Len(stateStack'), x + n)
  BY <1>2, <1>3, <1>6, <1>7, PushLinked
<1>9. Rising(stateStack', scopestep', scopes')
  <2>1. c <= scopestep'
    BY <1>3, <1>5
  <2>2. QED
    BY <1>2, <1>3, <1>4, <1>6, <1>7, <2>1, PushCounters
<1>10. Len(stateStack') >= 1
  BY <1>2, <1>6
<1>11. Types' /\ Counters' /\ ScopesNested'
  BY <1>1, <1>8, <1>9, <1>10, CallTypes
<1>12. Accounted'
  BY <1>2, <1>8 DEF Accounted
<1>13. QED
  BY <1>11, <1>12 DEF Inductive

LEMMA AcceptInductive ==
  ASSUME Inductive, phase = "run", feeds' \in 0 .. MaxFeeds,
         NEW prod \in Productions, Accept(prod)
  PROVE  Inductive'
<1> DEFINE rest == Rest(prod.count)
           n    == NofElements(prod)
           c    == stateStack[1].scopecnt
<1>1. /\ Types /\ Accounted /\ Counters /\ ScopesNested /\ CallOf(prod)
      /\ phase' = "accepted" /\ stateStack' = <<NewState(1, n + 1, c)>>
  BY DEF Inductive, Accept
<1>2. n \in Nat /\ Len(rest) >= 1 /\ rest \in Seq(State)
      /\ SamePrefix(stateStack, rest, Len(rest))
  BY <1>1, CallElements
<1>3. Rising(rest, scopestep', scopes')
  BY <1>1, CallCounters
<1>4. rest[1] = stateStack[1] /\ 1 \in DOMAIN rest /\ rest[1] \in State
  BY <1>2 DEF SamePrefix
<1>5. c \in Nat /\ c <= scopestep' /\ Outside(c, scopes')
  BY <1>3, <1>4 DEF Rising, State
<1> HIDE DEF rest, n, c
<1>6. /\ NewState(1, n + 1, c) \in State /\ NewState(1, n + 1, c).scopecnt = c
  BY <1>2, <1>5 DEF NewState, State
<1>7. /\ stateStack' \in Seq(State) /\ Len(stateStack') >= 1
      /\ DOMAIN stateStack' = 1 .. 1 /\ stateStack'[1].scopecnt = c
  BY <1>1, <1>6
<1>8. Rising(stateStack', scopestep', scopes')
  BY <1>5, <1>7 DEF Rising
<1>9. Types' /\ Counters' /\ ScopesNested'
  BY <1>1, <1>7, <1>8, CallTypes
<1>10. Accounted'
  BY <1>1 DEF Accounted
<1>11. QED
  BY <1>9, <1>10 DEF Inductive

LEMMA ThrowInductive ==
  ASSUME Inductive, phase = "run", feeds' \in 0 .. MaxFeeds,
         Throw \/ \E prod \in Productions : ThrowReduced(prod)
  PROVE  Inductive'
<1>1. CASE Throw
  <2>1. Types' /\ Accounted'
    BY <1>1 DEF Inductive, Types, Throw, Accounted
  <2>2. Counters' /\ ScopesNested'
    BY <1>1 DEF Inductive, Throw, Counters, Rising, Outside, ScopesNested, Crossing
  <2>3. QED
    BY <2>1, <2>2 DEF Inductive
<1>2. ASSUME NEW prod \in Productions, ThrowReduced(prod) PROVE Inductive'
  <2>1. /\ Types /\ Accounted /\ Counters /\ ScopesNested /\ CallOf(prod)
        /\ phase' = "error" /\ stateStack' = Rest(prod.count)
    BY <1>2 DEF Inductive, ThrowReduced
  <2>2. stateStack' \in Seq(State) /\ Len(stateStack') >= 1
    BY <2>1, CallElements
  <2>3. Rising(stateStack', scopestep', scopes')
    BY <2>1, CallCounters
  <2>4. Types' /\ Counters' /\ ScopesNested'
    BY <2>1, <2>2, <2>3, CallTypes
  <2>5. QED
    BY <2>1, <2>4 DEF Inductive, Accounted
<1>3. QED
  BY <1>1, <1>2

-----------------------------------------------------------------------------
LEMMA NextInductive == Inductive /\ [Next]_vars => Inductive'
<1> SUFFICES ASSUME Inductive, [Next]_vars PROVE Inductive'
  OBVIOUS
<1>1. CASE UNCHANGED vars
  <2>1. Types' /\ Accounted'
    BY <1>1 DEF Inductive, Types, Accounted, vars
  <2>2. Counters' /\ ScopesNested'
    BY <1>1 DEF Inductive, Counters, Rising, Outside, ScopesNested, Crossing, vars
  <2>3. QED
    BY <2>1, <2>2 DEF Inductive
<1>2. CASE Next
  <2>1. phase = "run" /\ feeds' \in 0 .. MaxFeeds
    BY <1>2, MaxFeedsAssumption DEF Next, Feed, Inductive, Types
  <2>2. CASE ShiftToken \/ ShiftKeyword
    BY <2>1, <2>2, ShiftInductive
  <2>3. ASSUME NEW prod \in Productions, Reduce(prod) PROVE Inductive'
    BY <2>1, <2>3, ReduceInductive
  <2>4. ASSUME NEW prod \in Productions, Accept(prod) PROVE Inductive'
    BY <2>1, <2>4, AcceptInductive
  <2>5. CASE Throw \/ \E prod \in Productions : ThrowReduced(prod)
    BY <2>1, <2>5, ThrowInductive
  <2>6. QED
    BY <1>2, <2>2, <2>3, <2>4, <2>5 DEF Next, Feed
<1>3. QED
  BY <1>1, <1>2

LEMMA AlwaysInductive == Spec => []Inductive
  BY InitInductive, NextInductive, PTL DEF Spec

(* The stack of states, the counter and the scopes keep their types.       *)
THEOREM TypeCorrect == Spec => []TypeOK
<1>1. Inductive => TypeOK
  <2> SUFFICES ASSUME Inductive PROVE TypeOK
    OBVIOUS
  <2>1. PICK S : luaStack \in Seq(S) /\ \A node \in S : node.scope \in Scope
    BY DEF Inductive, Types
  <2>2. \A i \in DOMAIN luaStack : luaStack[i].scope \in Scope
    BY <2>1
  <2>3. QED
    BY <2>2 DEF Inductive, Types, TypeOK
<1>2. QED
  BY <1>1, AlwaysInductive, PTL

(* While a compiler runs, the states on its stack account for every        *)
(* element of the Lua stack, so its runtime check never fails.             *)
THEOREM ElementsAccounted == Spec => []StackAgrees
<1>1. Inductive => StackAgrees
  BY DEF Inductive, Accounted, Linked, StackAgrees
<1>2. QED
  BY <1>1, AlwaysInductive, PTL

(* The scopes a run hands out are never empty and never cross, whatever    *)
(* the grammar is: the type database can rely on it.                       *)
THEOREM ScopesAlwaysNested == Spec => []ScopesNested
<1>1. Inductive => ScopesNested
  BY DEF Inductive
<1>2. QED
  BY <1>1, AlwaysInductive, PTL

-----------------------------------------------------------------------------
(* A call has put a node in the place of the elements behind the first k.  *)
Taken(prod, k, args) ==
  /\ DOMAIN luaStack' = 1 .. k + 1 /\ Len(luaStack') = k + 1
  /\ \A e \in 1 .. k : luaStack'[e] = luaStack[e]
  /\ luaStack'[k + 1] = Node(prod, args)
  /\ args = SubSeq(luaStack, k + 1, Len(luaStack))
  /\ DOMAIN args = 1 .. Len(luaStack) - k /\ Len(args) = Len(luaStack) - k
  /\ \A i \in DOMAIN args : args[i] = luaStack[k + i] /\ k + i \in k + 1 .. Len(luaStack)

(* The elements of the Lua stack a call takes and the one it leaves.       *)
LEMMA CallLua ==
  ASSUME Inductive, phase = "run", NEW prod \in Productions, CallOf(prod),
         NEW k, k = Len(luaStack) - ReductionSize(prod.count)
  PROVE  /\ k \in Nat /\ Len(luaStack) \in Nat /\ k <= Len(luaStack)
         /\ DOMAIN luaStack = 1 .. Len(luaStack)
         /\ prod.count \in Nat /\ prod.count < Len(stateStack) /\ Len(stateStack) \in Nat
         /\ prod.count = 0 => k = Len(luaStack)
         /\ IsBehindLast(stateStack, Len(stateStack) - prod.count, k + 1)
         /\ ~prod.call => luaStack' = luaStack
         /\ prod.call => \E args : Taken(prod, k, args)
<1> DEFINE n    == prod.count
           rest == Rest(n)
           size == ReductionSize(n)
           l    == Len(luaStack)
<1>1. /\ n \in Nat /\ Len(stateStack) \in Nat /\ n < Len(stateStack)
      /\ stateStack \in Seq(State) /\ Linked(stateStack) /\ prod.call \in BOOLEAN
      /\ IsBehindLast(stateStack, Len(stateStack), l + 1)
  BY ProductionsAssumption DEF Inductive, Types, Accounted, CallOf
<1>2. PICK S : luaStack \in Seq(S) /\ \A node \in S : node.scope \in Scope
  BY DEF Inductive, Types
<1>3. l \in Nat /\ l + 1 \in Nat /\ DOMAIN luaStack = 1 .. l
  BY <1>2, LenProperties
<1>4. size \in Nat /\ IsBehindLast(rest, Len(stateStack) - n, l + 1 - size)
  <2> DEFINE y == l + 1
  <2>1. y \in Nat /\ IsBehindLast(stateStack, Len(stateStack), y)
    BY <1>1, <1>3
  <2> HIDE DEF y, n
  <2>2. ReductionSize(n) \in Nat /\ IsBehindLast(Rest(n), Len(stateStack) - n, y - ReductionSize(n))
    BY <1>1, <2>1, SizeOfReduction
  <2>3. QED
    BY <2>2 DEF y
<1>5. /\ SamePrefix(stateStack, rest, Len(stateStack) - n) /\ rest \in Seq(State)
      /\ Len(rest) = Len(stateStack) - n
  <2> DEFINE m == Len(stateStack) - n
  <2>1. m \in 0 .. Len(stateStack) /\ rest = SubSeq(stateStack, 1, m)
    BY <1>1 DEF Rest
  <2> HIDE DEF m, rest
  <2>2. SamePrefix(stateStack, rest, m) /\ rest \in Seq(State) /\ Len(rest) = m
    BY <1>1, <2>1, RestLinked
  <2>3. QED
    BY <2>2 DEF m
<1>6. IsBehindLast(stateStack, Len(stateStack) - n, l + 1 - size)
  <2> HIDE DEF rest, size, l
  <2>1. SamePrefix(rest, stateStack, Len(stateStack) - n) /\ Len(stateStack) - n \in Nat
    BY <1>1, <1>5 DEF SamePrefix
  <2>2. QED
    BY <1>4, <2>1, BehindOfPrefix
<1>7. l + 1 - size >= 1
  <2> HIDE DEF size, l
  <2>1. PICK x : x = l + 1 - size
    OBVIOUS
  <2>2. ASSUME NEW h \in 1 .. Len(stateStack) - n, Used(stateStack, h), x = EndOf(stateStack, h)
        PROVE  x >= 1
    <3>1. stateStack[h] \in State
      BY <1>1
    <3>2. stateStack[h].luastki \in Nat /\ stateStack[h].luastkn \in Nat /\ stateStack[h].luastkn # 0
      BY <2>2, <3>1 DEF State, Used
    <3>3. QED
      BY <2>2, <3>2 DEF EndOf
  <2>3. x >= 1
    BY <1>6, <2>1, <2>2 DEF IsBehindLast
  <2>4. QED
    BY <2>1, <2>3
<1>8. /\ k \in Nat /\ k <= l /\ k + 1 = l + 1 - size /\ k + size = l
  <2> HIDE DEF n
  <2>1. k = l - size
    BY DEF n
  <2> HIDE DEF l, size
  <2>2. QED
    BY <1>3, <1>4, <1>7, <2>1
<1>9. n = 0 => k = l
  <2> HAVE n = 0
  <2>1. ReductionSize(0) = 0
    <3>1. Popped(0) = <<>>
      BY <1>1, SubSeqEmpty DEF Popped
    <3>2. {i \in DOMAIN Popped(0) : Popped(0)[i].luastki # 0} = {}
      BY <3>1
    <3>3. QED
      BY <3>2 DEF ReductionSize
  <2>2. QED
    BY <1>3, <2>1
<1>10. ASSUME prod.call
       PROVE  \E args : Taken(prod, k, args)
  <2> DEFINE args == Arguments(size)
             left == SubSeq(luaStack, 1, l - size)
             node == Node(prod, args)
             T == S \cup {node}
  <2>1. luaStack' = Append(left, node)
    BY <1>10 DEF CallOf, Reduced
  <2>2. l - size = k /\ l - size + 1 = k + 1
    <3> HIDE DEF l, size
    <3>1. QED
      BY <1>3, <1>4, <1>8
  <2>3. args = SubSeq(luaStack, k + 1, l)
    BY <2>2 DEF Arguments
  <2>4. left = SubSeq(luaStack, 1, k)
    BY <2>2
  <2> HIDE DEF args, left, l, size, node
  <2>5. \A i \in 1 .. l : luaStack[i] \in S
    BY <1>2, <1>3, ElementOfSeq DEF l
  <2>6. /\ args \in Seq(S) /\ Len(args) = l - k
        /\ \A i \in 1 .. l - k : args[i] = luaStack[k + i]
    <3>1. /\ SubSeq(luaStack, k + 1, l) \in Seq(S)
          /\ Len(SubSeq(luaStack, k + 1, l)) = IF k + 1 <= l THEN l - (k + 1) + 1 ELSE 0
          /\ \A i \in 1 .. l - (k + 1) + 1 : SubSeq(luaStack, k + 1, l)[i] = luaStack[k + 1 + i - 1]
      <4>1. k + 1 \in Int /\ l \in Int /\ \A i \in k + 1 .. l : luaStack[i] \in S
        BY <1>3, <1>8, <2>5
      <4>2. QED
        BY <4>1, SubSeqProperties
    <3>2. l - (k + 1) + 1 = l - k /\ \A i \in 1 .. l - k : k + 1 + i - 1 = k + i
      BY <1>3, <1>8
    <3>3. (IF k + 1 <= l THEN l - (k + 1) + 1 ELSE 0) = l - k
      BY <1>3, <1>8
    <3>4. QED
      BY <2>3, <3>1, <3>2, <3>3
  <2>7. DOMAIN args = 1 .. l - k
    BY <2>6, LenProperties
  <2>8. \A i \in 1 .. l - k : k + i \in k + 1 .. l
    BY <1>3, <1>8
  <2>9. /\ left \in Seq(T) /\ Len(left) = k
        /\ \A i \in 1 .. k : left[i] = luaStack[i]
    <3>1. /\ SubSeq(luaStack, 1, k) \in Seq(T)
          /\ Len(SubSeq(luaStack, 1, k)) = IF 1 <= k THEN k - 1 + 1 ELSE 0
          /\ \A i \in 1 .. k - 1 + 1 : SubSeq(luaStack, 1, k)[i] = luaStack[1 + i - 1]
      <4>1. 1 \in Int /\ k \in Int /\ \A i \in 1 .. k : luaStack[i] \in T
        BY <1>3, <1>8, <2>5
      <4> HIDE DEF T
      <4>2. QED
        BY <4>1, SubSeqProperties
    <3>2. k - 1 + 1 = k /\ (IF 1 <= k THEN k - 1 + 1 ELSE 0) = k /\ \A i \in 1 .. k : 1 + i - 1 = i
      BY <1>8
    <3>3. QED
      BY <2>4, <3>1, <3>2
  <2>10. node \in T
    OBVIOUS
  <2> HIDE DEF T
  <2>11. /\ luaStack' \in Seq(T) /\ Len(luaStack') = k + 1
         /\ \A i \in 1 .. k : luaStack'[i] = luaStack[i]
         /\ luaStack'[k + 1] = node
    BY <2>1, <2>9, <2>10, AppendProperties
  <2>12. DOMAIN luaStack' = 1 .. k + 1
    BY <2>11, LenProperties
  <2>13. QED
    BY <2>3, <2>6, <2>7, <2>8, <2>11, <2>12 DEF l, node, Taken
<1>11. ~prod.call => luaStack' = luaStack
  BY DEF CallOf
<1>12. IsBehindLast(stateStack, Len(stateStack) - n, k + 1)
  BY <1>6, <1>8
<1> HIDE DEF size, rest
<1>13. QED
  BY <1>1, <1>3, <1>8, <1>9, <1>10, <1>11, <1>12 DEF n, l

(* The scopes and steps of a node and of all nodes below it.               *)
Extent(node) == {node.scope} \cup node.below

StartsFrom(lua, x, c) ==
  \A e \in DOMAIN lua : e >= x => \A s \in Extent(lua[e]) : c <= s.start

(* What belongs to a state and to those above it starts at its counter or  *)
(* later, and nothing ends behind the step that is next.                   *)
ScopesBelow ==
  /\ \A e \in DOMAIN luaStack : \A s \in Extent(luaStack[e]) :
       s \in Scope /\ s.end <= scopestep + 1
  /\ phase = "run" =>
       \A i \in DOMAIN stateStack, x \in Nat :
         IsBehindLast(stateStack, i - 1, x) => StartsFrom(luaStack, x, stateStack[i].scopecnt)
  /\ ScopeCoversSubtree

(* The arguments of a call start at the counter of the first symbol.       *)
LEMMA ArgumentsStart ==
  ASSUME Inductive, ScopesBelow, phase = "run", NEW prod \in Productions, CallOf(prod),
         NEW k, k = Len(luaStack) - ReductionSize(prod.count)
  PROVE  StartsFrom(luaStack, k + 1, ScopeStart(prod.count))
<1> DEFINE n == prod.count
           first == Len(stateStack) - n + 1
<1>1. /\ k \in Nat /\ Len(luaStack) \in Nat /\ DOMAIN luaStack = 1 .. Len(luaStack)
      /\ n \in Nat /\ n < Len(stateStack) /\ Len(stateStack) \in Nat
      /\ n = 0 => k = Len(luaStack)
      /\ IsBehindLast(stateStack, Len(stateStack) - n, k + 1)
  BY CallLua
<1>2. CASE n = 0
  BY <1>1, <1>2 DEF StartsFrom
<1>3. CASE n # 0
  <2>1. stateStack \in Seq(State)
    BY DEF Inductive, Types
  <2>2. /\ first \in DOMAIN stateStack /\ first \in Int /\ first <= Len(stateStack)
        /\ first - 1 = Len(stateStack) - n
    BY <1>1, <1>3, <2>1
  <2>3. Popped(n)[1] = stateStack[first]
    <3>1. \A i \in first .. Len(stateStack) : stateStack[i] \in State
      BY <1>1, <2>1, <2>2
    <3>2. first \in Int /\ Len(stateStack) \in Int
      BY <2>2, <1>1
    <3>3. 1 \in 1 .. Len(stateStack) - first + 1 /\ first + 1 - 1 = first
      BY <2>2, <1>1
    <3> HIDE DEF first
    <3>4. \A i \in 1 .. Len(stateStack) - first + 1 :
            SubSeq(stateStack, first, Len(stateStack))[i] = stateStack[first + i - 1]
      BY <3>1, <3>2, SubSeqProperties
    <3>5. QED
      BY <3>3, <3>4 DEF Popped, first
  <2>4. ScopeStart(n) = stateStack[first].scopecnt
    BY <2>3, <1>3 DEF ScopeStart
  <2>5. k + 1 \in Nat /\ IsBehindLast(stateStack, first - 1, k + 1)
    BY <1>1, <2>2
  <2>6. StartsFrom(luaStack, k + 1, stateStack[first].scopecnt)
    <3> HIDE DEF first
    <3>1. QED
      BY <2>2, <2>5 DEF ScopesBelow
  <2>7. QED
    BY <2>4, <2>6
<1>4. QED
  BY <1>2, <1>3

(* A call leaves the elements below its arguments; what it puts there      *)
(* starts at the counter of its first symbol and includes what it took.    *)
LEMMA CallExtents ==
  ASSUME Inductive, ScopesBelow, phase = "run", NEW prod \in Productions, CallOf(prod),
         NEW k, k = Len(luaStack) - ReductionSize(prod.count)
  PROVE  /\ \A e \in DOMAIN luaStack' : \A s \in Extent(luaStack'[e]) :
              s \in Scope /\ s.end <= scopestep' + 1
         /\ StartsFrom(luaStack', k + 1, ScopeStart(prod.count))
         /\ \A e \in DOMAIN luaStack' : e <= k => e \in DOMAIN luaStack /\ luaStack'[e] = luaStack[e]
         /\ ScopeCoversSubtree'
<1> DEFINE c == ScopeStart(prod.count)
<1>1. /\ k \in Nat /\ Len(luaStack) \in Nat /\ k <= Len(luaStack)
      /\ DOMAIN luaStack = 1 .. Len(luaStack)
      /\ ~prod.call => luaStack' = luaStack
  BY CallLua
<1>2. StartsFrom(luaStack, k + 1, c)
  BY ArgumentsStart
<1>3. /\ c \in Nat /\ scopestep' \in Nat /\ scopestep \in Nat
      /\ scopestep <= scopestep' /\ c <= scopestep
  <2>1. c \in Nat /\ scopestep' \in Nat /\ scopestep <= scopestep' /\ c <= scopestep
    BY CallScopes DEF Inductive
  <2>2. QED
    BY <2>1 DEF Inductive, Types
<1> HIDE DEF c
<1>4. \A e \in DOMAIN luaStack : \A s \in Extent(luaStack[e]) :
        s \in Scope /\ s.start \in Nat /\ s.end \in Nat /\ s.end <= scopestep + 1
  BY DEF ScopesBelow, Scope
<1>5. CASE ~prod.call
  <2>1. luaStack' = luaStack
    BY <1>1, <1>5
  <2>2. ScopeCoversSubtree'
    BY <2>1 DEF ScopesBelow, ScopeCoversSubtree
  <2>3. \A e \in DOMAIN luaStack' : \A s \in Extent(luaStack'[e]) :
          s \in Scope /\ s.end <= scopestep' + 1
    BY <1>3, <1>4, <2>1
  <2>4. QED
    BY <1>2, <2>1, <2>2, <2>3 DEF c
<1>6. CASE prod.call
  <2>0. PICK args : Taken(prod, k, args)
    BY <1>6, CallLua
  <2>1. /\ DOMAIN luaStack' = 1 .. k + 1
        /\ \A e \in 1 .. k : luaStack'[e] = luaStack[e]
        /\ luaStack'[k + 1] = Node(prod, args)
        /\ \A i \in DOMAIN args : args[i] = luaStack[k + i] /\ k + i \in k + 1 .. Len(luaStack)
    BY <2>0 DEF Taken
  <2> DEFINE node == Node(prod, args)
  <2>2. /\ node.scope = NodeScope(prod) /\ node.isScope = (prod.scopeflag = "Scope")
        /\ node.below = UNION {{args[i].scope} \cup args[i].below : i \in DOMAIN args}
    BY DEF Node
  <2>3. ASSUME NEW s \in node.below
        PROVE  s \in Scope /\ c <= s.start /\ s.end <= scopestep + 1 /\ s.end \in Nat
    <3>1. PICK i \in DOMAIN args : s \in {args[i].scope} \cup args[i].below
      BY <2>2
    <3>2. PICK e \in k + 1 .. Len(luaStack) : args[i] = luaStack[e]
      BY <2>1
    <3>3. e \in DOMAIN luaStack /\ e >= k + 1 /\ s \in Extent(luaStack[e])
      BY <1>1, <3>1, <3>2 DEF Extent
    <3>4. QED
      BY <3>3, <1>2, <1>4 DEF StartsFrom
  <2>4. /\ NodeScope(prod) \in Scope /\ c <= NodeScope(prod).start
        /\ NodeScope(prod).end <= scopestep' + 1
        /\ prod.scopeflag = "Scope" => NodeScope(prod).start = c /\ NodeScope(prod).end = scopestep + 1
    <3>1. scopestep' = Step(prod)
      BY <1>6 DEF CallOf
    <3>2. prod.scopeflag = "Scope" => Step(prod) = scopestep + 1
      BY <1>6 DEF Step
    <3>3. CASE prod.scopeflag = "Scope"
      <4>1. NodeScope(prod) = [start |-> c, end |-> scopestep + 1]
        BY <3>2, <3>3 DEF NodeScope, c
      <4>2. NodeScope(prod).start = c /\ NodeScope(prod).end = scopestep + 1
        BY <4>1
      <4>3. NodeScope(prod) \in Scope
        BY <4>1, <1>3 DEF Scope
      <4>4. scopestep' = scopestep + 1
        BY <3>1, <3>2, <3>3
      <4>5. QED
        BY <4>2, <4>3, <4>4, <1>3
    <3>4. CASE prod.scopeflag # "Scope"
      <4>1. PICK d \in Nat : d = scopestep' /\ scopestep <= d
        BY <1>3
      <4>2. NodeScope(prod) = [start |-> d, end |-> d + 1]
        BY <3>1, <3>4, <4>1 DEF NodeScope
      <4>3. NodeScope(prod).start = d /\ NodeScope(prod).end = d + 1
        BY <4>2
      <4>4. NodeScope(prod) \in Scope
        BY <4>2 DEF Scope
      <4>5. c <= d
        BY <4>1, <1>3
      <4>6. c <= NodeScope(prod).start
        BY <4>3, <4>5
      <4>7. NodeScope(prod).end <= scopestep' + 1
        <5>1. d + 1 <= d + 1
          OBVIOUS
        <5>2. QED
          BY <5>1, <4>1, <4>3, Zenon
      <4>8. QED
        BY <4>4, <4>6, <4>7, <3>4
    <3>5. QED
      BY <3>3, <3>4
  <2> HIDE DEF node
  <2>5. \A s \in Extent(node) : s \in Scope /\ c <= s.start /\ s.end <= scopestep' + 1
    <3> TAKE s \in Extent(node)
    <3>1. CASE s = node.scope
      BY <3>1, <2>2, <2>4
    <3>2. CASE s \in node.below
      <4>1. s.end <= scopestep + 1 /\ s.end \in Nat
        BY <2>3, <3>2
      <4>2. s.end <= scopestep' + 1
        BY <4>1, <1>3
      <4>3. QED
        BY <2>3, <3>2, <4>2
    <3>3. QED
      BY <3>1, <3>2 DEF Extent
  <2>6. \A e \in DOMAIN luaStack' :
          \/ e \in 1 .. k /\ e \in DOMAIN luaStack /\ luaStack'[e] = luaStack[e]
          \/ e = k + 1 /\ luaStack'[e] = node
    BY <1>1, <2>1 DEF node
  <2>7. \A e \in DOMAIN luaStack' : \A s \in Extent(luaStack'[e]) :
          s \in Scope /\ s.end <= scopestep' + 1
    <3> TAKE e \in DOMAIN luaStack'
    <3>1. CASE e = k + 1 /\ luaStack'[e] = node
      BY <3>1, <2>5
    <3>2. CASE e \in DOMAIN luaStack /\ luaStack'[e] = luaStack[e]
      BY <3>2, <1>3, <1>4
    <3>3. QED
      BY <2>6, <3>1, <3>2
  <2>8. StartsFrom(luaStack', k + 1, c)
    <3>1. \A e \in DOMAIN luaStack' : e >= k + 1 => luaStack'[e] = node
      BY <1>1, <2>6
    <3>2. QED
      BY <3>1, <2>5 DEF StartsFrom
  <2>9. ScopeCoversSubtree'
    <3>1. ASSUME NEW e \in DOMAIN luaStack', luaStack'[e].isScope, NEW s \in luaStack'[e].below
          PROVE  luaStack'[e].scope.start <= s.start /\ s.end <= luaStack'[e].scope.end
      <4>1. CASE e \in DOMAIN luaStack /\ luaStack'[e] = luaStack[e]
        BY <3>1, <4>1 DEF ScopesBelow, ScopeCoversSubtree
      <4>2. CASE e = k + 1 /\ luaStack'[e] = node
        <5>1. prod.scopeflag = "Scope" /\ s \in node.below
          BY <3>1, <4>2, <2>2
        <5>2. QED
          BY <5>1, <4>2, <2>2, <2>3, <2>4
      <4>3. QED
        BY <2>6, <4>1, <4>2
    <3>2. QED
      BY <3>1 DEF ScopeCoversSubtree
  <2>10. \A e \in DOMAIN luaStack' : e <= k => e \in DOMAIN luaStack /\ luaStack'[e] = luaStack[e]
    BY <1>1, <2>6
  <2>11. QED
    BY <2>7, <2>8, <2>9, <2>10 DEF c
<1>7. QED
  BY <1>5, <1>6

(* A state is pushed whose part begins at y: what is there starts at its   *)
(* counter, and that is not below the counters of the states left.         *)
LEMMA PushScopesBelow ==
  ASSUME Inductive, ScopesBelow, phase = "run",
         NEW rest \in Seq(State), Len(rest) <= Len(stateStack),
         SamePrefix(stateStack, rest, Len(rest)),
         NEW st \in State, stateStack' = Append(rest, st),
         \A i \in 1 .. Len(rest) : stateStack[i].scopecnt <= st.scopecnt,
         NEW y \in Nat, IsBehindLast(stateStack, Len(rest), y),
         \A e \in DOMAIN luaStack' : e \in Nat /\ \A s \in Extent(luaStack'[e]) : s \in Scope,
         \A e \in DOMAIN luaStack' : e < y => e \in DOMAIN luaStack /\ luaStack'[e] = luaStack[e],
         StartsFrom(luaStack', y, st.scopecnt)
  PROVE  \A i \in DOMAIN stateStack', x \in Nat :
           IsBehindLast(stateStack', i - 1, x) =>
             StartsFrom(luaStack', x, stateStack'[i].scopecnt)
<1> DEFINE m == Len(rest)
<1>1. /\ m \in Nat /\ Len(stateStack) \in Nat /\ m <= Len(stateStack)
      /\ DOMAIN stateStack' = 1 .. m + 1 /\ DOMAIN stateStack = 1 .. Len(stateStack)
      /\ \A i \in 1 .. m : stateStack'[i] = rest[i] /\ i \in DOMAIN stateStack
      /\ stateStack'[m + 1] = st /\ stateStack \in Seq(State)
  <2>1. stateStack \in Seq(State)
    BY DEF Inductive, Types
  <2>2. QED
    BY <2>1, AppendProperties
<1>2. \A i \in 1 .. m : stateStack'[i] = stateStack[i]
  BY <1>1 DEF SamePrefix
<1>3. SamePrefix(stateStack', stateStack, m)
  BY <1>2 DEF SamePrefix
<1>4. ASSUME NEW i \in DOMAIN stateStack', NEW x \in Nat, IsBehindLast(stateStack', i - 1, x)
      PROVE  StartsFrom(luaStack', x, stateStack'[i].scopecnt)
  <2>1. IsBehindLast(stateStack, i - 1, x)
    <3>1. i - 1 \in Nat /\ SamePrefix(stateStack', stateStack, i - 1)
      BY <1>1, <1>3 DEF SamePrefix
    <3>2. PICK sp : sp = stateStack'
      OBVIOUS
    <3>3. SamePrefix(sp, stateStack, i - 1) /\ IsBehindLast(sp, i - 1, x)
      BY <1>4, <3>1, <3>2
    <3>4. QED
      BY <3>1, <3>3, BehindOfPrefix
  <2>2. CASE i = m + 1
    <3>1. i - 1 = m
      BY <2>2, <1>1
    <3>2. x = y
      BY <2>1, <3>1, <1>1, BehindIsUnique
    <3>3. QED
      BY <2>2, <3>2, <1>1
  <2>3. CASE i \in 1 .. m
    <3>1. i \in DOMAIN stateStack /\ stateStack'[i] = stateStack[i] /\ stateStack[i] \in State
      BY <1>1, <1>2, <2>3
    <3>2. StartsFrom(luaStack, x, stateStack[i].scopecnt)
      BY <2>1, <3>1 DEF ScopesBelow
    <3>3. PICK c \in Nat : c = stateStack[i].scopecnt /\ c <= st.scopecnt
      BY <3>1, <2>3 DEF State
    <3>4. PICK d \in Nat : d = st.scopecnt
      BY DEF State
    <3>5. ASSUME NEW e \in DOMAIN luaStack', e >= x, NEW s \in Extent(luaStack'[e])
          PROVE  c <= s.start
      <4>1. e \in Nat /\ s.start \in Nat
        BY <3>5 DEF Scope
      <4>2. CASE e < y
        <5>1. e \in DOMAIN luaStack /\ s \in Extent(luaStack[e])
          BY <3>5, <4>2
        <5>2. QED
          BY <3>2, <3>3, <3>5, <5>1 DEF StartsFrom
      <4>3. CASE e >= y
        <5>1. d <= s.start
          BY <3>4, <3>5, <4>3 DEF StartsFrom
        <5>2. QED
          BY <5>1, <4>1, <3>3, <3>4
      <4>4. QED
        BY <4>1, <4>2, <4>3
    <3>6. StartsFrom(luaStack', x, c)
      BY <3>5 DEF StartsFrom
    <3>7. QED
      BY <3>1, <3>3, <3>6
  <2>4. QED
    BY <1>1, <2>2, <2>3
<1>5. QED
  BY <1>4

LEMMA ShiftScopesBelow ==
  ASSUME Inductive, ScopesBelow, phase = "run", ShiftToken \/ ShiftKeyword
  PROVE  ScopesBelow'
<1> DEFINE leaf == Leaf(tokens + 1)
           l    == Len(luaStack)
           y    == l + 1
<1>1. PICK S : luaStack \in Seq(S) /\ \A node \in S : node.scope \in Scope
  BY DEF Inductive, Types
<1>2. l \in Nat /\ y \in Nat /\ DOMAIN luaStack = 1 .. l
  BY <1>1, LenProperties
<1>3. /\ stateStack \in Seq(State) /\ Len(stateStack) \in Nat
      /\ scopestep \in Nat /\ scopestep' = scopestep
      /\ IsBehindLast(stateStack, Len(stateStack), y)
      /\ \A i \in 1 .. Len(stateStack) : stateStack[i].scopecnt <= scopestep
  <2>1. stateStack \in Seq(State) /\ scopestep \in Nat
    BY DEF Inductive, Types
  <2>2. \A i \in 1 .. Len(stateStack) : i \in DOMAIN stateStack
    BY <2>1
  <2>3. \A i \in 1 .. Len(stateStack) : stateStack[i].scopecnt <= scopestep
    BY <2>2 DEF Inductive, Counters, Rising
  <2>4. QED
    BY <2>1, <2>3 DEF Inductive, Accounted, ShiftToken, ShiftKeyword
<1>4. PICK st \in State : stateStack' = Append(stateStack, st) /\ st.scopecnt = scopestep
  <2>1. NextLuaStackIndex(stateStack) \in Nat
    BY <1>3, NextIndex
  <2>2. /\ NewState(NextLuaStackIndex(stateStack), 1, scopestep) \in State
        /\ NewState(0, 0, scopestep) \in State
    BY <1>3, <2>1 DEF NewState, State
  <2>3. /\ NewState(NextLuaStackIndex(stateStack), 1, scopestep).scopecnt = scopestep
        /\ NewState(0, 0, scopestep).scopecnt = scopestep
    BY DEF NewState
  <2>4. QED
    BY <2>2, <2>3 DEF ShiftToken, ShiftKeyword
<1>5. /\ leaf.scope = [start |-> scopestep, end |-> scopestep + 1]
      /\ leaf.isScope = FALSE /\ leaf.below = {}
  BY DEF Leaf
<1>6. \A s \in Extent(leaf) : s \in Scope /\ s.start = scopestep /\ s.end = scopestep + 1
  BY <1>3, <1>5 DEF Extent, Scope
<1> HIDE DEF leaf
<1>7. \A e \in DOMAIN luaStack' :
        /\ e \in Nat
        /\ \/ e \in DOMAIN luaStack /\ luaStack'[e] = luaStack[e] /\ e < y
           \/ e = y /\ luaStack'[e] = leaf
  <2>1. CASE ShiftToken
    <3> DEFINE T == S \cup {leaf}
    <3>1. luaStack' = Append(luaStack, leaf)
      BY <2>1 DEF ShiftToken, leaf
    <3>2. luaStack \in Seq(T) /\ leaf \in T
      BY <1>1
    <3> HIDE DEF T
    <3>3. /\ DOMAIN luaStack' = 1 .. l + 1
          /\ \A e \in 1 .. l : luaStack'[e] = luaStack[e]
          /\ luaStack'[l + 1] = leaf
      BY <3>1, <3>2, <1>2, AppendProperties
    <3>4. QED
      BY <3>3, <1>2
  <2>2. CASE ShiftKeyword
    <3>1. luaStack' = luaStack
      BY <2>2 DEF ShiftKeyword
    <3>2. QED
      BY <3>1, <1>2
  <2>3. QED
    BY <2>1, <2>2
<1> HIDE DEF y
<1>8. \A e \in DOMAIN luaStack' : \A s \in Extent(luaStack'[e]) :
        s \in Scope /\ s.end <= scopestep' + 1
  <2> TAKE e \in DOMAIN luaStack'
  <2>1. CASE luaStack'[e] = leaf
    BY <2>1, <1>3, <1>6
  <2>2. CASE e \in DOMAIN luaStack /\ luaStack'[e] = luaStack[e]
    BY <2>2, <1>3 DEF ScopesBelow
  <2>3. QED
    BY <1>7, <2>1, <2>2
<1>9. StartsFrom(luaStack', y, scopestep)
  <2>1. \A e \in DOMAIN luaStack' : e >= y => luaStack'[e] = leaf
    BY <1>2, <1>7
  <2>2. QED
    BY <2>1, <1>3, <1>6 DEF StartsFrom
<1>10. ScopeCoversSubtree'
  <2>1. ASSUME NEW e \in DOMAIN luaStack', luaStack'[e].isScope, NEW s \in luaStack'[e].below
        PROVE  luaStack'[e].scope.start <= s.start /\ s.end <= luaStack'[e].scope.end
    <3>1. luaStack'[e] # leaf
      BY <2>1, <1>5
    <3>2. e \in DOMAIN luaStack /\ luaStack'[e] = luaStack[e]
      BY <1>7, <3>1
    <3>3. QED
      BY <2>1, <3>2 DEF ScopesBelow, ScopeCoversSubtree
  <2>2. QED
    BY <2>1 DEF ScopeCoversSubtree
<1>11. \A i \in DOMAIN stateStack', x \in Nat :
         IsBehindLast(stateStack', i - 1, x) =>
           StartsFrom(luaStack', x, stateStack'[i].scopecnt)
  <2>1. SamePrefix(stateStack, stateStack, Len(stateStack)) /\ Len(stateStack) <= Len(stateStack)
    BY <1>3 DEF SamePrefix
  <2>2. \A e \in DOMAIN luaStack' : e \in Nat /\ \A s \in Extent(luaStack'[e]) : s \in Scope
    BY <1>7, <1>8
  <2>3. \A e \in DOMAIN luaStack' : e < y => e \in DOMAIN luaStack /\ luaStack'[e] = luaStack[e]
    BY <1>2, <1>7
  <2>4. StartsFrom(luaStack', y, st.scopecnt)
    BY <1>4, <1>9
  <2>5. \A i \in 1 .. Len(stateStack) : stateStack[i].scopecnt <= st.scopecnt
    BY <1>3, <1>4
  <2>6. QED
    BY <1>2, <1>3, <1>4, <2>1, <2>2, <2>3, <2>4, <2>5, PushScopesBelow
<1>12. QED
  BY <1>8, <1>10, <1>11 DEF ScopesBelow

LEMMA CallScopesBelow ==
  ASSUME Inductive, ScopesBelow, phase = "run", NEW prod \in Productions,
         Reduce(prod) \/ Accept(prod) \/ ThrowReduced(prod)
  PROVE  ScopesBelow'
<1>1. CallOf(prod)
  BY DEF Reduce, Accept, ThrowReduced
<1>2. PICK k : k = Len(luaStack) - ReductionSize(prod.count)
  OBVIOUS
<1>3. /\ \A e \in DOMAIN luaStack' : \A s \in Extent(luaStack'[e]) :
           s \in Scope /\ s.end <= scopestep' + 1
      /\ StartsFrom(luaStack', k + 1, ScopeStart(prod.count))
      /\ \A e \in DOMAIN luaStack' : e <= k => e \in DOMAIN luaStack /\ luaStack'[e] = luaStack[e]
      /\ ScopeCoversSubtree'
  BY <1>1, <1>2, CallExtents
<1>4. CASE Accept(prod) \/ ThrowReduced(prod)
  <2>1. phase' # "run"
    BY <1>4 DEF Accept, ThrowReduced
  <2>2. QED
    BY <2>1, <1>3 DEF ScopesBelow
<1>5. CASE Reduce(prod)
  <2> DEFINE rest == Rest(prod.count)
             c    == ScopeStart(prod.count)
             n    == NofElements(prod)
             x    == NextLuaStackIndex(rest)
             i0   == IF n = 0 THEN 0 ELSE x
             st   == NewState(i0, n, c)
  <2>1. Types /\ Accounted /\ Counters /\ ScopesNested
    BY DEF Inductive
  <2>2. /\ rest \in Seq(State) /\ Len(rest) = Len(stateStack) - prod.count
        /\ SamePrefix(stateStack, rest, Len(rest)) /\ x \in Nat /\ n \in Nat
        /\ \E S : luaStack' \in Seq(S) /\ \A node \in S : node.scope \in Scope
    BY <1>1, <2>1, CallElements
  <2>3. c \in Nat
    BY <1>1, <2>1, CallScopes
  <2>4. \A i \in DOMAIN rest : rest[i].scopecnt <= c
    BY <1>1, <2>1, CallCounters
  <2>5. /\ k \in Nat /\ prod.count \in Nat /\ Len(stateStack) \in Nat
        /\ IsBehindLast(stateStack, Len(stateStack) - prod.count, k + 1)
    BY <1>1, <1>2, CallLua
  <2>6. stateStack' = Append(rest, st)
    BY <1>5 DEF Reduce
  <2>7. st \in State /\ st.scopecnt = c
    BY <2>2, <2>3 DEF NewState, State
  <2>8. \A e \in DOMAIN luaStack' : e \in Nat
    <3>1. PICK S : luaStack' \in Seq(S)
      BY <2>2
    <3>2. DOMAIN luaStack' = 1 .. Len(luaStack') /\ Len(luaStack') \in Nat
      BY <3>1, LenProperties
    <3>3. QED
      BY <3>2
  <2> HIDE DEF rest, c, n, x, i0, st
  <2>9. /\ Len(rest) <= Len(stateStack) /\ k + 1 \in Nat /\ IsBehindLast(stateStack, Len(rest), k + 1)
    BY <2>2, <2>5
  <2>10. \A i \in 1 .. Len(rest) : stateStack[i].scopecnt <= st.scopecnt
    BY <2>2, <2>4, <2>7 DEF SamePrefix
  <2>11. \A e \in DOMAIN luaStack' : e \in Nat /\ \A s \in Extent(luaStack'[e]) : s \in Scope
    BY <1>3, <2>8
  <2>12. \A e \in DOMAIN luaStack' : e < k + 1 => e \in DOMAIN luaStack /\ luaStack'[e] = luaStack[e]
    BY <1>3, <2>5, <2>8
  <2>13. StartsFrom(luaStack', k + 1, st.scopecnt)
    BY <1>3, <2>7 DEF c
  <2>14. \A i \in DOMAIN stateStack', z \in Nat :
           IsBehindLast(stateStack', i - 1, z) =>
             StartsFrom(luaStack', z, stateStack'[i].scopecnt)
    BY <2>2, <2>6, <2>7, <2>9, <2>10, <2>11, <2>12, <2>13, PushScopesBelow
  <2>15. QED
    BY <1>3, <2>14 DEF ScopesBelow
<1>6. QED
  BY <1>4, <1>5

LEMMA InitScopesBelow == Init => ScopesBelow
<1> SUFFICES ASSUME Init PROVE ScopesBelow
  OBVIOUS
<1>1. DOMAIN luaStack = {}
  BY DEF Init, Fresh
<1>2. QED
  BY <1>1 DEF ScopesBelow, StartsFrom, ScopeCoversSubtree

LEMMA NextScopesBelow == Inductive /\ ScopesBelow /\ [Next]_vars => ScopesBelow'
<1> SUFFICES ASSUME Inductive, ScopesBelow, [Next]_vars PROVE ScopesBelow'
  OBVIOUS
<1>1. CASE UNCHANGED vars
  BY <1>1 DEF ScopesBelow, StartsFrom, ScopeCoversSubtree, IsBehindLast, Used, EndOf, vars
<1>2. CASE Next
  <2>1. phase = "run"
    BY <1>2 DEF Next, Feed
  <2>2. CASE ShiftToken \/ ShiftKeyword
    BY <2>1, <2>2, ShiftScopesBelow
  <2>3. ASSUME NEW prod \in Productions, Reduce(prod) \/ Accept(prod) \/ ThrowReduced(prod)
        PROVE  ScopesBelow'
    BY <2>1, <2>3, CallScopesBelow
  <2>4. CASE Throw
    BY <2>4 DEF Throw, ScopesBelow, StartsFrom, ScopeCoversSubtree
  <2>5. QED
    BY <1>2, <2>2, <2>3, <2>4 DEF Next, Feed
<1>3. QED
  BY <1>1, <1>2

(* The scope of a node includes the scopes and steps of all nodes below    *)
(* it, whatever the grammar is: luaReduceStruct starts it at the counter   *)
(* its first symbol was pushed with and ends it at the new step.           *)
THEOREM ScopesAlwaysCover == Spec => []ScopeCoversSubtree
<1>1. ScopesBelow => ScopeCoversSubtree
  BY DEF ScopesBelow
<1>2. QED
  BY <1>1, InitScopesBelow, NextScopesBelow, AlwaysInductive, PTL DEF Spec

-----------------------------------------------------------------------------
(* FlattenSeq is one function over the prefixes of the sequence.           *)
IsFlat(f, s, n) == f = [i \in 1 .. n |-> IF i = 1 THEN s[i] ELSE f[i - 1] \o s[i]]

LEMMA ListIsSeq ==
  ASSUME NEW S, NEW k \in Nat, NEW f \in [1 .. k -> S]
  PROVE  f \in Seq(S) /\ Len(f) = k
<1>1. f \in Seq(S)
  BY SeqDef
<1>2. Len(f) \in Nat /\ DOMAIN f = 1 .. Len(f)
  BY <1>1, LenProperties
<1>3. 1 .. Len(f) = 1 .. k
  BY <1>2
<1>4. \A m, n \in Nat : 1 .. m = 1 .. n => m = n
  <2> SUFFICES ASSUME NEW m \in Nat, NEW n \in Nat, 1 .. m = 1 .. n PROVE m = n
    OBVIOUS
  <2>1. m = 0 \/ m \in 1 .. n
    OBVIOUS
  <2>2. n = 0 \/ n \in 1 .. m
    OBVIOUS
  <2>3. QED
    BY <2>1, <2>2
<1>5. QED
  BY <1>1, <1>2, <1>3, <1>4

LEMMA HasFlat ==
  ASSUME NEW n \in Nat, NEW s
  PROVE  \E f : IsFlat(f, s, n)
<1> DEFINE T == {k \in 0 .. n : ~\E f : IsFlat(f, s, k)}
<1>1. SUFFICES ASSUME T # {} PROVE FALSE
  OBVIOUS
<1>2. T \in SUBSET Nat
  OBVIOUS
<1>3. PICK k \in T : \A l \in T : k <= l
  BY <1>1, <1>2, NatMin
<1>4. k \in 0 .. n /\ k \in Nat /\ ~\E f : IsFlat(f, s, k)
  BY <1>3
<1>5. CASE k = 0
  <2> DEFINE f == [i \in 1 .. 0 |-> s[i]]
  <2>1. f = [i \in 1 .. 0 |-> IF i = 1 THEN s[i] ELSE f[i - 1] \o s[i]]
    OBVIOUS
  <2>2. QED
    BY <1>4, <1>5, <2>1 DEF IsFlat
<1>6. CASE k # 0
  <2>1. k - 1 \in 0 .. n /\ ~(k <= k - 1)
    BY <1>4, <1>6
  <2>2. k - 1 \notin T
    BY <1>3, <2>1
  <2>3. PICK g : IsFlat(g, s, k - 1)
    BY <2>1, <2>2
  <2> DEFINE last == IF k = 1 THEN s[k] ELSE g[k - 1] \o s[k]
             f == [i \in 1 .. k |-> IF i = k THEN last ELSE g[i]]
  <2>4. \A i \in 1 .. k - 1 : f[i] = g[i]
    BY <1>4
  <2>5. ASSUME NEW i \in 1 .. k
        PROVE  f[i] = IF i = 1 THEN s[i] ELSE f[i - 1] \o s[i]
    <3>1. i # 1 => i - 1 \in 1 .. k - 1
      BY <1>4
    <3>2. i # 1 => f[i - 1] = g[i - 1]
      BY <3>1, <2>4
    <3>3. CASE i = k
      <4>1. f[i] = last
        BY <3>3
      <4>2. QED
        BY <3>2, <3>3, <4>1
    <3>4. CASE i # k
      <4>1. i \in 1 .. k - 1
        BY <1>4, <3>4
      <4>2. g[i] = IF i = 1 THEN s[i] ELSE g[i - 1] \o s[i]
        BY <2>3, <4>1 DEF IsFlat
      <4>3. f[i] = g[i]
        BY <2>4, <4>1
      <4> HIDE DEF f
      <4>4. QED
        BY <3>2, <4>2, <4>3
    <3>5. QED
      BY <3>3, <3>4
  <2>6. f = [i \in 1 .. k |-> IF i = 1 THEN s[i] ELSE f[i - 1] \o s[i]]
    <3>1. f = [i \in 1 .. k |-> f[i]]
      OBVIOUS
    <3> HIDE DEF f
    <3>2. QED
      BY <2>5, <3>1
  <2>7. QED
    BY <1>4, <2>6 DEF IsFlat
<1>7. QED
  BY <1>5, <1>6

(* What is at an index depends on the elements up to there only.           *)
LEMMA FlatOfPrefix ==
  ASSUME NEW n \in Nat, NEW m \in Nat, n <= m, NEW s, NEW t, NEW f, NEW g,
         \A i \in 1 .. n : s[i] = t[i], IsFlat(f, s, n), IsFlat(g, t, m)
  PROVE  \A i \in 1 .. n : f[i] = g[i]
<1> DEFINE T == {i \in 1 .. n : f[i] # g[i]}
<1>1. SUFFICES ASSUME T # {} PROVE FALSE
  OBVIOUS
<1>2. T \in SUBSET Nat
  OBVIOUS
<1>3. PICK k \in T : \A l \in T : k <= l
  BY <1>1, <1>2, NatMin
<1>4. k \in 1 .. n /\ k \in 1 .. m /\ k \in Nat /\ f[k] # g[k]
  BY <1>3
<1>5. /\ f[k] = IF k = 1 THEN s[k] ELSE f[k - 1] \o s[k]
      /\ g[k] = IF k = 1 THEN t[k] ELSE g[k - 1] \o t[k]
  BY <1>4 DEF IsFlat
<1>6. k # 1 => f[k - 1] = g[k - 1]
  <2> HAVE k # 1
  <2>1. k - 1 \in 1 .. n /\ ~(k <= k - 1)
    BY <1>4
  <2>2. QED
    BY <1>3, <2>1
<1>7. QED
  BY <1>4, <1>5, <1>6

LEMMA FlatIsSeq ==
  ASSUME NEW A, NEW s \in Seq(Seq(A)), NEW f, IsFlat(f, s, Len(s))
  PROVE  \A i \in 1 .. Len(s) : f[i] \in Seq(A)
<1> DEFINE T == {i \in 1 .. Len(s) : f[i] \notin Seq(A)}
<1>1. SUFFICES ASSUME T # {} PROVE FALSE
  OBVIOUS
<1>2. T \in SUBSET Nat
  OBVIOUS
<1>3. PICK k \in T : \A l \in T : k <= l
  BY <1>1, <1>2, NatMin
<1>4. k \in 1 .. Len(s) /\ k \in Nat /\ f[k] \notin Seq(A) /\ s[k] \in Seq(A)
  BY <1>3, ElementOfSeq
<1>5. f[k] = IF k = 1 THEN s[k] ELSE f[k - 1] \o s[k]
  BY <1>4 DEF IsFlat
<1>6. k # 1 => f[k - 1] \in Seq(A)
  <2> HAVE k # 1
  <2>1. k - 1 \in 1 .. Len(s) /\ ~(k <= k - 1)
    BY <1>4
  <2>2. QED
    BY <1>3, <2>1
<1>7. CASE k = 1
  BY <1>4, <1>5, <1>7
<1>8. CASE k # 1
  <2>1. f[k - 1] \o s[k] \in Seq(A)
    BY <1>4, <1>6, <1>8, ConcatProperties
  <2>2. QED
    BY <1>4, <1>5, <1>8, <2>1
<1>9. QED
  BY <1>7, <1>8

LEMMA FlattenIsFlat ==
  ASSUME NEW s, Len(s) \in Nat, Len(s) # 0
  PROVE  \E f : IsFlat(f, s, Len(s)) /\ FlattenSeq(s) = f[Len(s)]
<1> DEFINE n == Len(s)
           f == CHOOSE f : IsFlat(f, s, n)
<1>1. IsFlat(f, s, n)
  <2>1. \E g : IsFlat(g, s, n)
    BY HasFlat
  <2>2. QED
    BY <2>1
<1>2. FlattenSeq(s) = f[n]
  BY DEF FlattenSeq, IsFlat
<1>3. QED
  BY <1>1, <1>2

LEMMA FlattenType ==
  ASSUME NEW A, NEW s \in Seq(Seq(A))
  PROVE  FlattenSeq(s) \in Seq(A) /\ (Len(s) = 0 => FlattenSeq(s) = <<>>)
<1>1. Len(s) \in Nat
  OBVIOUS
<1>2. CASE Len(s) = 0
  <2>1. s = <<>>
    BY <1>2, EmptySeq
  <2>2. FlattenSeq(s) = s
    BY <1>2 DEF FlattenSeq
  <2>3. <<>> \in Seq(A)
    OBVIOUS
  <2>4. QED
    BY <2>1, <2>2, <2>3
<1>3. CASE Len(s) # 0
  <2>1. PICK f : IsFlat(f, s, Len(s)) /\ FlattenSeq(s) = f[Len(s)]
    BY <1>1, <1>3, FlattenIsFlat
  <2>2. \A i \in 1 .. Len(s) : f[i] \in Seq(A)
    BY <2>1, FlatIsSeq
  <2>3. Len(s) \in 1 .. Len(s)
    BY <1>1, <1>3
  <2>4. QED
    BY <1>3, <2>1, <2>2, <2>3
<1>4. QED
  BY <1>2, <1>3

LEMMA FlattenAppend ==
  ASSUME NEW A, NEW s \in Seq(Seq(A)), NEW e \in Seq(A)
  PROVE  FlattenSeq(Append(s, e)) = FlattenSeq(s) \o e
<1> DEFINE t == Append(s, e)
           n == Len(s)
<1>1. /\ n \in Nat /\ t \in Seq(Seq(A)) /\ Len(t) = n + 1
      /\ \A i \in 1 .. n : s[i] = t[i]
      /\ t[n + 1] = e
  BY AppendProperties
<1> HIDE DEF t
<1>2. PICK g : IsFlat(g, t, n + 1) /\ FlattenSeq(t) = g[n + 1]
  <2>1. Len(t) \in Nat /\ Len(t) # 0
    BY <1>1
  <2>2. QED
    BY <1>1, <2>1, FlattenIsFlat
<1>3. n + 1 \in 1 .. n + 1 /\ n + 1 - 1 = n
  BY <1>1
<1> HIDE DEF n
<1>4. g[n + 1] = IF n + 1 = 1 THEN e ELSE g[n] \o e
  <2>1. PICK m \in 1 .. n + 1 : m = n + 1
    BY <1>3
  <2>2. g[m] = IF m = 1 THEN t[m] ELSE g[m - 1] \o t[m]
    BY <1>2, <2>1 DEF IsFlat
  <2>3. QED
    BY <1>1, <1>3, <2>1, <2>2
<1>5. CASE n = 0
  <2>1. FlattenSeq(s) = <<>>
    BY <1>5, FlattenType DEF n
  <2>2. <<>> \o e = e
    BY ConcatEmptySeq
  <2>3. g[n + 1] = e
    BY <1>4, <1>5
  <2>4. QED
    BY <1>2, <2>1, <2>2, <2>3 DEF t
<1>6. CASE n # 0
  <2>1. PICK f : IsFlat(f, s, n) /\ FlattenSeq(s) = f[n]
    BY <1>1, <1>6, FlattenIsFlat DEF n
  <2>2. n <= n + 1 /\ n \in 1 .. n /\ n + 1 \in Nat /\ n + 1 # 1
    BY <1>1, <1>6
  <2>3. \A i \in 1 .. n : f[i] = g[i]
    <3>1. PICK m \in Nat : m = n + 1 /\ n <= m /\ IsFlat(g, t, m)
      BY <1>2, <2>2
    <3>2. \A i \in 1 .. n : s[i] = t[i]
      BY <1>1
    <3>3. QED
      <4>1. n \in Nat /\ IsFlat(f, s, n) /\ n <= m /\ IsFlat(g, t, m)
        BY <1>1, <2>1, <3>1
      <4>2. QED
        BY <3>2, <4>1, FlatOfPrefix
  <2>4. g[n + 1] = f[n] \o e
    BY <1>4, <2>2, <2>3
  <2>5. QED
    BY <1>2, <2>1, <2>4 DEF t
<1>7. QED
  BY <1>5, <1>6

LEMMA AppendBehind ==
  ASSUME NEW S, NEW s \in Seq(S), NEW r \in Seq(S), NEW e \in S
  PROVE  s \o Append(r, e) = Append(s \o r, e)
<1>1. s \o r \in Seq(S) /\ <<e>> \in Seq(S)
  BY ConcatProperties
<1>2. Append(r, e) = r \o <<e>> /\ Append(s \o r, e) = (s \o r) \o <<e>>
  BY <1>1, AppendIsConcat
<1>3. (s \o r) \o <<e>> = s \o (r \o <<e>>)
  BY <1>1, ConcatAssociative
<1>4. QED
  BY <1>2, <1>3, Zenon

(* The elements of two sequences one after the other.                      *)
LEMMA FlattenConcat ==
  ASSUME NEW A, NEW s \in Seq(Seq(A)), NEW t \in Seq(Seq(A))
  PROVE  FlattenSeq(s \o t) = FlattenSeq(s) \o FlattenSeq(t)
<1> DEFINE Up(k)  == SubSeq(t, 1, k)
           bad    == {k \in 0 .. Len(t) : FlattenSeq(s \o Up(k)) # FlattenSeq(s) \o FlattenSeq(Up(k))}
<1>1. Len(t) \in Nat /\ Up(Len(t)) = t
  BY SubSeqFull
<1>2. ASSUME bad # {} PROVE FALSE
  <2>1. bad \in SUBSET Nat
    OBVIOUS
  <2>2. PICK k \in bad : \A l \in bad : k <= l
    BY <1>2, <2>1, NatMin
  <2>3. k \in 0 .. Len(t) /\ k \in Nat /\ FlattenSeq(s \o Up(k)) # FlattenSeq(s) \o FlattenSeq(Up(k))
    BY <2>2
  <2>4. FlattenSeq(s) \in Seq(A)
    BY FlattenType
  <2>5. CASE k = 0
    <3>1. Up(0) = <<>>
      BY SubSeqEmpty
    <3>2. <<>> \in Seq(Seq(A)) /\ Len(<<>>) = 0
      OBVIOUS
    <3>3. FlattenSeq(<<>>) = <<>>
      BY <3>2, FlattenType
    <3>4. s \o <<>> = s /\ FlattenSeq(s) \o <<>> = FlattenSeq(s)
      BY <2>4, ConcatEmptySeq
    <3>5. QED
      BY <2>3, <2>5, <3>1, <3>3, <3>4
  <2>6. CASE k # 0
    <3> DEFINE e == t[k]
               r == Up(k - 1)
    <3>1. k \in 1 .. Len(t) /\ k - 1 \in 0 .. Len(t) /\ ~(k <= k - 1) /\ k - 1 \in Nat
      BY <1>1, <2>3, <2>6
    <3>2. e \in Seq(A)
      BY <3>1, ElementOfSeq
    <3>3. r \in Seq(Seq(A)) /\ Len(r) = k - 1 /\ \A i \in 1 .. k - 1 : r[i] = t[i]
      <4>1. 1 \in Int /\ k - 1 \in Int /\ \A i \in 1 .. k - 1 : t[i] \in Seq(A)
        BY <3>1, <1>1, ElementOfSeq
      <4>2. /\ r \in Seq(Seq(A)) /\ Len(r) = IF 1 <= k - 1 THEN k - 1 - 1 + 1 ELSE 0
            /\ \A i \in 1 .. k - 1 - 1 + 1 : r[i] = t[1 + i - 1]
        BY <4>1, SubSeqProperties
      <4> HIDE DEF r
      <4>3. k - 1 - 1 + 1 = k - 1 /\ \A i \in 1 .. k - 1 : 1 + i - 1 = i
        BY <3>1
      <4>4. QED
        BY <4>2, <4>3, <3>1
    <3>4. Up(k) \in Seq(Seq(A)) /\ Len(Up(k)) = k /\ \A i \in 1 .. k : Up(k)[i] = t[i]
      <4>1. 1 \in Int /\ k \in Int /\ \A i \in 1 .. k : t[i] \in Seq(A)
        BY <3>1, <1>1, ElementOfSeq
      <4>2. /\ Up(k) \in Seq(Seq(A)) /\ Len(Up(k)) = IF 1 <= k THEN k - 1 + 1 ELSE 0
            /\ \A i \in 1 .. k - 1 + 1 : Up(k)[i] = t[1 + i - 1]
        BY <4>1, SubSeqProperties
      <4> HIDE DEF Up
      <4>3. k - 1 + 1 = k /\ \A i \in 1 .. k : 1 + i - 1 = i
        BY <3>1
      <4>4. QED
        BY <4>2, <4>3, <3>1
    <3>5. FlattenSeq(s \o r) = FlattenSeq(s) \o FlattenSeq(r)
      BY <2>2, <3>1
    <3> HIDE DEF e, r, Up
    <3>6. Up(k) = Append(r, e)
      <4>1. /\ Append(r, e) \in Seq(Seq(A)) /\ Len(Append(r, e)) = k - 1 + 1
            /\ \A i \in 1 .. k - 1 : Append(r, e)[i] = r[i]
            /\ Append(r, e)[k - 1 + 1] = e
        BY <3>2, <3>3, AppendProperties
      <4>2. k - 1 + 1 = k /\ \A i \in 1 .. k : i \in 1 .. k - 1 \/ i = k
        BY <3>1
      <4>3. \A i \in 1 .. k : Up(k)[i] = Append(r, e)[i]
        BY <3>3, <3>4, <4>1, <4>2 DEF e
      <4>4. Len(Append(r, e)) = k
        BY <4>1, <4>2
      <4>5. QED
        BY <3>4, <4>1, <4>3, <4>4, SeqEqual
    <3>7. s \o Append(r, e) = Append(s \o r, e)
      <4>1. PICK B : B = Seq(A)
        OBVIOUS
      <4>2. s \in Seq(B) /\ r \in Seq(B) /\ e \in B
        BY <3>2, <3>3, <4>1
      <4>3. QED
        BY <4>2, AppendBehind
    <3>8. s \o r \in Seq(Seq(A))
      BY <3>3, ConcatProperties
    <3>9. /\ FlattenSeq(Append(s \o r, e)) = FlattenSeq(s \o r) \o e
          /\ FlattenSeq(Append(r, e)) = FlattenSeq(r) \o e
      BY <3>2, <3>3, <3>8, FlattenAppend
    <3>10. FlattenSeq(r) \in Seq(A)
      BY <3>3, FlattenType
    <3>11. (FlattenSeq(s) \o FlattenSeq(r)) \o e = FlattenSeq(s) \o (FlattenSeq(r) \o e)
      BY <2>4, <3>2, <3>10, ConcatAssociative, SMTT(30)
    <3>12. QED
      BY <2>3, <3>5, <3>6, <3>7, <3>9, <3>11, Zenon
  <2>7. QED
    BY <2>5, <2>6
<1>3. Len(t) \in 0 .. Len(t)
  BY <1>1
<1>4. FlattenSeq(s \o Up(Len(t))) = FlattenSeq(s) \o FlattenSeq(Up(Len(t)))
  <2> HIDE DEF Up
  <2>1. \A k \in 0 .. Len(t) : k \notin bad
    <3> HIDE DEF bad
    <3>1. QED
      BY <1>2
  <2>2. QED
    BY <1>3, <2>1
<1>5. QED
  BY <1>1, <1>4

-----------------------------------------------------------------------------
(* The tokens below the elements of the Lua stack.                         *)
Toks == [i \in DOMAIN luaStack |-> luaStack[i].tokens]

TokensKept == Toks \in Seq(Seq(Nat)) /\ TokensInOrder

LEMMA InitTokensKept == Init => TokensKept
<1> SUFFICES ASSUME Init PROVE TokensKept
  OBVIOUS
<1>1. luaStack = <<>> /\ tokens = 0
  BY DEF Init, Fresh
<1>2. 0 \in Nat /\ Toks \in [1 .. 0 -> Seq(Nat)]
  BY <1>1 DEF Toks
<1>3. Toks \in Seq(Seq(Nat)) /\ Len(Toks) = 0
  <2> HIDE DEF Toks
  <2>1. QED
    BY <1>2, ListIsSeq
<1>4. FlattenSeq(Toks) = <<>>
  BY <1>3, FlattenType
<1>5. [i \in 1 .. tokens |-> i] = <<>>
  BY <1>1
<1>6. TokensInOrder
  BY <1>4, <1>5 DEF TokensInOrder, Toks
<1>7. QED
  BY <1>3, <1>6 DEF TokensKept

LEMMA LuaLength ==
  ASSUME Inductive
  PROVE  Len(luaStack) \in Nat /\ DOMAIN luaStack = 1 .. Len(luaStack)
<1>1. PICK S : luaStack \in Seq(S)
  BY DEF Inductive, Types
<1>2. QED
  BY <1>1, LenProperties

LEMMA ShiftTokensKept ==
  ASSUME Inductive, TokensKept, ShiftToken
  PROVE  TokensKept'
<1> DEFINE l     == Len(luaStack)
           leaf  == Leaf(tokens + 1)
           next  == tokens + 1
           added == <<next>>
<1>1. tokens \in Nat /\ next \in Nat /\ l \in Nat /\ DOMAIN luaStack = 1 .. l
  BY LuaLength DEF Inductive, Types
<1>2. PICK S : luaStack \in Seq(S)
  BY DEF Inductive, Types
<1>3. leaf.tokens = added
  BY DEF Leaf
<1>4. luaStack' = Append(luaStack, leaf) /\ tokens' = next
  BY DEF ShiftToken
<1> HIDE DEF leaf
<1>5. /\ DOMAIN luaStack' = 1 .. l + 1
      /\ \A i \in 1 .. l : luaStack'[i] = luaStack[i]
      /\ luaStack'[l + 1] = leaf
  <2>1. PICK T : luaStack \in Seq(T) /\ leaf \in T
    <3>1. luaStack \in Seq(S \cup {leaf}) /\ leaf \in S \cup {leaf}
      BY <1>2
    <3>2. QED
      BY <3>1
  <2>2. QED
    BY <1>1, <1>4, <2>1, AppendProperties
<1>6. added \in Seq(Nat) /\ Len(added) = 1 /\ added[1] = next
  BY <1>1
<1>7. Toks \in Seq(Seq(Nat)) /\ DOMAIN Toks = 1 .. l /\ Len(Toks) = l
  <2>1. Toks \in Seq(Seq(Nat)) /\ DOMAIN Toks = 1 .. l
    BY <1>1 DEF TokensKept, Toks
  <2>2. Toks \in [1 .. l -> Seq(Nat)]
    <3>1. Toks \in [1 .. Len(Toks) -> Seq(Nat)] /\ DOMAIN Toks = 1 .. Len(Toks)
      BY <2>1, LenProperties
    <3>2. QED
      BY <2>1, <3>1
  <2> HIDE DEF l
  <2>3. Len(Toks) = l
    BY <1>1, <2>2, ListIsSeq
  <2>4. QED
    BY <2>1, <2>3
<1> HIDE DEF l, added, next
<1>8. \A i \in 1 .. l : Toks[i] = luaStack[i].tokens
  BY <1>1 DEF Toks
<1>9. Toks' = Append(Toks, added)
  <2>1. /\ Append(Toks, added) \in Seq(Seq(Nat)) /\ Len(Append(Toks, added)) = l + 1
        /\ \A i \in 1 .. l : Append(Toks, added)[i] = Toks[i]
        /\ Append(Toks, added)[l + 1] = added
    BY <1>6, <1>7, AppendProperties
  <2>2. DOMAIN Append(Toks, added) = 1 .. l + 1
    BY <2>1, LenProperties
  <2>3. \A i \in 1 .. l + 1 : i \in 1 .. l \/ i = l + 1
    BY <1>1
  <2>4. \A i \in 1 .. l + 1 : Append(Toks, added)[i] = luaStack'[i].tokens
    BY <1>3, <1>5, <1>8, <2>1, <2>3
  <2>5. Toks' = [i \in 1 .. l + 1 |-> luaStack'[i].tokens]
    BY <1>5 DEF Toks
  <2>6. Append(Toks, added) = [i \in 1 .. l + 1 |-> Append(Toks, added)[i]]
    BY <2>1, <2>2, LenProperties
  <2>7. QED
    BY <2>4, <2>5, <2>6
<1>10. Toks' \in Seq(Seq(Nat))
  BY <1>6, <1>7, <1>9, AppendProperties
<1>11. FlattenSeq(Toks') = FlattenSeq(Toks) \o added
  BY <1>6, <1>7, <1>9, FlattenAppend
<1>12. FlattenSeq(Toks) = [i \in 1 .. tokens |-> i]
  BY DEF TokensKept, TokensInOrder, Toks
<1>13. [i \in 1 .. tokens |-> i] \o added = [i \in 1 .. next |-> i]
  <2> DEFINE s == [i \in 1 .. tokens |-> i]
             u == [i \in 1 .. next |-> i]
  <2>1. s \in [1 .. tokens -> Nat] /\ u \in [1 .. next -> Nat]
    BY <1>1
  <2>2. \A i \in 1 .. tokens : s[i] = i
    OBVIOUS
  <2>3. \A i \in 1 .. next : u[i] = i
    OBVIOUS
  <2> HIDE DEF s, u
  <2>4. s \in Seq(Nat) /\ Len(s) = tokens /\ u \in Seq(Nat) /\ Len(u) = next
    BY <1>1, <2>1, ListIsSeq
  <2>5. /\ s \o added \in Seq(Nat) /\ Len(s \o added) = tokens + 1
        /\ \A i \in 1 .. tokens + 1 :
             (s \o added)[i] = IF i <= tokens THEN s[i] ELSE added[i - tokens]
    <3>1. /\ s \o added \in Seq(Nat) /\ Len(s \o added) = Len(s) + Len(added)
          /\ \A i \in 1 .. Len(s) + Len(added) :
               (s \o added)[i] = IF i <= Len(s) THEN s[i] ELSE added[i - Len(s)]
      BY <1>6, <2>4, ConcatProperties
    <3>2. Len(s) = tokens /\ Len(added) = 1
      BY <1>6, <2>4
    <3>3. QED
      BY <3>1, <3>2, Zenon
  <2>6. next = tokens + 1
    BY DEF next
  <2>7. \A i \in 1 .. next : (s \o added)[i] = u[i]
    <3> TAKE i \in 1 .. next
    <3>1. CASE i <= tokens
      <4>1. i \in 1 .. tokens /\ i \in 1 .. tokens + 1
        BY <1>1, <2>6, <3>1
      <4>2. QED
        BY <2>2, <2>3, <2>5, <3>1, <4>1
    <3>2. CASE ~(i <= tokens)
      <4>1. i = next /\ i - tokens = 1 /\ i \in 1 .. tokens + 1
        BY <1>1, <2>6, <3>2
      <4>2. (s \o added)[i] = added[i - tokens]
        BY <2>5, <3>2, <4>1
      <4>3. QED
        BY <1>6, <2>3, <4>1, <4>2
    <3>3. QED
      BY <3>1, <3>2
  <2>8. s \o added = u
    BY <2>4, <2>5, <2>6, <2>7, SeqEqual
  <2>9. QED
    BY <2>8 DEF s, u
<1>14. FlattenSeq(Toks') = [i \in 1 .. tokens' |-> i]
  BY <1>4, <1>11, <1>12, <1>13
<1>15. TokensInOrder'
  BY <1>14 DEF TokensInOrder, Toks
<1>16. QED
  BY <1>10, <1>15 DEF TokensKept

(* A node has the tokens of its arguments, in their order.                 *)
LEMMA CallTokensKept ==
  ASSUME Inductive, TokensKept, phase = "run", NEW prod \in Productions, CallOf(prod)
  PROVE  TokensKept'
<1> DEFINE l == Len(luaStack)
<1>1. PICK k : k = Len(luaStack) - ReductionSize(prod.count)
  OBVIOUS
<1>2. /\ k \in Nat /\ l \in Nat /\ k <= l /\ DOMAIN luaStack = 1 .. l
      /\ tokens' = tokens
  BY <1>1, CallLua DEF CallOf
<1>3. CASE ~prod.call
  <2>1. luaStack' = luaStack
    BY <1>3 DEF CallOf
  <2>2. QED
    BY <1>2, <2>1 DEF TokensKept, Toks, TokensInOrder
<1>4. CASE prod.call
  <2>1. PICK args : Taken(prod, k, args)
    BY <1>1, <1>4, CallLua
  <2> DEFINE left  == [i \in 1 .. k |-> luaStack[i].tokens]
             right == [i \in DOMAIN args |-> args[i].tokens]
             m     == l - k
             flat  == FlattenSeq(right)
  <2>2. /\ m \in Nat /\ m + k = l /\ DOMAIN luaStack' = 1 .. k + 1
        /\ \A e \in 1 .. k : luaStack'[e] = luaStack[e] /\ e \in 1 .. l
        /\ DOMAIN args = 1 .. m
        /\ \A i \in 1 .. m : args[i] = luaStack[k + i] /\ k + i \in 1 .. l
    <3>1. /\ DOMAIN luaStack' = 1 .. k + 1
          /\ \A e \in 1 .. k : luaStack'[e] = luaStack[e]
          /\ DOMAIN args = 1 .. m
          /\ \A i \in DOMAIN args : args[i] = luaStack[k + i]
      BY <2>1 DEF Taken
    <3> HIDE DEF l
    <3>2. m \in Nat /\ m + k = l
      BY <1>2
    <3>3. (\A e \in 1 .. k : e \in 1 .. l) /\ (\A i \in 1 .. m : k + i \in 1 .. l)
      BY <1>2
    <3> HIDE DEF m
    <3>4. QED
      BY <3>1, <3>2, <3>3
  <2>3. luaStack'[k + 1].tokens = flat
    <3>1. luaStack'[k + 1] = Node(prod, args)
      BY <2>1 DEF Taken
    <3>2. Node(prod, args).tokens = FlattenSeq([i \in DOMAIN args |-> args[i].tokens])
      BY DEF Node
    <3>3. QED
      BY <3>1, <3>2
  <2>4. Toks \in Seq(Seq(Nat)) /\ DOMAIN Toks = 1 .. l /\ Len(Toks) = l
    <3>1. Toks \in Seq(Seq(Nat)) /\ DOMAIN Toks = 1 .. l
      BY <1>2 DEF TokensKept, Toks
    <3>2. Toks \in [1 .. l -> Seq(Nat)]
      <4>1. Toks \in [1 .. Len(Toks) -> Seq(Nat)] /\ DOMAIN Toks = 1 .. Len(Toks)
        BY <3>1, LenProperties
      <4>2. QED
        BY <3>1, <4>1
    <3> HIDE DEF l
    <3>3. Len(Toks) = l
      BY <1>2, <3>2, ListIsSeq
    <3>4. QED
      BY <3>1, <3>3
  <2>5. \A i \in 1 .. l : Toks[i] = luaStack[i].tokens /\ luaStack[i].tokens \in Seq(Nat)
    <3>1. \A i \in 1 .. l : Toks[i] = luaStack[i].tokens
      BY <1>2 DEF Toks
    <3> HIDE DEF l
    <3>2. \A i \in 1 .. l : Toks[i] \in Seq(Nat)
      BY <2>4, ElementOfSeq
    <3>3. QED
      BY <3>1, <3>2
  <2> HIDE DEF l, m
  <2>6. left \in Seq(Seq(Nat)) /\ Len(left) = k
    <3>1. left \in [1 .. k -> Seq(Nat)]
      BY <2>2, <2>5
    <3> HIDE DEF left
    <3>2. QED
      BY <1>2, <3>1, ListIsSeq
  <2>7. right \in Seq(Seq(Nat)) /\ Len(right) = m
    <3>1. right \in [1 .. m -> Seq(Nat)]
      BY <2>2, <2>5
    <3> HIDE DEF right
    <3>2. QED
      BY <2>2, <3>1, ListIsSeq
  <2>8. \A i \in 1 .. k : left[i] = luaStack[i].tokens
    OBVIOUS
  <2>9. \A i \in 1 .. m : right[i] = luaStack[k + i].tokens
    BY <2>2
  <2> HIDE DEF left, right, flat
  <2>10. Toks = left \o right
    <3>1. /\ left \o right \in Seq(Seq(Nat)) /\ Len(left \o right) = k + m
          /\ \A i \in 1 .. k + m : (left \o right)[i] = IF i <= k THEN left[i] ELSE right[i - k]
      BY <2>6, <2>7, ConcatProperties
    <3>2. k + m = l
      BY <1>2, <2>2
    <3>3. ASSUME NEW i \in 1 .. l PROVE Toks[i] = (left \o right)[i]
      <4>1. (left \o right)[i] = IF i <= k THEN left[i] ELSE right[i - k]
        BY <3>1, <3>2
      <4>2. CASE i <= k
        <5>1. i \in 1 .. k
          BY <1>2, <4>2
        <5>2. QED
          BY <2>5, <2>8, <4>1, <4>2, <5>1
      <4>3. CASE ~(i <= k)
        <5>1. i - k \in 1 .. m /\ k + (i - k) = i
          BY <1>2, <2>2, <4>3
        <5>2. right[i - k] = luaStack[i].tokens
          BY <2>9, <5>1
        <5>3. QED
          BY <2>5, <4>1, <4>3, <5>2
      <4>4. QED
        BY <4>2, <4>3
    <3>4. QED
      BY <2>4, <3>1, <3>2, <3>3, SeqEqual
  <2>11. flat \in Seq(Nat)
    BY <2>7, FlattenType DEF flat
  <2>12. Toks' = Append(left, flat)
    <3>1. /\ Append(left, flat) \in Seq(Seq(Nat)) /\ Len(Append(left, flat)) = k + 1
          /\ \A i \in 1 .. k : Append(left, flat)[i] = left[i]
          /\ Append(left, flat)[k + 1] = flat
      BY <2>6, <2>11, AppendProperties
    <3>2. DOMAIN Append(left, flat) = 1 .. k + 1
      BY <3>1, LenProperties
    <3>3. \A i \in 1 .. k + 1 : i \in 1 .. k \/ i = k + 1
      BY <1>2
    <3>4. \A i \in 1 .. k + 1 : Append(left, flat)[i] = luaStack'[i].tokens
      BY <2>2, <2>3, <2>8, <3>1, <3>3
    <3>5. Toks' = [i \in 1 .. k + 1 |-> luaStack'[i].tokens]
      BY <2>2 DEF Toks
    <3>6. Append(left, flat) = [i \in 1 .. k + 1 |-> Append(left, flat)[i]]
      BY <3>1, <3>2, LenProperties
    <3>7. QED
      BY <3>4, <3>5, <3>6
  <2>13. Toks' \in Seq(Seq(Nat))
    BY <2>6, <2>11, <2>12, AppendProperties
  <2>14. FlattenSeq(Toks') = FlattenSeq(left) \o flat
    BY <2>6, <2>11, <2>12, FlattenAppend
  <2>15. FlattenSeq(Toks) = FlattenSeq(left) \o flat
    BY <2>6, <2>7, <2>10, FlattenConcat DEF flat
  <2>16. FlattenSeq(Toks) = [i \in 1 .. tokens |-> i]
    BY DEF TokensKept, TokensInOrder, Toks
  <2>17. FlattenSeq(Toks') = [i \in 1 .. tokens' |-> i]
    BY <1>2, <2>14, <2>15, <2>16
  <2>18. TokensInOrder'
    BY <2>17 DEF TokensInOrder, Toks
  <2>19. QED
    BY <2>13, <2>18 DEF TokensKept
<1>5. QED
  BY <1>3, <1>4

LEMMA NextTokensKept == Inductive /\ TokensKept /\ [Next]_vars => TokensKept'
<1> SUFFICES ASSUME Inductive, TokensKept, [Next]_vars PROVE TokensKept'
  OBVIOUS
<1>1. CASE luaStack' = luaStack /\ tokens' = tokens
  BY <1>1 DEF TokensKept, Toks, TokensInOrder
<1>2. CASE Next
  <2>1. phase = "run"
    BY <1>2 DEF Next, Feed
  <2>2. ASSUME NEW prod \in Productions, Reduce(prod) \/ Accept(prod) \/ ThrowReduced(prod)
        PROVE  TokensKept'
    <3>1. CallOf(prod)
      BY <2>2 DEF Reduce, Accept, ThrowReduced
    <3>2. QED
      BY <2>1, <3>1, CallTokensKept
  <2>3. CASE ShiftKeyword \/ Throw
    BY <1>1, <2>3 DEF ShiftKeyword, Throw
  <2>4. QED
    BY <1>2, <2>2, <2>3, ShiftTokensKept DEF Next, Feed
<1>3. QED
  BY <1>1, <1>2 DEF vars

(* No token with a value is lost or taken twice, and those below the nodes *)
(* stay in the order of the source, whatever is reduced when.              *)
THEOREM TokensAlwaysInOrder == Spec => []TokensInOrder
<1>1. TokensKept => TokensInOrder
  BY DEF TokensKept
<1>2. QED
  BY <1>1, InitTokensKept, NextTokensKept, AlwaysInductive, PTL DEF Spec

-----------------------------------------------------------------------------
(* The nodes as trees.  What a node tells of those below it is shared by   *)
(* all nodes of a set that holds the arguments of each: a statement about  *)
(* them all is one about the set, without recursion.  op is the function   *)
(* from a node to the scopes of the nodes at and below it that have one.   *)
Opened(op, node) ==
  (UNION {op[node.args[i]] : i \in DOMAIN node.args}) \cup (IF node.isScope THEN {node.scope} ELSE {})

Before(S, T) == \A s \in S, t \in T : s.end <= t.start

(* The arguments of a node follow each other: what opens below one ends    *)
(* before the next one starts, and before the node itself is at its step.  *)
Orderly(op, node) ==
  /\ Len(node.args) \in Nat /\ DOMAIN node.args = 1 .. Len(node.args)
  /\ \A s \in Extent(node) : s \in Scope /\ s.start < s.end /\ s.start <= MaxFeeds
  /\ op[node] = Opened(op, node)
  /\ \A s \in op[node] : s \in Extent(node) /\ s.end <= MaxFeeds
  /\ \A i \in DOMAIN node.args : Extent(node.args[i]) \subseteq node.below
  /\ \A i, j \in DOMAIN node.args : i < j => Before(op[node.args[i]], Extent(node.args[j]))
  /\ \A i \in DOMAIN node.args : \A s \in op[node.args[i]] :
       IF node.isScope THEN s.end < node.scope.end ELSE s.end <= node.scope.start
  /\ node.isScope =>
       \A s \in node.below : node.scope.start <= s.start /\ s.end <= node.scope.end

Forest(W, op) == \A node \in W : /\ Orderly(op, node)
                                 /\ \A i \in DOMAIN node.args : node.args[i] \in W

(* The elements of the Lua stack are nodes of the forest and follow each   *)
(* other.                                                                  *)
Standing(lua, W, op) ==
  /\ \A e \in DOMAIN lua : lua[e] \in W
  /\ \A e, f \in DOMAIN lua : e < f => Before(op[lua[e]], Extent(lua[f]))

InScopes(lua, S, op) == \A e \in DOMAIN lua : op[lua[e]] \subseteq S

EndsBy(op, lua, x, c) ==
  \A e \in DOMAIN lua : e < x => \A s \in op[lua[e]] : s.end <= c

(* What opened below the part of a state ends before its counter.          *)
EndsBelow(stack, lua, op) ==
  \A i \in DOMAIN stack, x \in Nat :
    IsBehindLast(stack, i - 1, x) => EndsBy(op, lua, x, stack[i].scopecnt)

ForestOf(W, op) ==
  /\ Forest(W, op) /\ Standing(luaStack, W, op) /\ InScopes(luaStack, scopes, op)
  /\ phase = "run" => EndsBelow(stateStack, luaStack, op)

ForestKept == scopestep <= feeds /\ \E W, op : ForestOf(W, op)

(* The function for one node more.                                         *)
Grown(W, op, node, op2) ==
  op2 = [n \in W \cup {node} |-> IF n \in W THEN op[n] ELSE Opened(op, node)]

LEMMA GrownOpens ==
  ASSUME NEW W, NEW op, Forest(W, op), NEW node, NEW op2,
         Grown(W, op, node, op2),
         \A i \in DOMAIN node.args : node.args[i] \in W
  PROVE  /\ \A n \in W : op2[n] = op[n]
         /\ op2[node] = Opened(op, node) /\ Opened(op2, node) = Opened(op, node)
<1>1. \A n \in W : op2[n] = op[n]
  BY DEF Grown
<1>2. op2[node] = Opened(op, node)
  <2>1. CASE node \in W
    BY <2>1, <1>1 DEF Forest, Orderly
  <2>2. CASE node \notin W
    BY <2>2 DEF Grown
  <2>3. QED
    BY <2>1, <2>2
<1>3. Opened(op2, node) = Opened(op, node)
  <2>1. \A i \in DOMAIN node.args : op2[node.args[i]] = op[node.args[i]]
    BY <1>1
  <2>2. {op2[node.args[i]] : i \in DOMAIN node.args} = {op[node.args[i]] : i \in DOMAIN node.args}
    BY <2>1
  <2>3. QED
    BY <2>2 DEF Opened
<1>4. QED
  BY <1>1, <1>2, <1>3

(* A node on top of trees of the forest.                                   *)
LEMMA GrowForest ==
  ASSUME NEW W, NEW op, Forest(W, op), NEW node, NEW op2,
         Grown(W, op, node, op2),
         \A i \in DOMAIN node.args : node.args[i] \in W,
         Orderly(op2, node)
  PROVE  Forest(W \cup {node}, op2)
<1>1. \A n \in W : op2[n] = op[n]
  BY GrownOpens
<1>2. ASSUME NEW n \in W
      PROVE  Orderly(op2, n) /\ \A i \in DOMAIN n.args : n.args[i] \in W
  <2>1. Orderly(op, n) /\ \A i \in DOMAIN n.args : n.args[i] \in W
    BY DEF Forest
  <2>2. op2[n] = op[n] /\ \A i \in DOMAIN n.args : op2[n.args[i]] = op[n.args[i]]
    BY <1>1, <2>1
  <2>3. {op2[n.args[i]] : i \in DOMAIN n.args} = {op[n.args[i]] : i \in DOMAIN n.args}
    BY <2>2
  <2>4. Opened(op2, n) = Opened(op, n)
    BY <2>3 DEF Opened
  <2>5. QED
    BY <2>1, <2>2, <2>4 DEF Orderly, Before
<1>3. QED
  BY <1>2 DEF Forest

(* The parts of the states are in a row, so what is behind more states is  *)
(* higher.                                                                 *)
LEMMA BehindMonotone ==
  ASSUME NEW s \in Seq(State), Linked(s), NEW i \in Nat, NEW j \in Nat, i <= j, j <= Len(s),
         NEW x \in Nat, IsBehindLast(s, i, x), NEW y \in Nat, IsBehindLast(s, j, y)
  PROVE  x <= y
<1>1. \A h \in 1 .. j : h \in DOMAIN s /\ s[h].luastki \in Nat /\ s[h].luastkn \in Nat
  <2>1. \A h \in 1 .. j : h \in DOMAIN s /\ s[h] \in State
    OBVIOUS
  <2>2. QED
    BY <2>1 DEF State
<1>2. \A h \in 1 .. i : h \in 1 .. j
  OBVIOUS
<1>3. CASE \A h \in 1 .. j : ~Used(s, h)
  BY <1>2, <1>3 DEF IsBehindLast
<1>4. CASE \E h \in 1 .. j : Used(s, h)
  <2>1. PICK h2 \in 1 .. j : /\ Used(s, h2) /\ y = EndOf(s, h2)
                            /\ \A h \in h2 + 1 .. j : ~Used(s, h)
    BY <1>4 DEF IsBehindLast
  <2>2. s[h2].luastki <= y /\ y >= 1
    BY <1>1, <2>1 DEF Used, EndOf
  <2>3. CASE x = 1
    BY <2>2, <2>3
  <2>4. ASSUME NEW h \in 1 .. i, Used(s, h), x = EndOf(s, h)
        PROVE  x <= y
    <3>1. h <= h2
      BY <2>1, <2>4, <1>2
    <3>2. CASE h = h2
      BY <2>1, <2>4, <3>2
    <3>3. CASE h < h2
      <4>1. EndOf(s, h) <= s[h2].luastki
        BY <1>1, <1>2, <2>1, <2>4, <3>3 DEF Linked
      <4>2. s[h2].luastki \in Nat
        BY <1>1
      <4>3. QED
        BY <4>1, <4>2, <2>2, <2>4
    <3>4. QED
      BY <3>1, <3>2, <3>3
  <2>5. QED
    BY <2>3, <2>4 DEF IsBehindLast
<1>5. QED
  BY <1>3, <1>4

(* What opened below the arguments' left neighbours ends before the        *)
(* counter the scope of the call starts at.                                *)
LEMMA LeftOfArgumentsEnds ==
  ASSUME Inductive, phase = "run", NEW prod \in Productions, CallOf(prod),
         NEW op, InScopes(luaStack, scopes, op), EndsBelow(stateStack, luaStack, op),
         NEW k, k = Len(luaStack) - ReductionSize(prod.count)
  PROVE  EndsBy(op, luaStack, k + 1, ScopeStart(prod.count))
<1> DEFINE n == prod.count
           first == Len(stateStack) - n + 1
<1>1. /\ k \in Nat /\ n \in Nat /\ n < Len(stateStack) /\ Len(stateStack) \in Nat
      /\ IsBehindLast(stateStack, Len(stateStack) - n, k + 1)
  BY CallLua
<1>2. CASE n = 0
  <2>1. \A s \in scopes : s.end <= scopestep
    BY DEF Inductive, Counters
  <2>2. ScopeStart(n) = scopestep
    BY <1>2 DEF ScopeStart
  <2>3. QED
    BY <2>1, <2>2 DEF EndsBy, InScopes
<1>3. CASE n # 0
  <2>1. stateStack \in Seq(State)
    BY DEF Inductive, Types
  <2>2. /\ first \in DOMAIN stateStack /\ first \in Int /\ first <= Len(stateStack)
        /\ first - 1 = Len(stateStack) - n
    BY <1>1, <1>3, <2>1
  <2>3. ScopeStart(n) = stateStack[first].scopecnt
    <3>1. \A i \in first .. Len(stateStack) : stateStack[i] \in State
      BY <1>1, <2>1, <2>2
    <3>2. first \in Int /\ Len(stateStack) \in Int
      BY <2>2, <1>1
    <3>3. 1 \in 1 .. Len(stateStack) - first + 1 /\ first + 1 - 1 = first
      BY <2>2, <1>1
    <3> HIDE DEF first
    <3>4. \A i \in 1 .. Len(stateStack) - first + 1 :
            SubSeq(stateStack, first, Len(stateStack))[i] = stateStack[first + i - 1]
      BY <3>1, <3>2, SubSeqProperties
    <3>5. Popped(n)[1] = stateStack[first]
      BY <3>3, <3>4 DEF Popped, first
    <3>6. QED
      BY <3>5, <1>3 DEF ScopeStart
  <2>4. k + 1 \in Nat /\ IsBehindLast(stateStack, first - 1, k + 1)
    BY <1>1, <2>2
  <2> HIDE DEF first
  <2>5. EndsBy(op, luaStack, k + 1, stateStack[first].scopecnt)
    BY <2>2, <2>4 DEF EndsBelow
  <2>6. QED
    BY <2>3, <2>5
<1>4. QED
  BY <1>2, <1>3

(* A state is pushed onto the rest of a stack; its part begins at y, and   *)
(* what is left of it is as it was.                                        *)
Pushed(stack, rest, st, new, y) ==
  /\ stack \in Seq(State) /\ Linked(stack)
  /\ rest \in Seq(State) /\ Len(rest) <= Len(stack) /\ SamePrefix(stack, rest, Len(rest))
  /\ st \in State /\ new = Append(rest, st)
  /\ y \in Nat /\ IsBehindLast(stack, Len(rest), y)

SameLeft(lua, op, lua2, op2, y) ==
  \A e \in DOMAIN lua2 : e \in Nat /\ (e < y => e \in DOMAIN lua /\ op2[lua2[e]] = op[lua[e]])

LEMMA PushEndsBelow ==
  ASSUME NEW stack, NEW rest, NEW st, NEW new, NEW y, Pushed(stack, rest, st, new, y),
         NEW lua, NEW lua2, NEW op, NEW op2, SameLeft(lua, op, lua2, op2, y),
         EndsBelow(stack, lua, op), EndsBy(op, lua, y, st.scopecnt)
  PROVE  EndsBelow(new, lua2, op2)
<1> USE DEF Pushed, SameLeft
<1> DEFINE m == Len(rest)
<1>1. /\ m \in Nat /\ Len(stack) \in Nat /\ m <= Len(stack)
      /\ DOMAIN new = 1 .. m + 1 /\ DOMAIN stack = 1 .. Len(stack)
      /\ \A i \in 1 .. m : new[i] = rest[i] /\ i \in DOMAIN stack
      /\ new[m + 1] = st
  BY AppendProperties
<1>2. \A i \in 1 .. m : new[i] = stack[i]
  BY <1>1 DEF SamePrefix
<1>3. SamePrefix(new, stack, m)
  BY <1>2 DEF SamePrefix
<1>4. ASSUME NEW i \in DOMAIN new, NEW x \in Nat, IsBehindLast(new, i - 1, x)
      PROVE  EndsBy(op2, lua2, x, new[i].scopecnt)
  <2>1. i - 1 \in Nat /\ i - 1 <= m /\ IsBehindLast(stack, i - 1, x)
    <3>1. i - 1 \in Nat /\ i - 1 <= m /\ SamePrefix(new, stack, i - 1)
      BY <1>1, <1>3 DEF SamePrefix
    <3>2. QED
      BY <1>4, <3>1, BehindOfPrefix
  <2>2. x <= y
    BY <2>1, <1>1, BehindMonotone
  <2>3. EndsBy(op, lua, x, new[i].scopecnt)
    <3>1. CASE i = m + 1
      <4>1. x = y
        BY <2>1, <3>1, <1>1, BehindIsUnique
      <4>2. QED
        BY <4>1, <3>1, <1>1
    <3>2. CASE i \in 1 .. m
      BY <3>2, <1>1, <1>2, <2>1 DEF EndsBelow
    <3>3. QED
      BY <1>1, <3>1, <3>2
  <2>4. \A e \in DOMAIN lua2 : e < x => e \in DOMAIN lua /\ op2[lua2[e]] = op[lua[e]]
    BY <2>2
  <2>5. QED
    BY <2>3, <2>4 DEF EndsBy
<1>5. QED
  BY <1>4 DEF EndsBelow

(* The scope of the node of a call.                                        *)
LEMMA CallNodeScope ==
  ASSUME Inductive, NEW prod \in Productions, CallOf(prod), prod.call
  PROVE  /\ scopestep \in Nat /\ scopestep' \in Nat
         /\ scopestep <= scopestep' /\ scopestep' <= scopestep + 1
         /\ NodeScope(prod) \in Scope /\ NodeScope(prod).start < NodeScope(prod).end
         /\ NodeScope(prod).start <= scopestep'
         /\ IF prod.scopeflag = "Scope"
            THEN scopestep' = scopestep + 1 /\ NodeScope(prod).end = scopestep + 1
            ELSE NodeScope(prod).start = scopestep'
<1> DEFINE c == ScopeStart(prod.count)
<1>1. c \in Nat /\ scopestep' \in Nat /\ scopestep <= scopestep' /\ c <= scopestep
  BY CallScopes DEF Inductive
<1> HIDE DEF c
<1>2. scopestep \in Nat
  BY DEF Inductive, Types
<1>3. scopestep' = Step(prod)
  BY DEF CallOf
<1>4. scopestep' = scopestep \/ scopestep' = scopestep + 1
  BY <1>3 DEF Step
<1>5. CASE prod.scopeflag = "Scope"
  <2>1. scopestep' = scopestep + 1 /\ Step(prod) = scopestep + 1
    BY <1>3, <1>5 DEF Step
  <2>2. NodeScope(prod) = [start |-> c, end |-> scopestep + 1]
    BY <2>1, <1>5 DEF NodeScope, c
  <2>3. NodeScope(prod).start = c /\ NodeScope(prod).end = scopestep + 1
    BY <2>2
  <2>4. NodeScope(prod) \in Scope
    BY <2>2, <1>1, <1>2 DEF Scope
  <2>5. QED
    BY <1>1, <1>2, <1>5, <2>1, <2>3, <2>4
<1>6. CASE prod.scopeflag # "Scope"
  <2>1. PICK d \in Nat : d = scopestep'
    BY <1>1
  <2>2. NodeScope(prod) = [start |-> d, end |-> d + 1]
    BY <1>3, <1>6, <2>1 DEF NodeScope
  <2>3. NodeScope(prod).start = d /\ NodeScope(prod).end = d + 1 /\ NodeScope(prod) \in Scope
    BY <2>2 DEF Scope
  <2>4. d < d + 1 /\ d <= d
    OBVIOUS
  <2>5. NodeScope(prod).start < NodeScope(prod).end /\ NodeScope(prod).start <= scopestep'
    BY <2>1, <2>3, <2>4, Zenon
  <2>6. NodeScope(prod).start = scopestep'
    BY <2>1, <2>3, Zenon
  <2>7. scopestep <= scopestep' /\ scopestep' <= scopestep + 1
    BY <1>1, <1>2, <1>4
  <2>8. QED
    BY <1>1, <1>2, <1>6, <2>3, <2>5, <2>6, <2>7, Zenon
<1>7. QED
  BY <1>5, <1>6

(* The node of a call is in order on top of the trees it takes.            *)
LEMMA CallOrderly ==
  ASSUME Inductive, ScopesBelow, phase = "run", scopestep <= feeds,
         feeds < MaxFeeds, feeds' = feeds + 1,
         NEW prod \in Productions, CallOf(prod), prod.call,
         NEW W, NEW op, ForestOf(W, op),
         NEW k, k = Len(luaStack) - ReductionSize(prod.count),
         NEW args, Taken(prod, k, args), NEW node, node = Node(prod, args),
         NEW op2, Grown(W, op, node, op2)
  PROVE  /\ Orderly(op2, node) /\ \A i \in DOMAIN node.args : node.args[i] \in W
         /\ scopestep' <= feeds' /\ op2[node] \subseteq scopes'
<1> DEFINE l == Len(luaStack)
<1>1. /\ k \in Nat /\ l \in Nat /\ k <= l /\ DOMAIN luaStack = 1 .. l
  BY CallLua
<1>2. /\ node.scope = NodeScope(prod) /\ node.isScope = (prod.scopeflag = "Scope")
      /\ node.args = args
      /\ node.below = UNION {{args[i].scope} \cup args[i].below : i \in DOMAIN args}
  BY DEF Node
<1>3. /\ DOMAIN args = 1 .. l - k /\ Len(args) = l - k
      /\ \A i \in DOMAIN args : args[i] = luaStack[k + i] /\ k + i \in k + 1 .. l
      /\ DOMAIN luaStack' = 1 .. k + 1 /\ luaStack'[k + 1] = node
  BY DEF Taken
<1>4. \A i \in DOMAIN args : k + i \in DOMAIN luaStack /\ args[i] \in W /\ args[i] = luaStack[k + i]
  <2>1. \A i \in DOMAIN args : k + i \in DOMAIN luaStack
    BY <1>1, <1>3
  <2>2. \A e \in DOMAIN luaStack : luaStack[e] \in W
    BY DEF ForestOf, Standing
  <2>3. QED
    BY <1>3, <2>1, <2>2
<1>5. /\ \A n \in W : op2[n] = op[n]
      /\ op2[node] = Opened(op, node) /\ Opened(op2, node) = Opened(op, node)
  <2>1. Forest(W, op) /\ \A i \in DOMAIN node.args : node.args[i] \in W
    BY <1>2, <1>4 DEF ForestOf
  <2>2. QED
    BY <2>1, GrownOpens
<1>6. /\ scopestep \in Nat /\ scopestep' \in Nat /\ feeds \in Nat /\ MaxFeeds \in Nat
      /\ scopestep <= scopestep' /\ scopestep' <= feeds' /\ feeds' <= MaxFeeds
      /\ NodeScope(prod) \in Scope /\ NodeScope(prod).start < NodeScope(prod).end
      /\ NodeScope(prod).start <= MaxFeeds
      /\ IF prod.scopeflag = "Scope"
         THEN NodeScope(prod).end = scopestep + 1 /\ NodeScope(prod).end <= MaxFeeds
         ELSE NodeScope(prod).start = scopestep'
  <2>1. feeds \in Nat /\ MaxFeeds \in Nat
    BY MaxFeedsAssumption DEF Inductive, Types
  <2>2. /\ scopestep \in Nat /\ scopestep' \in Nat
        /\ scopestep <= scopestep' /\ scopestep' <= scopestep + 1
        /\ NodeScope(prod) \in Scope /\ NodeScope(prod).start < NodeScope(prod).end
        /\ NodeScope(prod).start <= scopestep'
        /\ IF prod.scopeflag = "Scope"
           THEN scopestep' = scopestep + 1 /\ NodeScope(prod).end = scopestep + 1
           ELSE NodeScope(prod).start = scopestep'
    BY CallNodeScope
  <2>3. scopestep' <= feeds' /\ feeds' <= MaxFeeds /\ scopestep' <= MaxFeeds
    BY <2>1, <2>2
  <2>4. NodeScope(prod).start \in Nat
    BY <2>2 DEF Scope
  <2>5. NodeScope(prod).start <= MaxFeeds
    BY <2>1, <2>2, <2>3, <2>4
  <2>6. prod.scopeflag = "Scope" => NodeScope(prod).end <= MaxFeeds
    BY <2>2, <2>3
  <2>7. QED
    BY <2>1, <2>2, <2>3, <2>5, <2>6
<1>7. \A i \in DOMAIN args : /\ Extent(args[i]) \subseteq node.below
                             /\ Orderly(op, args[i])
                             /\ op[args[i]] \subseteq scopes
                             /\ op2[args[i]] = op[args[i]]
  <2> TAKE i \in DOMAIN args
  <2>1. Orderly(op, args[i])
    BY <1>4 DEF ForestOf, Forest
  <2>2. op[args[i]] \subseteq scopes
    BY <1>4 DEF ForestOf, InScopes
  <2>3. QED
    BY <1>2, <1>4, <1>5, <2>1, <2>2 DEF Extent
<1>8. \A s \in node.below : s \in Scope /\ s.start < s.end /\ s.start <= MaxFeeds
  <2> TAKE s \in node.below
  <2>1. PICK i \in DOMAIN args : s \in Extent(args[i])
    BY <1>2 DEF Extent
  <2>2. QED
    BY <2>1, <1>7 DEF Orderly
<1>9. \A s \in Extent(node) : s \in Scope /\ s.start < s.end /\ s.start <= MaxFeeds
  BY <1>2, <1>6, <1>8 DEF Extent
<1>10. /\ \A s \in Opened(op, node) : s \in Extent(node) /\ s.end <= MaxFeeds
       /\ Opened(op, node) \subseteq scopes'
  <2> SUFFICES ASSUME NEW s \in Opened(op, node)
               PROVE  s \in Extent(node) /\ s.end <= MaxFeeds /\ s \in scopes'
    OBVIOUS
  <2>1. scopes \subseteq scopes' /\ (prod.scopeflag = "Scope" => NodeScope(prod) \in scopes')
    BY DEF CallOf
  <2>2. CASE \E i \in DOMAIN args : s \in op[args[i]]
    <3>1. PICK i \in DOMAIN args : s \in op[args[i]]
      BY <2>2
    <3>2. s \in Extent(args[i]) /\ s.end <= MaxFeeds
      BY <1>7, <3>1 DEF Orderly
    <3>3. s \in scopes
      BY <1>7, <3>1
    <3>4. QED
      BY <1>7, <2>1, <3>2, <3>3 DEF Extent
  <2>3. CASE node.isScope /\ s = node.scope
    BY <2>1, <2>3, <1>2, <1>6 DEF Extent
  <2>4. \/ s \in UNION {op[node.args[i]] : i \in DOMAIN node.args}
        \/ node.isScope /\ s = node.scope
    <3>1. \/ s \in UNION {op[node.args[i]] : i \in DOMAIN node.args}
          \/ s \in (IF node.isScope THEN {node.scope} ELSE {})
      BY Zenon DEF Opened
    <3>2. s \in (IF node.isScope THEN {node.scope} ELSE {}) => node.isScope /\ s = node.scope
      BY Zenon
    <3>3. QED
      BY <3>1, <3>2, Zenon
  <2>5. \/ \E i \in DOMAIN args : s \in op[args[i]]
        \/ node.isScope /\ s = node.scope
    BY <1>2, <2>4
  <2>6. QED
    BY <2>2, <2>3, <2>5
<1>11. \A i, j \in DOMAIN args : i < j => Before(op[args[i]], Extent(args[j]))
  <2> TAKE i, j \in DOMAIN args
  <2> HAVE i < j
  <2>1. k + i \in DOMAIN luaStack /\ k + j \in DOMAIN luaStack /\ k + i < k + j
    BY <1>1, <1>3, <1>4
  <2>2. QED
    BY <2>1, <1>4 DEF ForestOf, Standing
<1>12. \A i \in DOMAIN args : \A s \in op[args[i]] :
         IF node.isScope THEN s.end < node.scope.end ELSE s.end <= node.scope.start
  <2> TAKE i \in DOMAIN args
  <2> TAKE s \in op[args[i]]
  <2>1. s.end <= scopestep /\ s.end \in Nat
    <3>1. s \in scopes
      BY <1>7
    <3>2. QED
      BY <3>1 DEF Inductive, Types, Counters, Scope
  <2>2. CASE prod.scopeflag = "Scope"
    <3>1. NodeScope(prod).end = scopestep + 1
      BY <1>6, <2>2
    <3>2. s.end < scopestep + 1
      BY <1>6, <2>1
    <3>3. QED
      BY <1>2, <2>2, <3>1, <3>2, Zenon
  <2>3. CASE prod.scopeflag # "Scope"
    <3>1. s.end <= scopestep'
      BY <1>6, <2>1
    <3>2. QED
      BY <1>2, <1>6, <2>3, <3>1
  <2>4. QED
    BY <2>2, <2>3
<1>13. node.isScope =>
         \A s \in node.below : node.scope.start <= s.start /\ s.end <= node.scope.end
  <2>1. ScopeCoversSubtree'
    BY CallExtents
  <2>2. k + 1 \in DOMAIN luaStack'
    BY <1>1, <1>3
  <2>3. QED
    BY <2>1, <2>2, <1>3 DEF ScopeCoversSubtree
<1>14. Len(args) \in Nat
  BY <1>1, <1>3
<1>15. Orderly(op2, node)
  <2>1. \A i \in DOMAIN node.args : Extent(node.args[i]) \subseteq node.below
    BY <1>2, <1>7
  <2>2. \A i, j \in DOMAIN node.args : i < j => Before(op2[node.args[i]], Extent(node.args[j]))
    BY <1>2, <1>7, <1>11
  <2>3. \A i \in DOMAIN node.args : \A s \in op2[node.args[i]] :
          IF node.isScope THEN s.end < node.scope.end ELSE s.end <= node.scope.start
    BY <1>2, <1>7, <1>12
  <2>4. Len(node.args) \in Nat /\ DOMAIN node.args = 1 .. Len(node.args)
    BY <1>2, <1>3, <1>14
  <2>5. op2[node] = Opened(op2, node) /\ \A s \in op2[node] : s \in Extent(node) /\ s.end <= MaxFeeds
    BY <1>5, <1>10
  <2>6. QED
    BY <1>9, <1>13, <2>1, <2>2, <2>3, <2>4, <2>5 DEF Orderly
<1>16. QED
  BY <1>2, <1>4, <1>5, <1>6, <1>10, <1>15

(* A node on top of the Lua stack: what is left of it has ended where it   *)
(* starts.                                                                 *)
LEMMA GrowStanding ==
  ASSUME NEW W, NEW op, NEW lua, Standing(lua, W, op), NEW S, InScopes(lua, S, op),
         NEW k \in Nat, NEW node, NEW op2, NEW lua2, NEW S2, S \subseteq S2,
         \A n \in W : op2[n] = op[n],
         op2[node] \subseteq S2,
         DOMAIN lua2 = 1 .. k + 1, lua2[k + 1] = node,
         \A e \in 1 .. k : e \in DOMAIN lua /\ lua2[e] = lua[e],
         NEW c \in Nat, EndsBy(op, lua, k + 1, c),
         \A e \in DOMAIN lua : \A s \in op[lua[e]] : s.end \in Nat,
         \A s \in Extent(node) : s.start \in Nat /\ c <= s.start
  PROVE  Standing(lua2, W \cup {node}, op2) /\ InScopes(lua2, S2, op2)
<1>1. \A e \in DOMAIN lua2 : e \in 1 .. k \/ e = k + 1
  OBVIOUS
<1>2. \A e \in 1 .. k : e \in DOMAIN lua /\ lua2[e] = lua[e] /\ lua[e] \in W /\ op2[lua2[e]] = op[lua[e]]
  BY DEF Standing
<1>3. \A e \in DOMAIN lua2 : lua2[e] \in W \cup {node}
  BY <1>1, <1>2
<1>4. ASSUME NEW e \in DOMAIN lua2, NEW f \in DOMAIN lua2, e < f
      PROVE  Before(op2[lua2[e]], Extent(lua2[f]))
  <2>1. e \in 1 .. k
    BY <1>4
  <2>2. CASE f \in 1 .. k
    BY <1>2, <1>4, <2>1, <2>2 DEF Standing
  <2>3. CASE f = k + 1
    <3>1. \A s \in op[lua[e]] : s.end \in Nat /\ s.end <= c
      BY <1>2, <1>4, <2>1 DEF EndsBy
    <3>2. Before(op[lua[e]], Extent(node))
      BY <3>1 DEF Before
    <3>3. QED
      BY <1>2, <2>1, <2>3, <3>2
  <2>4. QED
    BY <1>1, <2>2, <2>3
<1>5. InScopes(lua2, S2, op2)
  <2>1. ASSUME NEW e \in DOMAIN lua2
        PROVE  op2[lua2[e]] \subseteq S2
    <3>1. CASE e \in 1 .. k
      BY <3>1, <1>2 DEF InScopes
    <3>2. CASE e = k + 1
      BY <3>2
    <3>3. QED
      BY <1>1, <3>1, <3>2
  <2>2. QED
    BY <2>1 DEF InScopes
<1>6. QED
  BY <1>3, <1>4, <1>5 DEF Standing

(* What a forest of the next state is.                                     *)
NextForest(W, op) ==
  /\ Forest(W, op) /\ Standing(luaStack', W, op) /\ InScopes(luaStack', scopes', op)
  /\ phase' = "run" => EndsBelow(stateStack', luaStack', op)

LEMMA ForestNext ==
  ASSUME scopestep' <= feeds', NEW W, NEW op, NextForest(W, op)
  PROVE  ForestKept'
  BY DEF ForestKept, NextForest, ForestOf

LEMMA ShiftForest ==
  ASSUME Inductive, ForestKept, phase = "run", feeds < MaxFeeds, feeds' = feeds + 1,
         ShiftToken \/ ShiftKeyword
  PROVE  ForestKept'
<1> DEFINE l == Len(luaStack)
<1>1. PICK S : luaStack \in Seq(S) /\ \A node \in S : node.scope \in Scope
  BY DEF Inductive, Types
<1>2. l \in Nat /\ l + 1 \in Nat /\ DOMAIN luaStack = 1 .. l
  BY <1>1, LenProperties
<1>3. PICK W, op : ForestOf(W, op)
  BY DEF ForestKept
<1>4. /\ stateStack \in Seq(State) /\ Len(stateStack) \in Nat /\ Linked(stateStack)
      /\ scopestep \in Nat /\ scopestep' = scopestep /\ phase' = phase /\ scopes' = scopes
      /\ IsBehindLast(stateStack, Len(stateStack), l + 1)
      /\ feeds \in Nat /\ MaxFeeds \in Nat
      /\ \A s \in scopes : s.end \in Nat /\ s.end <= scopestep
  BY MaxFeedsAssumption
  DEF Inductive, Types, Accounted, Counters, Scope, ShiftToken, ShiftKeyword
<1>5. scopestep' <= feeds' /\ scopestep <= feeds
  <2>1. scopestep <= feeds
    BY DEF ForestKept
  <2>2. QED
    BY <1>4, <2>1
<1>6. /\ Forest(W, op) /\ Standing(luaStack, W, op) /\ InScopes(luaStack, scopes, op)
      /\ EndsBelow(stateStack, luaStack, op)
  BY <1>3 DEF ForestOf
<1>7. PICK st \in State : stateStack' = Append(stateStack, st) /\ st.scopecnt = scopestep
  <2>1. NextLuaStackIndex(stateStack) \in Nat
    BY <1>4, NextIndex
  <2>2. /\ NewState(NextLuaStackIndex(stateStack), 1, scopestep) \in State
        /\ NewState(0, 0, scopestep) \in State
    BY <1>4, <2>1 DEF NewState, State
  <2>3. /\ NewState(NextLuaStackIndex(stateStack), 1, scopestep).scopecnt = scopestep
        /\ NewState(0, 0, scopestep).scopecnt = scopestep
    BY DEF NewState
  <2>4. QED
    BY <2>2, <2>3 DEF ShiftToken, ShiftKeyword
<1>8. \A e \in DOMAIN luaStack : \A s \in op[luaStack[e]] : s.end \in Nat /\ s.end <= scopestep
  BY <1>4, <1>6 DEF InScopes
<1>9. EndsBy(op, luaStack, l + 1, st.scopecnt)
  BY <1>7, <1>8 DEF EndsBy
<1>10. ASSUME NEW op2, \A e \in DOMAIN luaStack : op2[luaStack[e]] = op[luaStack[e]],
              \A e \in DOMAIN luaStack' : e \in Nat,
              \A e \in DOMAIN luaStack' : e < l + 1 => e \in DOMAIN luaStack /\ luaStack'[e] = luaStack[e]
       PROVE  EndsBelow(stateStack', luaStack', op2)
  <2>1. SamePrefix(stateStack, stateStack, Len(stateStack)) /\ Len(stateStack) <= Len(stateStack)
    BY <1>4 DEF SamePrefix
  <2>2. \A e \in DOMAIN luaStack' : e < l + 1 => e \in DOMAIN luaStack /\ op2[luaStack'[e]] = op[luaStack[e]]
    BY <1>10
  <2> HIDE DEF l
  <2>3. PICK lua2, new : lua2 = luaStack' /\ new = stateStack'
    OBVIOUS
  <2>4. EndsBelow(new, lua2, op2)
    <3>1. SameLeft(luaStack, op, luaStack', op2, l + 1)
      BY <1>10, <2>2 DEF SameLeft
    <3>2. Pushed(stateStack, stateStack, st, stateStack', l + 1)
      BY <1>2, <1>4, <1>7, <2>1 DEF Pushed
    <3>3. SameLeft(luaStack, op, lua2, op2, l + 1) /\ Pushed(stateStack, stateStack, st, new, l + 1)
      BY <2>3, <3>1, <3>2, Zenon
    <3>4. EndsBelow(stateStack, luaStack, op)
      BY <1>6
    <3>5. QED
      BY <1>9, <3>3, <3>4, PushEndsBelow, Zenon
  <2>5. QED
    BY <2>3, <2>4, Zenon
<1>11. CASE ShiftKeyword
  <2>1. luaStack' = luaStack
    BY <1>11 DEF ShiftKeyword
  <2>2. EndsBelow(stateStack', luaStack', op)
    BY <1>2, <1>10, <2>1
  <2>3. NextForest(W, op)
    BY <1>4, <1>6, <2>1, <2>2 DEF NextForest
  <2>4. QED
    BY <1>5, <2>3, ForestNext
<1>12. CASE ShiftToken
  <2>1. PICK leaf : leaf = Leaf(tokens + 1)
    OBVIOUS
  <2>2. /\ leaf.scope = [start |-> scopestep, end |-> scopestep + 1]
        /\ leaf.isScope = FALSE /\ leaf.below = {} /\ leaf.args = <<>>
    BY <2>1 DEF Leaf
  <2>3. \A s \in Extent(leaf) : /\ s \in Scope /\ s.start = scopestep /\ s.end = scopestep + 1
    BY <1>4, <2>2 DEF Extent, Scope
  <2>4. /\ DOMAIN luaStack' = 1 .. l + 1
        /\ \A e \in 1 .. l : luaStack'[e] = luaStack[e]
        /\ luaStack'[l + 1] = leaf
    <3> DEFINE T == S \cup {leaf}
    <3>1. luaStack' = Append(luaStack, leaf)
      BY <1>12, <2>1 DEF ShiftToken
    <3>2. luaStack \in Seq(T) /\ leaf \in T
      BY <1>1
    <3> HIDE DEF T
    <3>3. QED
      BY <3>1, <3>2, <1>2, AppendProperties
  <2>5. \A i \in DOMAIN leaf.args : leaf.args[i] \in W
    BY <2>2
  <2>0. PICK op2 : Grown(W, op, leaf, op2)
    BY DEF Grown
  <2>6. /\ \A n \in W : op2[n] = op[n]
        /\ op2[leaf] = Opened(op, leaf) /\ Opened(op2, leaf) = Opened(op, leaf)
    BY <1>6, <2>0, <2>5, GrownOpens
  <2>7. Opened(op, leaf) = {}
    <3>1. {op[leaf.args[i]] : i \in DOMAIN leaf.args} = {}
      BY <2>2
    <3>2. QED
      BY <2>2, <3>1 DEF Opened
  <2>8. Orderly(op2, leaf)
    <3>1. DOMAIN leaf.args = 1 .. Len(leaf.args) /\ DOMAIN leaf.args = {} /\ Len(leaf.args) \in Nat
      BY <2>2
    <3>2. \A s \in Extent(leaf) : s \in Scope /\ s.start < s.end /\ s.start <= MaxFeeds
      BY <1>4, <1>5, <2>3
    <3>3. QED
      BY <2>2, <2>6, <2>7, <3>1, <3>2 DEF Orderly
  <2>9. Forest(W \cup {leaf}, op2)
    BY <1>6, <2>0, <2>5, <2>8, GrowForest
  <2>10. Standing(luaStack', W \cup {leaf}, op2) /\ InScopes(luaStack', scopes', op2)
    <3>1. PICK lua2 : lua2 = luaStack'
      OBVIOUS
    <3>2. DOMAIN lua2 = 1 .. l + 1 /\ lua2[l + 1] = leaf
      BY <2>4, <3>1
    <3>3. \A e \in 1 .. l : e \in DOMAIN luaStack /\ lua2[e] = luaStack[e]
      BY <1>2, <2>4, <3>1
    <3>4. EndsBy(op, luaStack, l + 1, scopestep)
      BY <1>8 DEF EndsBy
    <3>5. \A s \in Extent(leaf) : s.start \in Nat /\ scopestep <= s.start
      BY <1>4, <2>3
    <3>6. op2[leaf] \subseteq scopes /\ scopes \subseteq scopes
      BY <2>6, <2>7
    <3>7. \A e \in DOMAIN luaStack : \A s \in op[luaStack[e]] : s.end \in Nat
      BY <1>8
    <3> HIDE DEF l
    <3>8. Standing(lua2, W \cup {leaf}, op2) /\ InScopes(lua2, scopes, op2)
      BY <1>2, <1>4, <1>6, <2>6, <3>2, <3>3, <3>4, <3>5, <3>6, <3>7, GrowStanding, ZenonT(30)
    <3>9. QED
      BY <1>4, <3>1, <3>8, Zenon
  <2>11. EndsBelow(stateStack', luaStack', op2)
    <3>1. \A e \in DOMAIN luaStack : op2[luaStack[e]] = op[luaStack[e]]
      BY <1>6, <2>6 DEF Standing
    <3>2. \A e \in DOMAIN luaStack' : e \in Nat
      BY <1>2, <2>4
    <3>3. \A e \in DOMAIN luaStack' : e < l + 1 => e \in DOMAIN luaStack /\ luaStack'[e] = luaStack[e]
      BY <1>2, <2>4
    <3> HIDE DEF l
    <3>4. QED
      BY <1>10, <3>1, <3>2, <3>3
  <2>12. NextForest(W \cup {leaf}, op2)
    BY <2>9, <2>10, <2>11 DEF NextForest
  <2>13. QED
    BY <1>5, <2>12, ForestNext
<1>13. QED
  BY <1>11, <1>12

(* A forest of the next state that is like the one before left of k.       *)
CallForest(W, op, k, op2) ==
  /\ Forest(W, op2) /\ Standing(luaStack', W, op2) /\ InScopes(luaStack', scopes', op2)
  /\ SameLeft(luaStack, op, luaStack', op2, k + 1)

LEMMA CallGrows ==
  ASSUME Inductive, ScopesBelow, phase = "run", scopestep <= feeds,
         feeds < MaxFeeds, feeds' = feeds + 1,
         NEW prod \in Productions, CallOf(prod),
         NEW W, NEW op, ForestOf(W, op),
         NEW k, k = Len(luaStack) - ReductionSize(prod.count),
         EndsBy(op, luaStack, k + 1, ScopeStart(prod.count))
  PROVE  scopestep' <= feeds' /\ \E W2, op2 : CallForest(W2, op, k, op2)
<1> DEFINE c == ScopeStart(prod.count)
<1>1. /\ k \in Nat /\ Len(luaStack) \in Nat /\ k <= Len(luaStack)
      /\ DOMAIN luaStack = 1 .. Len(luaStack)
      /\ ~prod.call => luaStack' = luaStack
  BY CallLua
<1>2. /\ Forest(W, op) /\ Standing(luaStack, W, op) /\ InScopes(luaStack, scopes, op)
  BY DEF ForestOf
<1>3. CASE ~prod.call
  <2>1. luaStack' = luaStack /\ scopestep' = scopestep /\ scopes' = scopes
    BY <1>3 DEF CallOf
  <2>2. feeds \in Nat /\ scopestep \in Nat
    BY MaxFeedsAssumption DEF Inductive, Types
  <2>3. \A e \in DOMAIN luaStack : e \in Nat
    BY <1>1
  <2>4. SameLeft(luaStack, op, luaStack', op, k + 1)
    BY <2>1, <2>3 DEF SameLeft
  <2>5. CallForest(W, op, k, op)
    BY <1>2, <2>1, <2>4 DEF CallForest
  <2>6. scopestep' <= feeds'
    BY <2>1, <2>2
  <2>7. QED
    BY <2>5, <2>6
<1>4. CASE prod.call
  <2>1. PICK args : Taken(prod, k, args)
    BY <1>4, CallLua
  <2>2. PICK node : node = Node(prod, args)
    OBVIOUS
  <2>3. PICK op2 : Grown(W, op, node, op2)
    BY DEF Grown
  <2>4. /\ Orderly(op2, node) /\ \A i \in DOMAIN node.args : node.args[i] \in W
        /\ scopestep' <= feeds' /\ op2[node] \subseteq scopes'
    BY <1>4, <2>1, <2>2, <2>3, CallOrderly, ZenonT(60)
  <2>5. Forest(W \cup {node}, op2) /\ \A n \in W : op2[n] = op[n]
    BY <1>2, <2>3, <2>4, GrowForest, GrownOpens
  <2>6. /\ DOMAIN luaStack' = 1 .. k + 1 /\ luaStack'[k + 1] = node
        /\ \A e \in 1 .. k : e \in DOMAIN luaStack /\ luaStack'[e] = luaStack[e]
    <3>1. /\ DOMAIN luaStack' = 1 .. k + 1 /\ luaStack'[k + 1] = node
          /\ \A e \in 1 .. k : luaStack'[e] = luaStack[e]
      BY <2>1, <2>2 DEF Taken
    <3>2. \A e \in 1 .. k : e \in DOMAIN luaStack
      BY <1>1
    <3>3. QED
      BY <3>1, <3>2
  <2>7. c \in Nat /\ scopes \subseteq scopes'
    BY CallScopes DEF Inductive, CallOf
  <2>8. \A e \in DOMAIN luaStack : \A s \in op[luaStack[e]] : s.end \in Nat
    BY <1>2 DEF InScopes, Inductive, Types, Scope
  <2>9. \A s \in Extent(node) : s.start \in Nat /\ c <= s.start
    <3>1. StartsFrom(luaStack', k + 1, c)
      BY CallExtents
    <3>2. k + 1 \in DOMAIN luaStack' /\ k + 1 >= k + 1
      BY <1>1, <2>6
    <3>3. \A s \in Extent(node) : s \in Scope
      BY <2>4 DEF Orderly
    <3> HIDE DEF c
    <3>4. QED
      BY <2>6, <3>1, <3>2, <3>3 DEF StartsFrom, Scope
  <2>10. Standing(luaStack', W \cup {node}, op2) /\ InScopes(luaStack', scopes', op2)
    <3>1. PICK lua2, S2 : lua2 = luaStack' /\ S2 = scopes'
      OBVIOUS
    <3>2. /\ DOMAIN lua2 = 1 .. k + 1 /\ lua2[k + 1] = node
          /\ \A e \in 1 .. k : e \in DOMAIN luaStack /\ lua2[e] = luaStack[e]
          /\ scopes \subseteq S2 /\ op2[node] \subseteq S2
      BY <2>4, <2>6, <2>7, <3>1, Zenon
    <3> HIDE DEF c
    <3>3. EndsBy(op, luaStack, k + 1, c)
      BY DEF c
    <3>4. Standing(lua2, W \cup {node}, op2) /\ InScopes(lua2, S2, op2)
      BY <1>1, <1>2, <2>5, <2>7, <2>8, <2>9, <3>2, <3>3, GrowStanding, ZenonT(30)
    <3>5. QED
      BY <3>1, <3>4, Zenon
  <2>11. SameLeft(luaStack, op, luaStack', op2, k + 1)
    <3>1. \A e \in DOMAIN luaStack' : e \in Nat /\ (e < k + 1 => e \in 1 .. k)
      BY <1>1, <2>6
    <3>2. \A e \in DOMAIN luaStack : op2[luaStack[e]] = op[luaStack[e]]
      BY <1>2, <2>5 DEF Standing
    <3>3. QED
      BY <2>6, <3>1, <3>2 DEF SameLeft
  <2>12. CallForest(W \cup {node}, op, k, op2)
    BY <2>5, <2>10, <2>11 DEF CallForest
  <2>13. QED
    BY <2>4, <2>12
<1>5. QED
  BY <1>3, <1>4

LEMMA CallForestKept ==
  ASSUME Inductive, ScopesBelow, ForestKept, phase = "run", feeds < MaxFeeds, feeds' = feeds + 1,
         NEW prod \in Productions, Reduce(prod) \/ Accept(prod) \/ ThrowReduced(prod)
  PROVE  ForestKept'
<1>1. CallOf(prod)
  BY DEF Reduce, Accept, ThrowReduced
<1>2. PICK k : k = Len(luaStack) - ReductionSize(prod.count)
  OBVIOUS
<1>3. scopestep <= feeds /\ \E W, op : ForestOf(W, op)
  BY DEF ForestKept
<1>4. PICK W, op : ForestOf(W, op)
  BY <1>3
<1>5. EndsBelow(stateStack, luaStack, op) /\ InScopes(luaStack, scopes, op)
  BY <1>4 DEF ForestOf
<1>6. EndsBy(op, luaStack, k + 1, ScopeStart(prod.count))
  BY <1>1, <1>2, <1>5, LeftOfArgumentsEnds
<1>7. scopestep' <= feeds' /\ \E W2, op2 : CallForest(W2, op, k, op2)
  BY <1>1, <1>2, <1>3, <1>4, <1>6, CallGrows
<1>8. PICK W2, op2 : CallForest(W2, op, k, op2)
  BY <1>7
<1>9. CASE Accept(prod) \/ ThrowReduced(prod)
  <2>1. phase' # "run"
    BY <1>9 DEF Accept, ThrowReduced
  <2>2. NextForest(W2, op2)
    BY <1>8, <2>1 DEF NextForest, CallForest
  <2>3. QED
    BY <1>7, <2>2, ForestNext
<1>10. CASE Reduce(prod)
  <2> DEFINE rest == Rest(prod.count)
             c    == ScopeStart(prod.count)
             n    == NofElements(prod)
             x    == NextLuaStackIndex(rest)
             i0   == IF n = 0 THEN 0 ELSE x
             st   == NewState(i0, n, c)
  <2>1. Types /\ Accounted /\ Counters /\ ScopesNested
    BY DEF Inductive
  <2>2. /\ rest \in Seq(State) /\ Len(rest) = Len(stateStack) - prod.count
        /\ SamePrefix(stateStack, rest, Len(rest)) /\ x \in Nat /\ n \in Nat
    BY <1>1, <2>1, CallElements
  <2>3. c \in Nat
    BY <1>1, <2>1, CallScopes
  <2>4. /\ k \in Nat /\ prod.count \in Nat /\ Len(stateStack) \in Nat
        /\ IsBehindLast(stateStack, Len(stateStack) - prod.count, k + 1)
    BY <1>1, <1>2, CallLua
  <2>5. stateStack' = Append(rest, st)
    BY <1>10 DEF Reduce
  <2>6. st \in State /\ st.scopecnt = c
    BY <2>2, <2>3 DEF NewState, State
  <2>7. stateStack \in Seq(State) /\ Linked(stateStack)
    BY DEF Inductive, Types, Accounted
  <2> HIDE DEF rest, c, n, x, i0, st
  <2>8. Pushed(stateStack, rest, st, stateStack', k + 1)
    <3>1. Len(rest) <= Len(stateStack) /\ k + 1 \in Nat /\ IsBehindLast(stateStack, Len(rest), k + 1)
      BY <2>2, <2>4
    <3>2. QED
      BY <2>2, <2>5, <2>6, <2>7, <3>1 DEF Pushed
  <2>9. EndsBelow(stateStack', luaStack', op2)
    <3>1. PICK new, lua2, rs, t : new = stateStack' /\ lua2 = luaStack' /\ rs = rest /\ t = st
      OBVIOUS
    <3>2. Pushed(stateStack, rs, t, new, k + 1) /\ SameLeft(luaStack, op, lua2, op2, k + 1)
      BY <1>8, <2>8, <3>1, Zenon DEF CallForest
    <3>3. EndsBy(op, luaStack, k + 1, t.scopecnt)
      BY <1>6, <2>6, <3>1, Zenon DEF c
    <3>4. EndsBelow(new, lua2, op2)
      BY <1>5, <3>2, <3>3, PushEndsBelow, Zenon
    <3>5. QED
      BY <3>1, <3>4, Zenon
  <2>10. NextForest(W2, op2)
    BY <1>8, <2>9 DEF NextForest, CallForest
  <2>11. QED
    BY <1>7, <2>10, ForestNext
<1>11. QED
  BY <1>9, <1>10

LEMMA FreshForest == Fresh /\ feeds \in 0 .. MaxFeeds => ForestKept
<1> SUFFICES ASSUME Fresh, feeds \in 0 .. MaxFeeds PROVE ForestKept
  OBVIOUS
<1>1. luaStack = <<>> /\ DOMAIN luaStack = {} /\ scopestep = 0
  BY DEF Fresh
<1>2. ForestOf({}, <<>>)
  BY <1>1 DEF ForestOf, Forest, Standing, InScopes, EndsBelow, EndsBy
<1>3. 0 <= feeds
  BY MaxFeedsAssumption
<1>4. QED
  BY <1>1, <1>2, <1>3 DEF ForestKept

LEMMA InitForestKept == Init => ForestKept
  BY FreshForest, MaxFeedsAssumption DEF Init

LEMMA NextForestKept ==
  Inductive /\ ScopesBelow /\ ForestKept /\ [Next]_vars => ForestKept'
<1> SUFFICES ASSUME Inductive, ScopesBelow, ForestKept, [Next]_vars PROVE ForestKept'
  OBVIOUS
<1>1. CASE UNCHANGED vars
  <2>1. /\ stateStack' = stateStack /\ luaStack' = luaStack /\ scopestep' = scopestep
        /\ phase' = phase /\ scopes' = scopes /\ feeds' = feeds
    BY <1>1 DEF vars
  <2>2. PICK W, op : ForestOf(W, op)
    BY DEF ForestKept
  <2>3. ForestOf(W, op)'
    BY <2>1, <2>2 DEF ForestOf
  <2>4. QED
    BY <2>1, <2>3 DEF ForestKept
<1>2. CASE Next
  <2>1. phase = "run" /\ feeds < MaxFeeds /\ feeds' = feeds + 1
    BY <1>2 DEF Next, Feed
  <2>2. CASE ShiftToken \/ ShiftKeyword
    BY <2>1, <2>2, ShiftForest
  <2>3. ASSUME NEW prod \in Productions, Reduce(prod) \/ Accept(prod) \/ ThrowReduced(prod)
        PROVE  ForestKept'
    BY <2>1, <2>3, CallForestKept
  <2>4. CASE Throw
    <3>1. /\ luaStack' = luaStack /\ scopes' = scopes /\ scopestep' = scopestep
          /\ phase' # "run"
      BY <2>4 DEF Throw
    <3>2. PICK W, op : ForestOf(W, op)
      BY DEF ForestKept
    <3>3. NextForest(W, op)
      BY <3>1, <3>2 DEF NextForest, ForestOf
    <3>4. scopestep' <= feeds'
      <4>1. scopestep <= feeds /\ scopestep \in Nat /\ feeds \in Nat
        BY MaxFeedsAssumption DEF ForestKept, Inductive, Types
      <4>2. QED
        BY <2>1, <3>1, <4>1
    <3>5. QED
      BY <3>3, <3>4, ForestNext
  <2>5. QED
    BY <1>2, <2>2, <2>3, <2>4 DEF Next, Feed
<1>3. QED
  BY <1>1, <1>2

-----------------------------------------------------------------------------
(* The runs of a compiler object *)

LEMMA FreshInductiveNext == (Fresh /\ feeds \in 0 .. MaxFeeds)' => Inductive'
  BY FreshInductive, PTL

LEMMA NewContextInductive ==
  ASSUME Inductive, NewContext
  PROVE  Inductive'
<1>1. feeds \in 0 .. MaxFeeds /\ feeds' = feeds
  BY DEF Inductive, Types, NewContext
<1>2. (Fresh /\ feeds \in 0 .. MaxFeeds)'
  BY <1>1 DEF Fresh, NewContext, NewState
<1>3. QED
  BY <1>2, FreshInductiveNext

(* Every step of a compiler is one of the parser, starts a new run of it,  *)
(* or leaves its variables alone.                                          *)
LEMMA CompilerStep ==
  ASSUME [CompilerNext]_allVars
  PROVE  [Next]_vars \/ NewContext
<1>1. CASE UNCHANGED allVars
  BY <1>1 DEF allVars
<1>2. CASE CompilerNext
  <2>1. CASE \E debug \in DebugOutputs : StartRun(debug)
    BY <2>1 DEF StartRun
  <2>2. CASE Parse
    BY <2>2 DEF Parse, Next
  <2>3. CASE mewa_new_compiler \/ mewa_destroy_compiler \/ Parsed
    BY <2>3 DEF mewa_new_compiler, mewa_destroy_compiler, Parsed
  <2>4. CASE ParsingFailed \/ TopNodeWithoutFunction \/ Raise
    BY <2>4 DEF ParsingFailed, TopNodeWithoutFunction, Raise, Fail
  <2>5. CASE CallTopNode \/ CallSubnode \/ Return
    BY <2>5 DEF CallTopNode, CallSubnode, Return
  <2>6. CASE set_instance \/ print \/ \E section \in Sections : print_section(section)
    BY <2>6 DEF set_instance, print, print_section
  <2>7. CASE FinishRun \/ WriteFailed
    BY <2>7 DEF FinishRun, WriteFailed
  <2>8. QED
    BY <1>2, <2>1, <2>2, <2>3, <2>4, <2>5, <2>6, <2>7 DEF CompilerNext
<1>3. QED
  BY <1>1, <1>2

LEMMA FreshKept == Fresh => ScopesBelow /\ TokensKept
<1> SUFFICES ASSUME Fresh PROVE ScopesBelow /\ TokensKept
  OBVIOUS
<1>1. luaStack = <<>> /\ tokens = 0 /\ DOMAIN luaStack = {}
  BY DEF Fresh
<1>2. ScopesBelow
  BY <1>1 DEF ScopesBelow, StartsFrom, ScopeCoversSubtree
<1>3. Toks \in Seq(Seq(Nat)) /\ FlattenSeq(Toks) = <<>>
  <2>1. 0 \in Nat /\ Toks \in [1 .. 0 -> Seq(Nat)]
    BY <1>1 DEF Toks
  <2> HIDE DEF Toks
  <2>2. Toks \in Seq(Seq(Nat)) /\ Len(Toks) = 0
    BY <2>1, ListIsSeq
  <2>3. QED
    BY <2>2, FlattenType
<1>4. [i \in 1 .. tokens |-> i] = <<>>
  BY <1>1
<1>5. TokensInOrder
  BY <1>3, <1>4 DEF TokensInOrder, Toks
<1>6. QED
  BY <1>2, <1>3, <1>5 DEF TokensKept

LEMMA FreshKeptNext == Fresh' => (ScopesBelow /\ TokensKept)'
  BY FreshKept, PTL

LEMMA NewContextKept ==
  ASSUME NewContext
  PROVE  ScopesBelow' /\ TokensKept'
<1>1. Fresh'
  BY DEF Fresh, NewContext, NewState
<1>2. QED
  BY <1>1, FreshKeptNext

LEMMA CompilerInductive == CompilerSpec => [](Inductive /\ ScopesBelow /\ TokensKept)
<1>1. CompilerInit => Inductive /\ ScopesBelow /\ TokensKept
  BY InitInductive, InitScopesBelow, InitTokensKept DEF CompilerInit
<1>2. Inductive /\ ScopesBelow /\ TokensKept /\ [CompilerNext]_allVars
        => Inductive' /\ ScopesBelow' /\ TokensKept'
  BY CompilerStep, NextInductive, NextScopesBelow, NextTokensKept,
     NewContextInductive, NewContextKept
<1>3. QED
  BY <1>1, <1>2, PTL DEF CompilerSpec

(* In every run of a compiler the states account for every element of the  *)
(* Lua stack.                                                              *)
THEOREM ElementsAccountedInEveryRun == CompilerSpec => []StackAgrees
<1>1. Inductive => StackAgrees
  BY DEF Inductive, Accounted, Linked, StackAgrees
<1>2. QED
  BY <1>1, CompilerInductive, PTL

(* In every run of a compiler the scopes of the nodes are not empty and    *)
(* nested.                                                                 *)
THEOREM ScopesNestedInEveryRun == CompilerSpec => []ScopesNested
<1>1. Inductive => ScopesNested
  BY DEF Inductive
<1>2. QED
  BY <1>1, CompilerInductive, PTL

(* In every run of a compiler the scope of a node includes the scopes and  *)
(* steps of the nodes below it.                                            *)
THEOREM ScopesCoverInEveryRun == CompilerSpec => []ScopeCoversSubtree
<1>1. ScopesBelow => ScopeCoversSubtree
  BY DEF ScopesBelow
<1>2. QED
  BY <1>1, CompilerInductive, PTL

(* In every run of a compiler the nodes have the tokens of the source,     *)
(* each once and in their order.                                           *)
THEOREM TokensInOrderInEveryRun == CompilerSpec => []TokensInOrder
<1>1. TokensKept => TokensInOrder
  BY DEF TokensKept
<1>2. QED
  BY <1>1, CompilerInductive, PTL

-----------------------------------------------------------------------------
(* The context of a run.  What the compiler puts back when a function      *)
(* returns is what the frames have kept: the frame of a function below the *)
(* one on top keeps step 0, each keeps the scope of the function that      *)
(* traverses its node, and one that did not open a scope runs in the scope *)
(* it kept.                                                                *)
Stages == {"none", "idle", "parse", "call"}

Kept(fs, scope, step) ==
  /\ Len(fs) <= 1 => scope = Global /\ step = 0
  /\ Len(fs) >= 2 => /\ fs[2].scope_bk = Global /\ fs[2].step_bk = 0
                     /\ ~fs[Len(fs)].inScope => scope = fs[Len(fs)].scope_bk
  /\ \A i \in 2 .. Len(fs) - 1 : ~fs[i].inScope => fs[i + 1].scope_bk = fs[i].scope_bk

ContextKept ==
  /\ stage \in Stages
  /\ \E S : frames \in Seq(S)
  /\ stage # "call" => frames = <<>>
  /\ clean => /\ Kept(frames, curScope, curStep)
              /\ stage \in {"none", "idle"} => printFn = "console" /\ debugFile = "none"
              /\ stage \in {"parse", "call"} => savedPrint = "console"

\* The frames up to k are the same calls, whatever they have seen and set
Alike(fs, gs, k) ==
  \A i \in 1 .. k : /\ gs[i].inScope = fs[i].inScope /\ gs[i].node = fs[i].node
                    /\ gs[i].scope_bk = fs[i].scope_bk /\ gs[i].step_bk = fs[i].step_bk

LEMMA KeptAlike ==
  ASSUME NEW fs, NEW gs, NEW scope, NEW step, Len(fs) \in Nat, Len(gs) = Len(fs),
         Alike(fs, gs, Len(fs)), Kept(fs, scope, step)
  PROVE  Kept(gs, scope, step)
BY DEF Alike, Kept

LEMMA KeptPush ==
  ASSUME NEW fs, NEW gs, NEW scope, NEW step, NEW newScope, NEW newStep,
         Len(fs) \in Nat, Len(fs) >= 1, Len(gs) = Len(fs) + 1, Alike(fs, gs, Len(fs)),
         gs[Len(gs)].scope_bk = scope, gs[Len(gs)].step_bk = step,
         gs[Len(gs)].inScope \/ newScope = scope,
         Kept(fs, scope, step)
  PROVE  Kept(gs, newScope, newStep)
<1>1. Len(gs) >= 2 /\ Len(gs) \in Nat
  OBVIOUS
<1>2. gs[2].scope_bk = Global /\ gs[2].step_bk = 0
  <2>1. Len(fs) = 1 => gs[2].scope_bk = Global /\ gs[2].step_bk = 0
    BY DEF Kept
  <2>2. Len(fs) >= 2 => gs[2].scope_bk = fs[2].scope_bk /\ gs[2].step_bk = fs[2].step_bk
    BY DEF Alike
  <2>3. Len(fs) >= 2 => fs[2].scope_bk = Global /\ fs[2].step_bk = 0
    BY DEF Kept
  <2>4. Len(fs) = 1 \/ Len(fs) >= 2
    <3>1. \A n \in Nat : n >= 1 => n = 1 \/ n >= 2
      OBVIOUS
    <3>2. QED
      BY <3>1
  <2>5. QED
    BY <2>1, <2>2, <2>3, <2>4
<1>3. ASSUME NEW i \in 2 .. Len(gs) - 1, ~gs[i].inScope
      PROVE  gs[i + 1].scope_bk = gs[i].scope_bk
  <2>1. CASE i = Len(fs)
    BY <1>3, <2>1 DEF Kept, Alike
  <2>2. CASE i < Len(fs)
    BY <1>3, <2>2 DEF Kept, Alike
  <2>3. QED
    BY <1>3, <2>1, <2>2
<1>4. QED
  BY <1>1, <1>2, <1>3 DEF Kept

LEMMA KeptPop ==
  ASSUME NEW fs, NEW gs, NEW scope, NEW step, NEW newScope, NEW newStep,
         Len(fs) \in Nat, Len(fs) >= 1, Len(gs) = Len(fs) - 1, Alike(fs, gs, Len(gs)),
         Len(fs) = 1 => newScope = scope /\ newStep = step,
         Len(fs) # 1 => /\ newScope = IF fs[Len(fs)].inScope THEN fs[Len(fs)].scope_bk ELSE scope
                        /\ newStep = fs[Len(fs)].step_bk,
         Kept(fs, scope, step)
  PROVE  Kept(gs, newScope, newStep)
<1>1. Len(gs) \in Nat
  OBVIOUS
<1>2. CASE Len(fs) = 1
  BY <1>2 DEF Kept
<1>3. CASE Len(fs) >= 2
  <2>1. newScope = fs[Len(fs)].scope_bk /\ newStep = fs[Len(fs)].step_bk
    BY <1>3 DEF Kept
  <2>2. Len(gs) = 1 => newScope = Global /\ newStep = 0
    <3>1. Len(gs) = 1 => Len(fs) = 2
      <4>1. \A m, n \in Nat : m = n - 1 /\ m = 1 => n = 2
        OBVIOUS
      <4>2. QED
        BY <1>1, <4>1
    <3>2. fs[2].scope_bk = Global /\ fs[2].step_bk = 0
      BY <1>3 DEF Kept
    <3>3. QED
      BY <2>1, <3>1, <3>2
  <2>3. ASSUME Len(gs) >= 2
        PROVE  /\ gs[2].scope_bk = Global /\ gs[2].step_bk = 0
               /\ ~gs[Len(gs)].inScope => newScope = gs[Len(gs)].scope_bk
    BY <1>3, <2>1, <2>3 DEF Kept, Alike
  <2>4. \A i \in 2 .. Len(gs) - 1 : ~gs[i].inScope => gs[i + 1].scope_bk = gs[i].scope_bk
    BY <1>3 DEF Kept, Alike
  <2>5. QED
    BY <1>1, <1>3, <2>2, <2>3, <2>4 DEF Kept
<1>4. QED
  BY <1>2, <1>3

LEMMA BumpAlike ==
  ASSUME NEW S, frames \in Seq(S), frames # <<>>
  PROVE  /\ \E T : Bump \in Seq(T)
         /\ Len(Bump) = Len(frames) /\ Alike(frames, Bump, Len(frames))
<1> DEFINE n == Len(frames)
           bumped == [frames[n] EXCEPT !.next = @ + 1]
<1>1. n \in Nat /\ n >= 1 /\ DOMAIN frames = 1 .. n /\ n \in 1 .. n
  OBVIOUS
<1>2. Bump = [frames EXCEPT ![n] = bumped]
  BY DEF Bump
<1>3. /\ bumped.inScope = frames[n].inScope /\ bumped.node = frames[n].node
      /\ bumped.scope_bk = frames[n].scope_bk /\ bumped.step_bk = frames[n].step_bk
  OBVIOUS
<1> HIDE DEF bumped
<1>4. Bump \in Seq(S \cup {bumped})
  <2>1. frames \in Seq(S \cup {bumped})
    OBVIOUS
  <2>2. QED
    BY <1>1, <1>2, <2>1
<1>5. Len(Bump) = n /\ Bump[n] = bumped /\ \A i \in 1 .. n : i # n => Bump[i] = frames[i]
  <2>1. DOMAIN Bump = 1 .. n
    BY <1>1, <1>2
  <2>2. Len(Bump) = n
    BY <1>1, <1>4, <2>1
  <2>3. QED
    BY <1>1, <1>2, <2>2
<1>6. QED
  BY <1>1, <1>3, <1>4, <1>5 DEF Alike

(* What a function does to the frames.                                     *)
LEMMA PushedFrame ==
  ASSUME NEW S, NEW fs \in Seq(S), NEW frame
  PROVE  /\ \E T : Append(fs, frame) \in Seq(T)
         /\ Len(Append(fs, frame)) = Len(fs) + 1
         /\ Append(fs, frame)[Len(fs) + 1] = frame
         /\ \A i \in 1 .. Len(fs) : Append(fs, frame)[i] = fs[i]
<1>1. fs \in Seq(S \cup {frame}) /\ Append(fs, frame) \in Seq(S \cup {frame})
  OBVIOUS
<1>2. QED
  BY <1>1

LEMMA PoppedFrame ==
  ASSUME NEW S, NEW fs \in Seq(S), fs # <<>>
  PROVE  /\ Front(fs) \in Seq(S) /\ Len(Front(fs)) = Len(fs) - 1
         /\ \A i \in 1 .. Len(fs) - 1 : Front(fs)[i] = fs[i]
<1> DEFINE m == Len(fs) - 1
<1>1. Len(fs) \in Nat /\ m \in Nat /\ m <= Len(fs)
  OBVIOUS
<1>2. Front(fs) = SubSeq(fs, 1, m)
  BY DEF Front
<1> HIDE DEF m
<1>3. Front(fs) \in Seq(S) /\ Len(Front(fs)) = m /\ \A i \in 1 .. m : Front(fs)[i] = fs[i]
  BY <1>1, <1>2
<1>4. QED
  BY <1>3 DEF m

LEMMA NotedFrames ==
  ASSUME NEW S, frames \in Seq(S), NEW k, NEW v,
         frames' = [i \in DOMAIN frames |-> IF i = k THEN [frames[i] EXCEPT !.object = v] ELSE frames[i]]
  PROVE  /\ \E T : frames' \in Seq(T)
         /\ Len(frames') = Len(frames) /\ Alike(frames, frames', Len(frames))
<1>1. Len(frames) \in Nat /\ DOMAIN frames = 1 .. Len(frames)
  OBVIOUS
<1>2. DOMAIN frames' = 1 .. Len(frames)
  BY <1>1
<1>3. Len(frames') = Len(frames)
  BY <1>1, <1>2
<1>4. frames' \in Seq({frames'[i] : i \in DOMAIN frames'})
  BY <1>1, <1>2
<1>5. ASSUME NEW i \in 1 .. Len(frames)
      PROVE  /\ frames'[i].inScope = frames[i].inScope /\ frames'[i].node = frames[i].node
             /\ frames'[i].scope_bk = frames[i].scope_bk /\ frames'[i].step_bk = frames[i].step_bk
  <2>1. frames'[i] = frames[i] \/ frames'[i] = [frames[i] EXCEPT !.object = v]
    BY <1>1
  <2>2. QED
    BY <2>1
<1>6. QED
  BY <1>3, <1>4, <1>5 DEF Alike

LEMMA ContextInductive ==
  ASSUME ContextKept, [CompilerNext]_allVars
  PROVE  ContextKept'
<1>1. PICK S : frames \in Seq(S)
  BY DEF ContextKept
<1>2. Len(frames) \in Nat /\ (frames = <<>> <=> Len(frames) = 0) /\ (frames # <<>> => Len(frames) >= 1)
  BY <1>1
<1>3. CASE UNCHANGED allVars
  BY <1>3 DEF allVars, compilerVars, ContextKept
<1>4. CASE Fail
  BY <1>4 DEF Fail, ContextKept, Stages
<1>5. CASE mewa_new_compiler \/ mewa_destroy_compiler \/ Parse \/ Parsed
  BY <1>5 DEF mewa_new_compiler, mewa_destroy_compiler, Parse, Parsed, compilerVars, ContextKept, Stages
<1>6. ASSUME NEW debug \in DebugOutputs, StartRun(debug)
      PROVE  ContextKept'
  BY <1>6 DEF StartRun, ContextKept, Stages
<1>7. CASE CallTopNode
  <2> DEFINE frame == Frame(luaStack[top], FALSE)
  <2>1. frames = <<>> /\ frames' = <<frame>> /\ frame.inScope = FALSE
    BY <1>7 DEF CallTopNode, Frame
  <2> HIDE DEF frame
  <2>2. Len(frames') = 1 /\ frames' \in Seq({frame})
    BY <2>1
  <2>3. clean => Kept(frames', curScope, curStep)
    <3>1. clean => curScope = Global /\ curStep = 0
      BY <1>2, <2>1 DEF ContextKept, Kept
    <3>2. QED
      BY <2>2, <3>1 DEF Kept
  <2>4. stage' = stage /\ clean' = clean /\ savedPrint' = savedPrint /\ stage = "call"
        /\ curScope' = curScope /\ curStep' = curStep
    BY <1>7 DEF CallTopNode
  <2>5. \E T : frames' \in Seq(T)
    BY <2>2
  <2>6. QED
    BY <2>3, <2>4, <2>5 DEF ContextKept
<1>8. CASE CallSubnode
  <2> DEFINE f     == Last(frames)
             child == f.node.args[f.next]
             frame == Frame(child, child.isScope)
  <2>1. /\ frames # <<>> /\ stage = "call" /\ stage' = stage /\ clean' = clean
        /\ savedPrint' = savedPrint
    BY <1>8 DEF CallSubnode, Running
  <2>2. /\ \E T : Bump \in Seq(T)
        /\ Len(Bump) = Len(frames) /\ Alike(frames, Bump, Len(frames))
    BY <1>1, <2>1, BumpAlike
  <2>3. CASE IsLexem(child)
    <3>1. frames' = Bump /\ curScope' = curScope /\ curStep' = curStep
      BY <1>8, <2>3 DEF CallSubnode
    <3>2. clean => Kept(frames', curScope, curStep)
      BY <1>2, <2>2, <3>1, KeptAlike DEF ContextKept
    <3>3. QED
      BY <2>1, <2>2, <3>1, <3>2 DEF ContextKept
  <2>4. CASE ~IsLexem(child)
    <3>1. frames' = Append(Bump, frame)
      BY <1>8, <2>4 DEF CallSubnode
    <3>2. child.isScope \/ curScope' = curScope
      BY <1>8, <2>4 DEF CallSubnode, SetStep
    <3>3. frame.scope_bk = curScope /\ frame.step_bk = curStep /\ frame.inScope = child.isScope
      BY DEF Frame
    <3> HIDE DEF f, child, frame
    <3>4. /\ \E T : frames' \in Seq(T)
          /\ Len(frames') = Len(frames) + 1 /\ frames'[Len(frames) + 1] = frame
          /\ \A i \in 1 .. Len(frames) : frames'[i] = Bump[i]
      <4>1. PICK T : Bump \in Seq(T)
        BY <2>2
      <4>2. /\ \E U : Append(Bump, frame) \in Seq(U)
            /\ Len(Append(Bump, frame)) = Len(Bump) + 1
            /\ Append(Bump, frame)[Len(Bump) + 1] = frame
            /\ \A i \in 1 .. Len(Bump) : Append(Bump, frame)[i] = Bump[i]
        BY <4>1, PushedFrame, ZenonT(30)
      <4>3. QED
        BY <2>2, <3>1, <4>2
    <3>5. Alike(frames, frames', Len(frames))
      BY <2>2, <3>4 DEF Alike
    <3>6. frames'[Len(frames')].inScope \/ curScope' = curScope
      BY <3>2, <3>3, <3>4
    <3>7. frames'[Len(frames')].scope_bk = curScope /\ frames'[Len(frames')].step_bk = curStep
      BY <3>3, <3>4
    <3>8. clean => Kept(frames', curScope', curStep')
      BY <1>2, <2>1, <3>4, <3>5, <3>6, <3>7, KeptPush DEF ContextKept
    <3>9. QED
      BY <2>1, <3>4, <3>8 DEF ContextKept
  <2>5. QED
    BY <2>3, <2>4
<1>9. CASE Return
  <2>1. /\ frames # <<>> /\ stage = "call" /\ stage' = stage /\ clean' = clean
        /\ savedPrint' = savedPrint /\ frames' = Front(frames) /\ PutBack(Last(frames))
    BY <1>9 DEF Return, Running
  <2>2. /\ frames' \in Seq(S) /\ Len(frames') = Len(frames) - 1
        /\ \A i \in 1 .. Len(frames) - 1 : frames'[i] = frames[i]
    BY <1>1, <2>1, PoppedFrame
  <2>3. Alike(frames, frames', Len(frames'))
    BY <2>2 DEF Alike
  <2>4. /\ Len(frames) = 1 => curScope' = curScope /\ curStep' = curStep
        /\ Len(frames) # 1 =>
             /\ curScope' = IF frames[Len(frames)].inScope THEN frames[Len(frames)].scope_bk ELSE curScope
             /\ curStep' = frames[Len(frames)].step_bk
    BY <2>1 DEF PutBack, SetScope, SetStep, Last
  <2>5. clean => Kept(frames', curScope', curStep')
    BY <1>2, <2>1, <2>2, <2>3, <2>4, KeptPop DEF ContextKept
  <2>6. QED
    BY <2>1, <2>2, <2>5 DEF ContextKept
<1>10. CASE set_instance
  <2>1. /\ stage' = stage /\ clean' = clean /\ savedPrint' = savedPrint /\ stage = "call"
        /\ curScope' = curScope /\ curStep' = curStep
        /\ frames' = [i \in DOMAIN frames |-> IF i = ScopeFrame THEN [frames[i] EXCEPT !.object = calls']
                                              ELSE frames[i]]
    BY <1>10 DEF set_instance, Call, Running
  <2>2. /\ \E T : frames' \in Seq(T)
        /\ Len(frames') = Len(frames) /\ Alike(frames, frames', Len(frames))
    BY <1>1, <2>1, NotedFrames
  <2>3. clean => Kept(frames', curScope', curStep')
    BY <1>2, <2>1, <2>2, KeptAlike DEF ContextKept
  <2>4. QED
    BY <2>1, <2>2, <2>3 DEF ContextKept
<1>11. CASE print \/ \E section \in Sections : print_section(section)
  BY <1>11 DEF print, print_section, ContextKept
<1>12. CASE FinishRun
  BY <1>12 DEF FinishRun, CallsDone, ContextKept, Stages
<1>13. CASE WriteFailed
  BY <1>13 DEF WriteFailed, CallsDone, ContextKept, Stages
<1>14. QED
  BY <1>3, <1>4, <1>5, <1>6, <1>7, <1>8, <1>9, <1>10, <1>11, <1>12, <1>13
     DEF CompilerNext, ParsingFailed, TopNodeWithoutFunction, Raise

LEMMA ContextStart == CompilerInit => ContextKept
<1> SUFFICES ASSUME CompilerInit PROVE ContextKept
  OBVIOUS
<1>1. frames = <<>> /\ Len(frames) = 0 /\ frames \in Seq({})
  BY DEF CompilerInit
<1>2. QED
  BY <1>1 DEF CompilerInit, ContextKept, Kept, Stages

(* As long as no run failed, a function called on top and a run leave the  *)
(* scope, the step, print and the debug output as they found them.         *)
THEOREM ContextAlwaysRestored == CompilerSpec => []ContextRestored
<1>1. ContextKept => ContextRestored
  BY DEF ContextKept, ContextRestored, Kept
<1>2. QED
  BY <1>1, ContextStart, ContextInductive, PTL DEF CompilerSpec

-----------------------------------------------------------------------------
(* The output.  What the functions of the first run print is in the buffer *)
(* of the section "Code" or in the sections until the run is finished.     *)
Texts == Seq(Nat)

SameTexts(text, kept, buffer) ==
  /\ ToSet(text) = ToSet(kept) \cup ToSet(buffer)
  /\ Len(text) = Len(kept) + Len(buffer)

BufferOf(section) == IF section = "Code" THEN outputBuffer ELSE <<>>

OutputKept ==
  /\ stage \in Stages /\ calls \in Nat
  /\ outputBuffer \in Texts
  /\ outputSections \in [Sections -> Texts] /\ output \in [Sections -> Texts]
  /\ printed \in [no : Nat, text : [Sections -> Texts]]
  /\ stage \in {"parse", "call"} => printed.no # 0
  /\ stage = "idle" /\ printed.no = 0 =>
       outputBuffer = <<>> /\ outputSections = NoText /\ printed.text = NoText
  /\ stage \in {"parse", "call"} /\ printed.no = 1 =>
       \A s \in Sections : SameTexts(printed.text[s], outputSections[s], BufferOf(s))
  /\ clean /\ stage = "idle" /\ printed.no = 1 =>
       \A s \in Sections : SameTexts(printed.text[s], output[s], <<>>)

LEMMA AppendedText ==
  ASSUME NEW text \in Texts, NEW kept \in Texts, NEW buffer \in Texts, NEW c \in Nat,
         SameTexts(text, kept, buffer)
  PROVE  /\ SameTexts(Append(text, c), Append(kept, c), buffer)
         /\ SameTexts(Append(text, c), kept, Append(buffer, c))
<1>1. \A t \in Texts : /\ ToSet(Append(t, c)) = ToSet(t) \cup {c}
                       /\ Len(Append(t, c)) = Len(t) + 1 /\ Len(t) \in Nat
  <2> SUFFICES ASSUME NEW t \in Seq(Nat)
               PROVE  /\ ToSet(Append(t, c)) = ToSet(t) \cup {c}
                      /\ Len(Append(t, c)) = Len(t) + 1 /\ Len(t) \in Nat
    BY DEF Texts
  <2>1. /\ Len(t) \in Nat /\ DOMAIN t = 1 .. Len(t) /\ Append(t, c) \in Seq(Nat)
        /\ Len(Append(t, c)) = Len(t) + 1
    OBVIOUS
  <2>2. DOMAIN Append(t, c) = 1 .. Len(t) + 1
    BY <2>1
  <2>3. Append(t, c)[Len(t) + 1] = c /\ \A i \in 1 .. Len(t) : Append(t, c)[i] = t[i]
    OBVIOUS
  <2>4. ToSet(Append(t, c)) = ToSet(t) \cup {c}
    BY <2>1, <2>2, <2>3 DEF ToSet
  <2>5. QED
    BY <2>1, <2>4
<1>2. QED
  BY <1>1 DEF SameTexts

LEMMA JoinedText ==
  ASSUME NEW text \in Texts, NEW kept \in Texts, NEW buffer \in Texts,
         SameTexts(text, kept, buffer)
  PROVE  SameTexts(text, kept \o buffer, <<>>)
<1>1. /\ Len(kept) \in Nat /\ Len(buffer) \in Nat
      /\ DOMAIN kept = 1 .. Len(kept) /\ DOMAIN buffer = 1 .. Len(buffer)
      /\ Len(kept \o buffer) = Len(kept) + Len(buffer)
      /\ kept \o buffer \in Seq(Nat)
  BY DEF Texts
<1>2. DOMAIN (kept \o buffer) = 1 .. Len(kept) + Len(buffer)
  BY <1>1
<1>3. /\ \A i \in 1 .. Len(kept) : (kept \o buffer)[i] = kept[i]
      /\ \A i \in 1 .. Len(buffer) : (kept \o buffer)[Len(kept) + i] = buffer[i]
  <2>1. \A i \in 1 .. Len(kept) + Len(buffer) :
          (kept \o buffer)[i] = IF i <= Len(kept) THEN kept[i] ELSE buffer[i - Len(kept)]
    BY ConcatProperties DEF Texts
  <2>2. \A m, n \in Nat : \A i \in 1 .. n : m + i \in 1 .. m + n /\ ~(m + i <= m) /\ (m + i) - m = i
    OBVIOUS
  <2>3. \A m, n \in Nat : \A i \in 1 .. m : i \in 1 .. m + n /\ i <= m
    OBVIOUS
  <2>4. QED
    BY <1>1, <2>1, <2>2, <2>3
<1>4. \A m, n \in Nat : \A i \in 1 .. m + n : i \in 1 .. m \/ \E j \in 1 .. n : i = m + j
  <2> SUFFICES ASSUME NEW m \in Nat, NEW n \in Nat, NEW i \in 1 .. m + n, ~(i <= m)
               PROVE  \E j \in 1 .. n : i = m + j
    OBVIOUS
  <2>1. i - m \in 1 .. n /\ i = m + (i - m)
    OBVIOUS
  <2>2. QED
    BY <2>1
<1>5. ToSet(kept \o buffer) \subseteq ToSet(kept) \cup ToSet(buffer)
  BY <1>1, <1>2, <1>3, <1>4 DEF ToSet
<1>6. \A m, n \in Nat : \A j \in 1 .. n : m + j \in 1 .. m + n
  OBVIOUS
<1>7. \A m, n \in Nat : \A j \in 1 .. m : j \in 1 .. m + n
  OBVIOUS
<1>8. ToSet(kept) \cup ToSet(buffer) \subseteq ToSet(kept \o buffer)
  BY <1>1, <1>2, <1>3, <1>6, <1>7 DEF ToSet
<1>9. ToSet(<<>>) = {} /\ Len(<<>>) = 0
  BY DEF ToSet
<1>10. QED
  BY <1>1, <1>5, <1>8, <1>9 DEF SameTexts

LEMMA NotedTypes ==
  ASSUME OutputKept, NEW section \in Sections, calls' \in Nat, Note(section)
  PROVE  printed' \in [no : Nat, text : [Sections -> Texts]] /\ printed'.no = printed.no
<1>1. /\ printed.no \in Nat /\ printed.text \in [Sections -> Texts]
      /\ printed = [no |-> printed.no, text |-> printed.text]
  BY DEF OutputKept
<1>2. CASE printed.no = 1
  <2> DEFINE text == [printed.text EXCEPT ![section] = Append(@, calls')]
  <2>1. printed' = [printed EXCEPT !.text = text]
    BY <1>2 DEF Note
  <2>2. text \in [Sections -> Texts]
    BY <1>1 DEF Texts
  <2> HIDE DEF text
  <2>3. QED
    BY <1>1, <2>1, <2>2
<1>3. CASE printed.no # 1
  BY <1>1, <1>3 DEF Note
<1>4. QED
  BY <1>2, <1>3

LEMMA NotedText ==
  ASSUME OutputKept, NEW section \in Sections, Note(section), printed.no = 1
  PROVE  \A s \in Sections : printed'.text[s] = IF s = section THEN Append(printed.text[s], calls')
                                                ELSE printed.text[s]
<1>1. printed.text \in [Sections -> Texts] /\ printed = [no |-> printed.no, text |-> printed.text]
  BY DEF OutputKept
<1>2. printed'.text = [printed.text EXCEPT ![section] = Append(@, calls')]
  BY <1>1 DEF Note
<1>3. QED
  BY <1>1, <1>2

LEMMA PrintInductive ==
  ASSUME OutputKept, print
  PROVE  OutputKept'
<1>1. /\ stage = "call" /\ stage' = stage /\ calls' \in Nat
      /\ outputBuffer' = Append(outputBuffer, calls') /\ Note("Code")
      /\ outputSections' = outputSections /\ output' = output /\ clean' = clean
  BY DEF print, Call, Running, OutputKept
<1>2. "Code" \in Sections
  BY DEF Sections
<1>3. printed' \in [no : Nat, text : [Sections -> Texts]] /\ printed'.no = printed.no
  BY <1>1, <1>2, NotedTypes
<1>4. ASSUME printed.no = 1, NEW s \in Sections
      PROVE  SameTexts(printed'.text[s], outputSections[s], BufferOf(s)')
  <2>1. SameTexts(printed.text[s], outputSections[s], BufferOf(s))
    BY <1>1, <1>4 DEF OutputKept
  <2>2. printed'.text[s] = IF s = "Code" THEN Append(printed.text[s], calls') ELSE printed.text[s]
    BY <1>1, <1>2, <1>4, NotedText
  <2>3. printed.text[s] \in Texts /\ outputSections[s] \in Texts /\ outputBuffer \in Texts
    BY DEF OutputKept
  <2>4. s = "Code" => SameTexts(Append(printed.text[s], calls'), outputSections[s], Append(outputBuffer, calls'))
    BY <1>1, <2>1, <2>3, AppendedText DEF BufferOf
  <2>5. QED
    BY <1>1, <2>1, <2>2, <2>4 DEF BufferOf
<1>5. outputBuffer' \in Texts
  BY <1>1 DEF OutputKept, Texts
<1>6. QED
  BY <1>1, <1>3, <1>4, <1>5 DEF OutputKept

LEMMA PrintSectionInductive ==
  ASSUME OutputKept, NEW section \in Sections, print_section(section)
  PROVE  OutputKept'
<1>1. /\ stage = "call" /\ stage' = stage /\ calls' \in Nat
      /\ outputSections' = [outputSections EXCEPT ![section] = Append(@, calls')] /\ Note(section)
      /\ outputBuffer' = outputBuffer /\ output' = output /\ clean' = clean
  BY DEF print_section, Call, Running, OutputKept
<1>2. printed' \in [no : Nat, text : [Sections -> Texts]] /\ printed'.no = printed.no
  BY <1>1, NotedTypes
<1>3. outputSections' \in [Sections -> Texts]
  BY <1>1 DEF OutputKept, Texts
<1>4. ASSUME printed.no = 1, NEW s \in Sections
      PROVE  SameTexts(printed'.text[s], outputSections'[s], BufferOf(s)')
  <2>1. SameTexts(printed.text[s], outputSections[s], BufferOf(s))
    BY <1>1, <1>4 DEF OutputKept
  <2>2. printed'.text[s] = IF s = section THEN Append(printed.text[s], calls') ELSE printed.text[s]
    BY <1>1, <1>4, NotedText
  <2>3. printed.text[s] \in Texts /\ outputSections[s] \in Texts /\ BufferOf(s) \in Texts
    BY DEF OutputKept, BufferOf, Texts
  <2>4. SameTexts(Append(printed.text[s], calls'), Append(outputSections[s], calls'), BufferOf(s))
    BY <1>1, <2>1, <2>3, AppendedText
  <2>5. outputSections'[s] = IF s = section THEN Append(outputSections[s], calls') ELSE outputSections[s]
    BY <1>1 DEF OutputKept
  <2>6. BufferOf(s)' = BufferOf(s)
    BY <1>1 DEF BufferOf
  <2>7. QED
    BY <2>1, <2>2, <2>4, <2>5, <2>6
<1>5. QED
  BY <1>1, <1>2, <1>3, <1>4 DEF OutputKept

LEMMA MappedTypes ==
  ASSUME OutputKept
  PROVE  Mapped \in [Sections -> Texts]
<1>1. outputSections["Code"] \in Texts /\ outputBuffer \in Texts
  BY DEF OutputKept, Sections
<1> DEFINE code == outputSections["Code"] \o outputBuffer
<1>2. code \in Texts
  BY <1>1, ConcatProperties DEF Texts
<1>3. Mapped = [outputSections EXCEPT !["Code"] = code]
  BY DEF Mapped
<1> HIDE DEF code
<1>4. QED
  BY <1>2, <1>3 DEF OutputKept

LEMMA FinishInductive ==
  ASSUME OutputKept, FinishRun
  PROVE  OutputKept'
<1>1. /\ stage = "call" /\ stage' = "idle" /\ outputSections' = Mapped /\ output' = Mapped
      /\ outputBuffer' = outputBuffer /\ calls' = calls /\ printed' = printed
  BY DEF FinishRun, CallsDone
<1>2. \A s \in Sections : outputSections[s] \in Texts /\ outputBuffer \in Texts /\ printed.text[s] \in Texts
  BY DEF OutputKept
<1>3. Mapped \in [Sections -> Texts]
  BY MappedTypes
<1>4. ASSUME printed.no = 1, NEW s \in Sections
      PROVE  SameTexts(printed.text[s], Mapped[s], <<>>)
  <2>1. SameTexts(printed.text[s], outputSections[s], BufferOf(s))
    BY <1>1, <1>4 DEF OutputKept
  <2>2. Mapped[s] = IF s = "Code" THEN outputSections[s] \o outputBuffer ELSE outputSections[s]
    BY DEF Mapped, OutputKept
  <2>3. s = "Code" => SameTexts(printed.text[s], outputSections[s] \o outputBuffer, <<>>)
    BY <1>2, <2>1, JoinedText DEF BufferOf
  <2>4. QED
    BY <2>1, <2>2, <2>3 DEF BufferOf
<1>5. QED
  BY <1>1, <1>3, <1>4 DEF OutputKept, Stages

LEMMA OutputInductive ==
  ASSUME OutputKept, [CompilerNext]_allVars
  PROVE  OutputKept'
<1>1. CASE UNCHANGED allVars
  BY <1>1 DEF allVars, compilerVars, OutputKept, BufferOf
<1>2. CASE ParsingFailed \/ TopNodeWithoutFunction \/ Raise
  BY <1>2 DEF ParsingFailed, TopNodeWithoutFunction, Raise, Running, Fail, OutputKept, Stages, BufferOf
<1>3. CASE mewa_new_compiler
  <2>1. /\ stage' = "idle" /\ outputBuffer' = <<>> /\ outputSections' = NoText
        /\ printed' = [no |-> 0, text |-> NoText] /\ calls' = calls /\ output' = output
    BY <1>3 DEF mewa_new_compiler
  <2>2. <<>> \in Texts /\ NoText \in [Sections -> Texts]
    BY DEF Texts, NoText
  <2>3. /\ printed'.no = 0 /\ printed'.text = NoText
        /\ printed' \in [no : Nat, text : [Sections -> Texts]]
    BY <2>1, <2>2
  <2>4. QED
    BY <2>1, <2>2, <2>3 DEF OutputKept, Stages
<1>4. CASE mewa_destroy_compiler
  BY <1>4 DEF mewa_destroy_compiler, OutputKept, Stages, BufferOf
<1>5. ASSUME NEW debug \in DebugOutputs, StartRun(debug)
      PROVE  OutputKept'
  <2>1. /\ stage = "idle" /\ stage' = "parse" /\ calls' = calls /\ outputBuffer' = outputBuffer
        /\ outputSections' = outputSections /\ output' = output
        /\ printed' = [printed EXCEPT !.no = @ + 1]
    BY <1>5 DEF StartRun
  <2>2. printed.no \in Nat /\ printed = [no |-> printed.no, text |-> printed.text]
        /\ printed.text \in [Sections -> Texts]
    BY DEF OutputKept
  <2>3. printed'.no = printed.no + 1 /\ printed'.text = printed.text
        /\ printed' \in [no : Nat, text : [Sections -> Texts]]
    BY <2>1, <2>2
  <2>4. ASSUME printed'.no = 1, NEW s \in Sections
        PROVE  SameTexts(printed'.text[s], outputSections[s], BufferOf(s))
    <3>1. printed.no = 0
      BY <2>2, <2>3, <2>4
    <3>2. outputSections = NoText /\ outputBuffer = <<>> /\ printed'.text = NoText
      BY <2>1, <2>3, <3>1 DEF OutputKept
    <3>3. printed'.text[s] = <<>> /\ outputSections[s] = <<>> /\ BufferOf(s) = <<>>
      BY <3>2 DEF NoText, BufferOf
    <3>4. SameTexts(<<>>, <<>>, <<>>)
      BY DEF SameTexts, ToSet
    <3>5. QED
      BY <3>3, <3>4
  <2>5. BufferOf("Code")' = BufferOf("Code") /\ \A s : BufferOf(s)' = BufferOf(s)
    BY <2>1 DEF BufferOf
  <2>6. printed'.no # 0
    BY <2>2, <2>3
  <2>7. QED
    BY <2>1, <2>3, <2>4, <2>5, <2>6 DEF OutputKept, Stages
<1>6. CASE Parse
  BY <1>6 DEF Parse, compilerVars, OutputKept, BufferOf
<1>7. CASE Parsed
  BY <1>7 DEF Parsed, compilerVars, OutputKept, BufferOf, Stages
<1>8. CASE CallTopNode \/ CallSubnode \/ Return
  <2>1. UNCHANGED <<stage, outputBuffer, outputSections, output, printed, calls, clean>>
    BY <1>8 DEF CallTopNode, CallSubnode, Return
  <2>2. QED
    BY <2>1 DEF OutputKept, BufferOf
<1>9. CASE set_instance
  BY <1>9 DEF set_instance, Call, Running, OutputKept, BufferOf
<1>10. CASE WriteFailed
  <2>1. /\ stage' = "idle" /\ stage = "call" /\ outputSections' = Mapped /\ clean' = FALSE
        /\ calls' = calls /\ outputBuffer' = outputBuffer /\ output' = output /\ printed' = printed
    BY <1>10 DEF WriteFailed, CallsDone
  <2>2. Mapped \in [Sections -> Texts]
    BY MappedTypes
  <2>3. QED
    BY <2>1, <2>2 DEF OutputKept, Stages
<1>11. QED
  BY <1>1, <1>2, <1>3, <1>4, <1>5, <1>6, <1>7, <1>8, <1>9, <1>10,
     PrintInductive, PrintSectionInductive, FinishInductive
     DEF CompilerNext

LEMMA OutputStart == CompilerInit => OutputKept
<1> SUFFICES ASSUME CompilerInit PROVE OutputKept
  OBVIOUS
<1>1. <<>> \in Texts /\ NoText \in [Sections -> Texts]
  BY DEF Texts, NoText
<1>2. QED
  BY <1>1 DEF CompilerInit, OutputKept, Stages

(* The output a first run that succeeds leaves has every text its          *)
(* functions printed, with print or with print_section, in its section,    *)
(* and no text twice.                                                      *)
THEOREM FirstOutputAlwaysComplete == CompilerSpec => []FirstOutputComplete
<1>1. OutputKept => FirstOutputComplete
  <2> SUFFICES ASSUME OutputKept, clean, stage = "idle", printed.no = 1, NEW s \in Sections
               PROVE  /\ ToSet(output[s]) = ToSet(printed.text[s])
                      /\ Len(output[s]) = Len(printed.text[s])
    BY DEF FirstOutputComplete
  <2>1. SameTexts(printed.text[s], output[s], <<>>)
    BY DEF OutputKept
  <2>2. output[s] \in Seq(Nat)
    BY DEF OutputKept, Texts
  <2>3. ToSet(<<>>) = {} /\ Len(<<>>) = 0 /\ Len(output[s]) \in Nat
    BY <2>2 DEF ToSet
  <2>4. QED
    BY <2>1, <2>3 DEF SameTexts
<1>2. QED
  BY <1>1, OutputStart, OutputInductive, PTL DEF CompilerSpec

-----------------------------------------------------------------------------
(* The traversal of the AST.  The frames fs are a path in the tree: each   *)
(* is the call of an argument of the node of the one before, the first one *)
(* of an element of the Lua stack.  The scope and the step set are those   *)
(* of the last frame, or the ones of the frame around it that it left.     *)
InnermostOf(fs, i, scope) ==
  \/ \E h \in 1 .. i : /\ fs[h].inScope /\ scope = fs[h].node.scope
                       /\ \A j \in h + 1 .. i : ~fs[j].inScope
  \/ (\A j \in 1 .. i : ~fs[j].inScope) /\ scope = Global

StepOf(fs, i) ==
  IF i <= 1 THEN 0
  ELSE IF fs[i].inScope THEN DefaultStep(fs[i].node.scope) ELSE fs[i].node.scope.start

\* Where the call of the node of a frame was found
Called(fs, i) == fs[i].node.args[fs[i].next - 1]

Path(fs, t, lua, W, op) ==
  /\ Len(fs) \in Nat /\ DOMAIN fs = 1 .. Len(fs) /\ t \in Nat \ {0} /\ DOMAIN lua \subseteq Nat
  /\ \A i \in DOMAIN fs : /\ fs[i].node \in W /\ fs[i].next \in Nat \ {0}
                          /\ fs[i].inScope <=> (i # 1 /\ fs[i].node.isScope)
                          /\ t - 1 \in DOMAIN lua /\ op[fs[i].node] \subseteq op[lua[t - 1]]
  /\ \A i, j \in DOMAIN fs : i < j =>
       /\ fs[i].next - 1 \in DOMAIN fs[i].node.args
       /\ op[fs[j].node] \subseteq op[Called(fs, i)]
       /\ Extent(fs[j].node) \subseteq Extent(Called(fs, i))

PutBackRight(fs, scope, step) ==
  /\ InnermostOf(fs, Len(fs), scope) /\ step = StepOf(fs, Len(fs))
  /\ \A i \in 2 .. Len(fs) :
       InnermostOf(fs, i - 1, fs[i].scope_bk) /\ fs[i].step_bk = StepOf(fs, i - 1)

(* A scope that was left: it ended where the nodes that run are, and       *)
(* before those that are still to be called.                               *)
Passed(fs, t, lua, s) ==
  /\ \A i \in 2 .. Len(fs) : s.end <= StepOf(fs, i)
  /\ \A i \in DOMAIN fs : \A k \in DOMAIN fs[i].node.args :
       k >= fs[i].next => Before({s}, Extent(fs[i].node.args[k]))
  /\ \A e \in DOMAIN lua : e >= t => Before({s}, Extent(lua[e]))

ObjectsKept(fs, t, lua, obj) ==
  /\ \A s \in DOMAIN obj : obj[s] \in Nat \ {0} /\ s \in Scope
  /\ \A i \in DOMAIN fs : fs[i].inScope =>
       fs[i].object = IF fs[i].node.scope \in DOMAIN obj THEN obj[fs[i].node.scope] ELSE 0
  /\ \A s \in DOMAIN obj :
       \/ s = Global
       \/ \E i \in DOMAIN fs : fs[i].inScope /\ s = fs[i].node.scope
       \/ Passed(fs, t, lua, s)

Traversal(W, op, lua, fs, t, obj, scope, step) ==
  /\ Forest(W, op) /\ Standing(lua, W, op)
  /\ Path(fs, t, lua, W, op) /\ PutBackRight(fs, scope, step) /\ ObjectsKept(fs, t, lua, obj)

\* The first m frames are the same calls with the same objects set
SameCalls(fs, gs, m) ==
  \A i \in 1 .. m : /\ gs[i].node = fs[i].node /\ gs[i].inScope = fs[i].inScope
                    /\ gs[i].object = fs[i].object
                    /\ gs[i].scope_bk = fs[i].scope_bk /\ gs[i].step_bk = fs[i].step_bk

(* The last frame goes on to its next argument.                            *)
Bumped(fs, gs) ==
  LET n == Len(fs)
  IN  /\ Len(gs) = n /\ DOMAIN gs = 1 .. n /\ SameCalls(fs, gs, n)
      /\ \A i \in 1 .. n - 1 : gs[i].next = fs[i].next
      /\ gs[n].next = fs[n].next + 1

LEMMA AtSame ==
  ASSUME NEW fs, NEW gs, NEW m \in Nat, NEW i \in 0 .. m,
         \A j \in 1 .. m : gs[j].node = fs[j].node /\ gs[j].inScope = fs[j].inScope
  PROVE  /\ StepOf(gs, i) = StepOf(fs, i)
         /\ \A scope : InnermostOf(gs, i, scope) <=> InnermostOf(fs, i, scope)
<1>1. StepOf(gs, i) = StepOf(fs, i)
  <2>1. CASE i <= 1
    BY <2>1 DEF StepOf
  <2>2. CASE ~(i <= 1)
    <3>1. i \in 1 .. m
      BY <2>2
    <3>2. gs[i].node = fs[i].node /\ gs[i].inScope = fs[i].inScope
      BY <3>1
    <3>3. QED
      BY <3>2 DEF StepOf
  <2>3. QED
    BY <2>1, <2>2
<1>2. ASSUME NEW scope
      PROVE  InnermostOf(gs, i, scope) <=> InnermostOf(fs, i, scope)
  <2>1. \A j \in 1 .. i : gs[j].node = fs[j].node /\ gs[j].inScope = fs[j].inScope
    OBVIOUS
  <2>2. \A h \in 1 .. i : \A j \in h + 1 .. i : j \in 1 .. i
    OBVIOUS
  <2>3. QED
    BY <2>1, <2>2 DEF InnermostOf
<1>3. QED
  BY <1>1, <1>2

(* The scopes around a frame end behind those of the frames inside.        *)
LEMMA InsideOf ==
  ASSUME NEW W, NEW op, NEW lua, NEW fs, NEW t, Forest(W, op), Path(fs, t, lua, W, op),
         NEW i \in DOMAIN fs, NEW j \in DOMAIN fs, i < j
  PROVE  /\ \A s \in op[fs[j].node] :
              s.end \in Nat /\ IF fs[i].node.isScope THEN s.end < fs[i].node.scope.end
                              ELSE s.end <= fs[i].node.scope.start
         /\ fs[i].node.isScope =>
              \A s \in Extent(fs[j].node) :
                fs[i].node.scope.start <= s.start /\ s.end <= fs[i].node.scope.end
<1> DEFINE node == fs[i].node
           k    == fs[i].next - 1
<1>1. node \in W /\ k \in DOMAIN node.args /\ Orderly(op, node) /\ node.args[k] \in W
  BY DEF Path, Forest
<1>2. op[fs[j].node] \subseteq op[node.args[k]] /\ Extent(fs[j].node) \subseteq Extent(node.args[k])
  BY DEF Path, Called
<1>3. Orderly(op, fs[j].node)
  BY DEF Path, Forest
<1> HIDE DEF node, k
<1>4. \A s \in op[fs[j].node] : s.end \in Nat
  BY <1>3 DEF Orderly, Scope
<1>5. \A s \in op[fs[j].node] : IF node.isScope THEN s.end < node.scope.end ELSE s.end <= node.scope.start
  BY <1>1, <1>2 DEF Orderly
<1>6. node.isScope => \A s \in Extent(fs[j].node) : node.scope.start <= s.start /\ s.end <= node.scope.end
  BY <1>1, <1>2 DEF Orderly
<1>7. QED
  BY <1>4, <1>5, <1>6 DEF node

(* A function is called on top: what is visible there stays as it is.      *)
LEMMA TopTraversal ==
  ASSUME NEW W, NEW op, NEW lua, NEW fs, NEW t, NEW obj, NEW scope, NEW step,
         Traversal(W, op, lua, fs, t, obj, scope, step), Len(fs) = 0, t \in DOMAIN lua,
         NEW gs, Len(gs) = 1, DOMAIN gs = 1 .. 1,
         gs[1].node = lua[t], gs[1].next = 1, gs[1].inScope = FALSE
  PROVE  Traversal(W, op, lua, gs, t + 1, obj, scope, step)
<1>1. /\ Forest(W, op) /\ Standing(lua, W, op) /\ lua[t] \in W
      /\ Orderly(op, lua[t]) /\ DOMAIN fs = {} /\ t \in Nat \ {0} /\ DOMAIN lua \subseteq Nat
  BY DEF Traversal, Path, Forest, Standing
<1>2. Path(gs, t + 1, lua, W, op)
  <2>1. t + 1 - 1 = t /\ t + 1 \in Nat \ {0}
    BY <1>1
  <2>2. DOMAIN gs = {1} /\ Len(gs) \in Nat /\ DOMAIN gs = 1 .. Len(gs)
    OBVIOUS
  <2>3. \A i, j \in DOMAIN gs : ~(i < j)
    BY <2>2
  <2>4. ASSUME NEW i \in DOMAIN gs
        PROVE  /\ gs[i].node \in W /\ gs[i].next \in Nat \ {0}
               /\ gs[i].inScope <=> (i # 1 /\ gs[i].node.isScope)
               /\ t + 1 - 1 \in DOMAIN lua /\ op[gs[i].node] \subseteq op[lua[t + 1 - 1]]
    BY <1>1, <2>1, <2>2
  <2>5. QED
    BY <1>1, <2>1, <2>2, <2>3, <2>4 DEF Path
<1>3. PutBackRight(gs, scope, step)
  <2>1. InnermostOf(fs, 0, scope) /\ step = StepOf(fs, 0)
    BY DEF Traversal, PutBackRight
  <2>2. scope = Global /\ step = 0
    BY <2>1 DEF InnermostOf, StepOf
  <2>3. InnermostOf(gs, 1, scope) /\ step = StepOf(gs, 1)
    BY <2>2 DEF InnermostOf, StepOf
  <2>4. 2 .. Len(gs) = {}
    OBVIOUS
  <2>5. QED
    BY <2>3, <2>4 DEF PutBackRight
<1>4. ASSUME NEW s, Passed(fs, t, lua, s)
      PROVE  Passed(gs, t + 1, lua, s)
  <2>1. \A e \in DOMAIN lua : e >= t + 1 => Before({s}, Extent(lua[e]))
    <3>1. \A e \in DOMAIN lua : e >= t => Before({s}, Extent(lua[e]))
      BY <1>4 DEF Passed
    <3>2. \A e \in DOMAIN lua : e >= t + 1 => e >= t
      BY <1>1
    <3>3. QED
      BY <3>1, <3>2
  <2>2. Before({s}, Extent(lua[t]))
    <3>1. t >= t
      BY <1>1
    <3>2. QED
      BY <3>1, <1>4 DEF Passed
  <2>3. \A k \in DOMAIN lua[t].args : Before({s}, Extent(lua[t].args[k]))
    BY <1>1, <2>2 DEF Orderly, Before, Extent
  <2>4. DOMAIN gs = {1} /\ 2 .. Len(gs) = {}
    OBVIOUS
  <2>5. QED
    BY <2>1, <2>3, <2>4 DEF Passed
<1>5. ObjectsKept(gs, t + 1, lua, obj)
  <2>1. ObjectsKept(fs, t, lua, obj)
    BY DEF Traversal
  <2>2. DOMAIN gs = {1}
    OBVIOUS
  <2>3. QED
    BY <1>1, <1>4, <2>1, <2>2 DEF ObjectsKept
<1>6. QED
  BY <1>1, <1>2, <1>3, <1>5 DEF Traversal

(* The objects of scopes that were left are not those of the next          *)
(* argument, and stay what they are when it is passed.                     *)
LEMMA BumpTraversal ==
  ASSUME NEW W, NEW op, NEW lua, NEW fs, NEW t, NEW obj, NEW scope, NEW step,
         Traversal(W, op, lua, fs, t, obj, scope, step), Len(fs) >= 1,
         NEW gs, Bumped(fs, gs)
  PROVE  Traversal(W, op, lua, gs, t, obj, scope, step)
<1> DEFINE n == Len(fs)
<1>1. /\ n \in Nat /\ DOMAIN fs = 1 .. n /\ DOMAIN gs = 1 .. n /\ n \in 1 .. n
      /\ Len(gs) = n /\ Forest(W, op) /\ Path(fs, t, lua, W, op)
  BY DEF Traversal, Path, Bumped
<1>2. \A i \in 1 .. n : /\ gs[i].node = fs[i].node /\ gs[i].inScope = fs[i].inScope
                        /\ gs[i].object = fs[i].object
                        /\ gs[i].scope_bk = fs[i].scope_bk /\ gs[i].step_bk = fs[i].step_bk
  BY DEF Bumped, SameCalls
<1>3. \A i \in 1 .. n : i < n => gs[i].next = fs[i].next
  BY <1>1 DEF Bumped
<1>4. gs[n].next = fs[n].next + 1
  BY DEF Bumped
<1>5. \A i \in 1 .. n : fs[i].next \in Nat \ {0}
  BY <1>1 DEF Path
<1>6. \A i \in 1 .. n : gs[i].next \in Nat \ {0} /\ gs[i].next >= fs[i].next
  BY <1>1, <1>3, <1>4, <1>5
<1>7. Path(gs, t, lua, W, op)
  <2>1. ASSUME NEW i \in DOMAIN gs, NEW j \in DOMAIN gs, i < j
        PROVE  /\ gs[i].next - 1 \in DOMAIN gs[i].node.args
               /\ op[gs[j].node] \subseteq op[Called(gs, i)]
               /\ Extent(gs[j].node) \subseteq Extent(Called(gs, i))
    <3>1. i \in 1 .. n /\ j \in 1 .. n /\ i < n
      BY <1>1, <2>1
    <3>2. Called(gs, i) = Called(fs, i)
      BY <1>2, <1>3, <3>1 DEF Called
    <3>3. gs[i].next = fs[i].next /\ gs[i].node = fs[i].node /\ gs[j].node = fs[j].node
      BY <1>2, <1>3, <3>1
    <3>4. QED
      BY <1>1, <2>1, <3>1, <3>2, <3>3 DEF Path
  <2>2. ASSUME NEW i \in DOMAIN gs
        PROVE  /\ gs[i].node \in W /\ gs[i].next \in Nat \ {0}
               /\ gs[i].inScope <=> (i # 1 /\ gs[i].node.isScope)
               /\ t - 1 \in DOMAIN lua /\ op[gs[i].node] \subseteq op[lua[t - 1]]
    BY <1>1, <1>2, <1>6 DEF Path
  <2>3. QED
    BY <1>1, <2>1, <2>2 DEF Path
<1>8. \A i \in 0 .. n : /\ StepOf(gs, i) = StepOf(fs, i)
                        /\ \A sc : InnermostOf(gs, i, sc) <=> InnermostOf(fs, i, sc)
  BY <1>1, <1>2, AtSame
<1>9. PutBackRight(gs, scope, step)
  <2>1. PutBackRight(fs, scope, step)
    BY DEF Traversal
  <2>2. \A i \in 2 .. n : i \in 1 .. n /\ i - 1 \in 0 .. n
    BY <1>1
  <2>3. n \in 0 .. n
    BY <1>1
  <2> HIDE DEF n
  <2>4. InnermostOf(gs, n, scope) /\ step = StepOf(gs, n)
    BY <1>8, <2>1, <2>3 DEF PutBackRight, n
  <2>5. \A i \in 2 .. n : InnermostOf(gs, i - 1, gs[i].scope_bk) /\ gs[i].step_bk = StepOf(gs, i - 1)
    <3>1. \A i \in 2 .. n : InnermostOf(fs, i - 1, fs[i].scope_bk) /\ fs[i].step_bk = StepOf(fs, i - 1)
      BY <2>1 DEF PutBackRight, n
    <3>2. QED
      BY <1>2, <1>8, <2>2, <3>1
  <2>6. Len(gs) = n
    BY <1>1
  <2>7. QED
    BY <2>4, <2>5, <2>6, Zenon DEF PutBackRight
<1>10. ASSUME NEW s, Passed(fs, t, lua, s)
       PROVE  Passed(gs, t, lua, s)
  <2>1. \A i \in 2 .. n : i \in 0 .. n
    BY <1>1
  <2>2. \A i \in 2 .. Len(gs) : s.end <= StepOf(gs, i)
    <3>1. \A i \in 2 .. n : s.end <= StepOf(fs, i)
      BY <1>10 DEF Passed
    <3> HIDE DEF n
    <3>2. \A i \in 2 .. n : s.end <= StepOf(gs, i)
      BY <1>8, <2>1, <3>1
    <3>3. Len(gs) = n
      BY <1>1
    <3>4. QED
      BY <3>2, <3>3, Zenon
  <2>3. ASSUME NEW i \in DOMAIN gs, NEW k \in DOMAIN gs[i].node.args, k >= gs[i].next
        PROVE  Before({s}, Extent(gs[i].node.args[k]))
    <3>1. i \in 1 .. n /\ gs[i].node = fs[i].node /\ k \in DOMAIN fs[i].node.args
      BY <1>1, <1>2, <2>3
    <3>2. k \in Int
      BY <1>1, <3>1 DEF Path, Forest, Orderly
    <3>3. k >= fs[i].next
      BY <1>5, <1>6, <2>3, <3>1, <3>2
    <3>4. QED
      BY <1>1, <1>10, <3>1, <3>3 DEF Passed
  <2>4. QED
    BY <1>10, <2>2, <2>3 DEF Passed
<1>11. ObjectsKept(gs, t, lua, obj)
  <2>1. ObjectsKept(fs, t, lua, obj)
    BY DEF Traversal
  <2>2. ASSUME NEW i \in DOMAIN gs, gs[i].inScope
        PROVE  gs[i].object = IF gs[i].node.scope \in DOMAIN obj THEN obj[gs[i].node.scope] ELSE 0
    <3>1. i \in DOMAIN fs /\ fs[i].inScope /\ gs[i].node = fs[i].node /\ gs[i].object = fs[i].object
      BY <1>1, <1>2, <2>2
    <3>2. QED
      BY <2>1, <3>1 DEF ObjectsKept
  <2>3. ASSUME NEW s \in DOMAIN obj
        PROVE  \/ s = Global
               \/ \E i \in DOMAIN gs : gs[i].inScope /\ s = gs[i].node.scope
               \/ Passed(gs, t, lua, s)
    BY <1>1, <1>2, <1>10, <2>1 DEF ObjectsKept
  <2>4. QED
    BY <2>1, <2>2, <2>3 DEF ObjectsKept
<1>12. QED
  BY <1>1, <1>7, <1>9, <1>11 DEF Traversal

\* The function of the node that was passed last is called
Entered(fs, gs, child, scope, step) ==
  /\ Len(fs) >= 1 /\ Len(gs) = Len(fs) + 1 /\ DOMAIN gs = 1 .. Len(fs) + 1
  /\ \A i \in 1 .. Len(fs) : gs[i] = fs[i]
  /\ fs[Len(fs)].next - 1 \in DOMAIN fs[Len(fs)].node.args /\ child = Called(fs, Len(fs))
  /\ gs[Len(fs) + 1] = [node |-> child, next |-> 1, inScope |-> child.isScope, object |-> 0,
                        scope_bk |-> scope, step_bk |-> step]

\* No object was set inside of the node called
NotOfNext(fs, obj, child) ==
  \A s \in DOMAIN obj : \/ s = Global
                        \/ \E i \in DOMAIN fs : fs[i].inScope /\ s = fs[i].node.scope
                        \/ Before({s}, Extent(child))

(* The call of an argument: its scope is set, or its step in the scope     *)
(* around it.  No object is set in its scope yet, as no node before it, or *)
(* around it, has this scope.                                              *)
LEMMA PushTraversal ==
  ASSUME MaxFeeds < MaxStep,
         NEW W, NEW op, NEW lua, NEW fs, NEW t, NEW obj, NEW scope, NEW step,
         Traversal(W, op, lua, fs, t, obj, scope, step),
         NEW gs, NEW child, Entered(fs, gs, child, scope, step), NotOfNext(fs, obj, child)
  PROVE  Traversal(W, op, lua, gs, t, obj,
                   IF child.isScope THEN child.scope ELSE scope,
                   IF child.isScope THEN DefaultStep(child.scope) ELSE child.scope.start)
<1> SUFFICES
      ASSUME Len(fs) >= 1, fs[Len(fs)].next - 1 \in DOMAIN fs[Len(fs)].node.args,
             child = Called(fs, Len(fs)),
             \A s \in DOMAIN obj : \/ s = Global
                                   \/ \E i \in DOMAIN fs : fs[i].inScope /\ s = fs[i].node.scope
                                   \/ Before({s}, Extent(child)),
             Len(gs) = Len(fs) + 1, DOMAIN gs = 1 .. Len(fs) + 1,
             \A i \in 1 .. Len(fs) : gs[i] = fs[i],
             gs[Len(fs) + 1] = [node |-> child, next |-> 1, inScope |-> child.isScope, object |-> 0,
                                scope_bk |-> scope, step_bk |-> step]
      PROVE  Traversal(W, op, lua, gs, t, obj,
                       IF child.isScope THEN child.scope ELSE scope,
                       IF child.isScope THEN DefaultStep(child.scope) ELSE child.scope.start)
  BY DEF Entered, NotOfNext
<1> DEFINE n == Len(fs)
           last == gs[n + 1]
<1>1. /\ n \in Nat /\ n >= 1 /\ DOMAIN fs = 1 .. n /\ n \in 1 .. n
      /\ Forest(W, op) /\ Path(fs, t, lua, W, op) /\ ObjectsKept(fs, t, lua, obj)
      /\ PutBackRight(fs, scope, step)
  BY DEF Traversal, Path
<1>2. /\ last.node = child /\ last.next = 1 /\ last.inScope = child.isScope /\ last.object = 0
      /\ last.scope_bk = scope /\ last.step_bk = step
  OBVIOUS
<1>3. /\ DOMAIN gs = 1 .. n + 1 /\ \A i \in 1 .. n : gs[i] = fs[i] /\ i \in DOMAIN gs
      /\ \A i \in 1 .. n + 1 : i \in 1 .. n \/ i = n + 1
      /\ Len(gs) = n + 1 /\ n + 1 \in DOMAIN gs
  BY <1>1
<1> DEFINE node == fs[n].node
           k    == fs[n].next - 1
<1>4. /\ node \in W /\ Orderly(op, node) /\ k \in DOMAIN node.args
      /\ child = node.args[k] /\ child \in W /\ Orderly(op, child)
  BY <1>1 DEF Path, Forest, Called
<1> HIDE DEF n, last, node, k
<1>5. /\ op[child] \subseteq op[node]
      /\ Extent(child) \subseteq node.below
  <2>1. {op[node.args[i]] : i \in DOMAIN node.args} \in SUBSET SUBSET op[node]
    BY <1>4 DEF Orderly, Opened
  <2>2. QED
    BY <1>4, <2>1 DEF Orderly
<1>6. /\ child.scope \in Scope /\ child.scope.start \in Nat /\ child.scope.end \in Nat
      /\ child.scope.start < child.scope.end
      /\ child.isScope => child.scope \in op[child] /\ child.scope.end <= MaxFeeds
  <2>1. /\ child.scope \in Extent(child) /\ child.scope \in Scope
        /\ child.scope.start < child.scope.end
    BY <1>4 DEF Orderly, Extent
  <2>2. child.isScope => child.scope \in op[child]
    BY <1>4 DEF Orderly, Opened
  <2>3. QED
    BY <1>4, <2>1, <2>2 DEF Orderly, Scope
<1>7. Path(gs, t, lua, W, op)
  <2>1. ASSUME NEW i \in DOMAIN gs
        PROVE  /\ gs[i].node \in W /\ gs[i].next \in Nat \ {0}
               /\ gs[i].inScope <=> (i # 1 /\ gs[i].node.isScope)
               /\ t - 1 \in DOMAIN lua /\ op[gs[i].node] \subseteq op[lua[t - 1]]
    <3>1. CASE i \in 1 .. n
      BY <1>1, <1>3, <3>1 DEF Path
    <3>2. CASE i = n + 1
      <4>1. t - 1 \in DOMAIN lua /\ op[node] \subseteq op[lua[t - 1]]
        BY <1>1 DEF Path, node
      <4>2. n + 1 # 1
        BY <1>1
      <4>3. gs[i] = last
        BY <3>2 DEF last
      <4>4. QED
        BY <1>2, <1>4, <1>5, <3>2, <4>1, <4>2, <4>3
    <3>3. QED
      BY <1>3, <3>1, <3>2
  <2>2. ASSUME NEW i \in DOMAIN gs, NEW j \in DOMAIN gs, i < j
        PROVE  /\ gs[i].next - 1 \in DOMAIN gs[i].node.args
               /\ op[gs[j].node] \subseteq op[Called(gs, i)]
               /\ Extent(gs[j].node) \subseteq Extent(Called(gs, i))
    <3>1. i \in 1 .. n /\ gs[i] = fs[i] /\ Called(gs, i) = Called(fs, i)
      <4>1. i \in 1 .. n
        BY <1>1, <1>3, <2>2
      <4>2. gs[i] = fs[i]
        BY <1>3, <4>1
      <4>3. QED
        BY <4>1, <4>2 DEF Called
    <3>2. CASE j \in 1 .. n
      BY <1>1, <1>3, <2>2, <3>1, <3>2 DEF Path
    <3>3. CASE j = n + 1
      <4>1. gs[j].node = child
        BY <1>2, <3>3 DEF last
      <4>2. CASE i = n
        <5>1. Called(fs, i) = child /\ fs[i].next - 1 \in DOMAIN fs[i].node.args
          BY <4>2 DEF n
        <5>2. QED
          BY <3>1, <4>1, <5>1
      <4>3. CASE i < n
        <5>1. /\ fs[i].next - 1 \in DOMAIN fs[i].node.args
              /\ op[node] \subseteq op[Called(fs, i)]
              /\ Extent(node) \subseteq Extent(Called(fs, i))
          BY <1>1, <3>1, <4>3 DEF Path, node
        <5>2. QED
          BY <1>5, <3>1, <4>1, <5>1 DEF Extent
      <4>4. QED
        BY <1>1, <3>1, <4>2, <4>3
    <3>4. QED
      BY <1>3, <3>2, <3>3
  <2>3. Len(gs) \in Nat /\ DOMAIN gs = 1 .. Len(gs)
    BY <1>1, <1>3
  <2>4. QED
    BY <1>1, <2>1, <2>2, <2>3 DEF Path
<1>8. \A i \in 0 .. n : /\ StepOf(gs, i) = StepOf(fs, i)
                        /\ \A sc : InnermostOf(gs, i, sc) <=> InnermostOf(fs, i, sc)
  <2>1. \A j \in 1 .. n : gs[j].node = fs[j].node /\ gs[j].inScope = fs[j].inScope
    BY <1>3
  <2>2. QED
    BY <1>1, <2>1, AtSame
<1> DEFINE newScope == IF child.isScope THEN child.scope ELSE scope
           newStep  == IF child.isScope THEN DefaultStep(child.scope) ELSE child.scope.start
<1>9. newStep = StepOf(gs, n + 1)
  BY <1>1, <1>2 DEF StepOf, last
<1>10. InnermostOf(gs, n + 1, newScope)
  <2>1. CASE child.isScope
    <3>1. n + 1 \in 1 .. n + 1 /\ \A j \in n + 2 .. n + 1 : ~gs[j].inScope
      BY <1>1
    <3>2. QED
      BY <1>1, <1>2, <2>1, <3>1 DEF InnermostOf, last
  <2>2. CASE ~child.isScope
    <3>1. ~gs[n + 1].inScope
      BY <1>2, <2>2 DEF last
    <3>2. InnermostOf(gs, n, scope) /\ n \in 0 .. n
      BY <1>1, <1>8 DEF PutBackRight, n
    <3>3. InnermostOf(gs, n + 1, scope)
      BY <1>1, <3>1, <3>2 DEF InnermostOf
    <3>4. QED
      BY <2>2, <3>3
  <2>3. QED
    BY <2>1, <2>2
<1> HIDE DEF newScope, newStep
<1>11. PutBackRight(gs, newScope, newStep)
  <2>1. \A i \in 2 .. n : InnermostOf(fs, i - 1, fs[i].scope_bk) /\ fs[i].step_bk = StepOf(fs, i - 1)
    BY <1>1 DEF PutBackRight, n
  <2>2. \A i \in 2 .. n : i \in 1 .. n /\ i - 1 \in 0 .. n
    BY <1>1
  <2>3. \A i \in 2 .. n : InnermostOf(gs, i - 1, gs[i].scope_bk) /\ gs[i].step_bk = StepOf(gs, i - 1)
    BY <1>3, <1>8, <2>1, <2>2
  <2>4. InnermostOf(gs, n, gs[n + 1].scope_bk) /\ gs[n + 1].step_bk = StepOf(gs, n)
    <3>1. InnermostOf(fs, n, scope) /\ step = StepOf(fs, n) /\ n \in 0 .. n
      BY <1>1 DEF PutBackRight, n
    <3>2. QED
      BY <1>2, <1>8, <3>1 DEF last
  <2>5. \A i \in 2 .. n + 1 : InnermostOf(gs, i - 1, gs[i].scope_bk) /\ gs[i].step_bk = StepOf(gs, i - 1)
    <3>1. \A i \in 2 .. n + 1 : i \in 2 .. n \/ (i = n + 1 /\ i - 1 = n)
      BY <1>1
    <3>2. QED
      BY <2>3, <2>4, <3>1
  <2>6. Len(gs) = n + 1
    BY <1>3
  <2>7. QED
    BY <1>9, <1>10, <2>5, <2>6, Zenon DEF PutBackRight
<1>12. ASSUME NEW s, s \in Scope, Passed(fs, t, lua, s), Before({s}, Extent(child))
       PROVE  Passed(gs, t, lua, s)
  <2>1. s.end \in Nat /\ s.end <= child.scope.start
    BY <1>12 DEF Before, Extent, Scope
  <2>2. s.end <= StepOf(gs, n + 1)
    <3>1. s.end <= DefaultStep(child.scope)
      BY <1>6, <2>1 DEF DefaultStep
    <3>2. QED
      BY <1>9, <2>1, <3>1 DEF newStep
  <2>3. \A i \in 2 .. n + 1 : s.end <= StepOf(gs, i)
    <3>1. \A i \in 2 .. n : s.end <= StepOf(fs, i) /\ i \in 0 .. n
      BY <1>1, <1>12 DEF Passed, n
    <3>2. \A i \in 2 .. n + 1 : i \in 2 .. n \/ i = n + 1
      BY <1>1
    <3>3. QED
      BY <1>8, <2>2, <3>1, <3>2
  <2>4. ASSUME NEW i \in DOMAIN gs, NEW m \in DOMAIN gs[i].node.args, m >= gs[i].next
        PROVE  Before({s}, Extent(gs[i].node.args[m]))
    <3>1. CASE i \in 1 .. n
      BY <1>1, <1>3, <1>12, <2>4, <3>1 DEF Passed
    <3>2. CASE i = n + 1
      <4>1. gs[i].node = child
        BY <1>2, <3>2 DEF last
      <4>2. Extent(child.args[m]) \subseteq Extent(child)
        BY <1>4, <2>4, <4>1 DEF Orderly, Extent
      <4>3. QED
        BY <1>12, <4>1, <4>2 DEF Before
    <3>3. QED
      BY <1>3, <3>1, <3>2
  <2>5. \A e \in DOMAIN lua : e >= t => Before({s}, Extent(lua[e]))
    BY <1>12 DEF Passed
  <2>6. Len(gs) = n + 1
    BY <1>3
  <2>7. QED
    BY <2>3, <2>4, <2>5, <2>6, Zenon DEF Passed
<1>13. child.isScope => child.scope \notin DOMAIN obj
  <2> SUFFICES ASSUME child.isScope, child.scope \in DOMAIN obj PROVE FALSE
    OBVIOUS
  <2>1. CASE child.scope = Global
    <3>1. child.scope.end = MaxStep
      BY <2>1 DEF Global
    <3>2. QED
      BY <1>6, <3>1, MaxFeedsAssumption, BoundsAssumption
  <2>2. ASSUME NEW i \in DOMAIN fs, fs[i].inScope, child.scope = fs[i].node.scope
        PROVE  FALSE
    <3>1. fs[i].node.isScope
      BY <1>1, <2>2 DEF Path
    <3>2. CASE i = n
      <4>1. child.scope.end < node.scope.end
        BY <1>4, <1>6, <3>1, <3>2 DEF Orderly, node
      <4>2. QED
        BY <1>6, <2>2, <3>2, <4>1 DEF node
    <3>3. CASE i # n
      <4>1. i < n /\ n \in DOMAIN fs
        BY <1>1, <3>3
      <4>2. child.scope \in op[fs[n].node]
        BY <1>5, <1>6 DEF node
      <4>3. child.scope.end < fs[i].node.scope.end
        BY <1>1, <3>1, <4>1, <4>2, InsideOf
      <4>4. QED
        BY <1>6, <2>2, <4>3
    <3>4. QED
      BY <3>2, <3>3
  <2>3. CASE Before({child.scope}, Extent(child))
    <3>1. child.scope.end <= child.scope.start
      BY <2>3 DEF Before, Extent
    <3>2. QED
      BY <1>6, <3>1
  <2>4. QED
    BY <2>1, <2>2, <2>3
<1>14. ObjectsKept(gs, t, lua, obj)
  <2>1. ASSUME NEW i \in DOMAIN gs, gs[i].inScope
        PROVE  gs[i].object = IF gs[i].node.scope \in DOMAIN obj THEN obj[gs[i].node.scope] ELSE 0
    <3>1. CASE i \in 1 .. n
      BY <1>1, <1>3, <2>1, <3>1 DEF ObjectsKept
    <3>2. CASE i = n + 1
      BY <1>2, <1>13, <2>1, <3>2 DEF last
    <3>3. QED
      BY <1>3, <3>1, <3>2
  <2>2. ASSUME NEW s \in DOMAIN obj
        PROVE  \/ s = Global
               \/ \E i \in DOMAIN gs : gs[i].inScope /\ s = gs[i].node.scope
               \/ Passed(gs, t, lua, s)
    <3>1. \/ s = Global
          \/ \E i \in DOMAIN fs : fs[i].inScope /\ s = fs[i].node.scope
          \/ Passed(fs, t, lua, s) /\ Before({s}, Extent(child))
      BY <1>1 DEF ObjectsKept
    <3>2. s \in Scope
      BY <1>1 DEF ObjectsKept
    <3>3. QED
      BY <1>1, <1>3, <1>12, <3>1, <3>2
  <2>3. QED
    BY <1>1, <2>1, <2>2 DEF ObjectsKept
<1>15. Standing(lua, W, op)
  BY DEF Traversal
<1>16. QED
  BY <1>1, <1>7, <1>11, <1>14, <1>15 DEF Traversal, newScope, newStep

(* A function returns: the scope it was called with, if any, is left.      *)
LEMMA PopTraversal ==
  ASSUME NEW W, NEW op, NEW lua, NEW fs, NEW t, NEW obj, NEW scope, NEW step,
         Traversal(W, op, lua, fs, t, obj, scope, step), Len(fs) >= 1,
         NEW gs, Len(gs) = Len(fs) - 1, DOMAIN gs = 1 .. Len(fs) - 1,
         \A i \in 1 .. Len(fs) - 1 : gs[i] = fs[i],
         NEW newScope, NEW newStep,
         Len(fs) = 1 => newScope = scope /\ newStep = step,
         Len(fs) # 1 => /\ newScope = IF fs[Len(fs)].inScope THEN fs[Len(fs)].scope_bk ELSE scope
                        /\ newStep = fs[Len(fs)].step_bk
  PROVE  Traversal(W, op, lua, gs, t, obj, newScope, newStep)
<1> DEFINE n == Len(fs)
           m == n - 1
<1>1. /\ n \in Nat /\ n >= 1 /\ DOMAIN fs = 1 .. n /\ n \in DOMAIN fs
      /\ Forest(W, op) /\ Standing(lua, W, op)
      /\ Path(fs, t, lua, W, op) /\ ObjectsKept(fs, t, lua, obj) /\ PutBackRight(fs, scope, step)
  BY DEF Traversal, Path
<1>2. /\ m \in Nat /\ n = m + 1 /\ Len(gs) = m /\ DOMAIN gs = 1 .. m
      /\ \A i \in 1 .. m : gs[i] = fs[i] /\ i \in DOMAIN fs /\ i < n
      /\ \A i \in DOMAIN fs : i \in 1 .. m \/ i = n
  BY <1>1
<1>3. /\ n = 1 => newScope = scope /\ newStep = step
      /\ n # 1 => /\ newScope = IF fs[n].inScope THEN fs[n].scope_bk ELSE scope
                  /\ newStep = fs[n].step_bk
  OBVIOUS
<1>4. /\ InnermostOf(fs, n, scope) /\ step = StepOf(fs, n)
      /\ \A i \in 2 .. n : InnermostOf(fs, i - 1, fs[i].scope_bk) /\ fs[i].step_bk = StepOf(fs, i - 1)
  BY <1>1 DEF PutBackRight
<1>5. /\ fs[n].inScope <=> (n # 1 /\ fs[n].node.isScope)
      /\ t - 1 \in DOMAIN lua /\ op[fs[n].node] \subseteq op[lua[t - 1]] /\ t \in Nat
      /\ DOMAIN lua \subseteq Nat
  BY <1>1 DEF Path
<1> HIDE DEF n, m
<1>6. Path(gs, t, lua, W, op)
  <2>1. \A i \in 1 .. m : Called(gs, i) = Called(fs, i)
    BY <1>2 DEF Called
  <2>2. ASSUME NEW i \in DOMAIN gs, NEW j \in DOMAIN gs, i < j
        PROVE  /\ gs[i].next - 1 \in DOMAIN gs[i].node.args
               /\ op[gs[j].node] \subseteq op[Called(gs, i)]
               /\ Extent(gs[j].node) \subseteq Extent(Called(gs, i))
    <3>1. i \in DOMAIN fs /\ j \in DOMAIN fs /\ gs[i] = fs[i] /\ gs[j] = fs[j] /\ Called(gs, i) = Called(fs, i)
      BY <1>2, <2>1
    <3>2. /\ fs[i].next - 1 \in DOMAIN fs[i].node.args
          /\ op[fs[j].node] \subseteq op[Called(fs, i)]
          /\ Extent(fs[j].node) \subseteq Extent(Called(fs, i))
      BY <1>1, <2>2, <3>1 DEF Path
    <3>3. QED
      BY <3>1, <3>2
  <2>3. ASSUME NEW i \in DOMAIN gs
        PROVE  /\ gs[i].node \in W /\ gs[i].next \in Nat \ {0}
               /\ gs[i].inScope <=> (i # 1 /\ gs[i].node.isScope)
               /\ t - 1 \in DOMAIN lua /\ op[gs[i].node] \subseteq op[lua[t - 1]]
    BY <1>1, <1>2 DEF Path
  <2>4. Len(gs) \in Nat /\ DOMAIN gs = 1 .. Len(gs)
    BY <1>2, Zenon
  <2>5. t \in Nat \ {0} /\ DOMAIN lua \subseteq Nat
    BY <1>1 DEF Path
  <2>6. QED
    BY <2>2, <2>3, <2>4, <2>5 DEF Path
<1>7. \A i \in 0 .. m : /\ StepOf(gs, i) = StepOf(fs, i)
                        /\ \A sc : InnermostOf(gs, i, sc) <=> InnermostOf(fs, i, sc)
  <2>1. \A j \in 1 .. m : gs[j].node = fs[j].node /\ gs[j].inScope = fs[j].inScope
    BY <1>2
  <2>2. QED
    BY <1>2, <2>1, AtSame
<1>8. InnermostOf(fs, m, newScope) /\ newStep = StepOf(fs, m)
  <2>1. CASE n = 1
    <3>1. ~fs[1].inScope
      BY <1>5, <2>1
    <3>2. scope = Global
      BY <1>4, <2>1, <3>1 DEF InnermostOf
    <3>3. m = 0
      BY <1>2, <2>1
    <3>4. InnermostOf(fs, 0, Global) /\ StepOf(fs, 0) = 0 /\ StepOf(fs, 1) = 0
      BY DEF InnermostOf, StepOf
    <3>5. QED
      BY <1>3, <1>4, <2>1, <3>2, <3>3, <3>4
  <2>2. CASE n # 1
    <3>1. n \in 2 .. n /\ n - 1 = m
      BY <1>1, <1>2, <2>2
    <3>2. InnermostOf(fs, m, fs[n].scope_bk) /\ fs[n].step_bk = StepOf(fs, m)
      BY <1>4, <3>1
    <3>3. CASE fs[n].inScope
      BY <1>3, <2>2, <3>2, <3>3
    <3>4. CASE ~fs[n].inScope
      <4>1. InnermostOf(fs, m, scope)
        <5>1. \A h \in 1 .. n : h # n => h \in 1 .. m /\ \A j \in h + 1 .. m : j \in h + 1 .. n
          BY <1>1, <1>2
        <5>2. \A j \in 1 .. m : j \in 1 .. n
          BY <1>2
        <5>3. QED
          BY <1>4, <3>4, <5>1, <5>2 DEF InnermostOf
      <4>2. QED
        BY <1>3, <2>2, <3>2, <3>4, <4>1
    <3>5. QED
      BY <3>3, <3>4
  <2>3. QED
    BY <2>1, <2>2
<1>9. PutBackRight(gs, newScope, newStep)
  <2>1. m \in 0 .. m /\ \A i \in 2 .. m : i \in 1 .. m /\ i \in 2 .. n /\ i - 1 \in 0 .. m
    BY <1>2
  <2>2. InnermostOf(gs, m, newScope) /\ newStep = StepOf(gs, m)
    BY <1>7, <1>8, <2>1
  <2>3. \A i \in 2 .. m : InnermostOf(gs, i - 1, gs[i].scope_bk) /\ gs[i].step_bk = StepOf(gs, i - 1)
    BY <1>2, <1>4, <1>7, <2>1
  <2>4. Len(gs) = m
    BY <1>2
  <2>5. QED
    BY <2>2, <2>3, <2>4, Zenon DEF PutBackRight
<1>10. ASSUME NEW s,
              \A i \in 2 .. m : s.end <= StepOf(fs, i),
              \A i \in 1 .. m : \A k \in DOMAIN fs[i].node.args :
                k >= fs[i].next => Before({s}, Extent(fs[i].node.args[k])),
              \A e \in DOMAIN lua : e >= t => Before({s}, Extent(lua[e]))
       PROVE  Passed(gs, t, lua, s)
  <2>1. \A i \in 2 .. m : s.end <= StepOf(gs, i)
    <3>1. \A i \in 2 .. m : i \in 0 .. m
      BY <1>2
    <3>2. QED
      BY <1>7, <1>10, <3>1
  <2>2. \A i \in DOMAIN gs : \A k \in DOMAIN gs[i].node.args :
          k >= gs[i].next => Before({s}, Extent(gs[i].node.args[k]))
    BY <1>2, <1>10
  <2>3. Len(gs) = m
    BY <1>2
  <2>4. QED
    BY <1>10, <2>1, <2>2, <2>3, Zenon DEF Passed
<1>11. ASSUME NEW s, Passed(fs, t, lua, s)
       PROVE  Passed(gs, t, lua, s)
  <2>1. \A i \in 2 .. n : s.end <= StepOf(fs, i)
    BY <1>11 DEF Passed, n
  <2>2. \A i \in 2 .. m : i \in 2 .. n
    BY <1>2
  <2>3. QED
    BY <1>2, <1>10, <1>11, <2>1, <2>2 DEF Passed
<1>12. ASSUME fs[n].inScope
       PROVE  Passed(gs, t, lua, fs[n].node.scope)
  <2> DEFINE s == fs[n].node.scope
  <2>1. fs[n].node.isScope /\ fs[n].node \in W /\ Orderly(op, fs[n].node)
    BY <1>1, <1>5, <1>12 DEF Path, Forest
  <2>2. s \in op[fs[n].node] /\ s \in Extent(fs[n].node) /\ s \in Scope
    BY <2>1 DEF Orderly, Opened, Extent
  <2> HIDE DEF s
  <2>3. s.end \in Nat
    BY <2>2 DEF Scope
  <2>4. ASSUME NEW i \in 2 .. m
        PROVE  s.end <= StepOf(fs, i)
    <3>1. i \in DOMAIN fs /\ i < n /\ i # 1 /\ ~(i <= 1)
      BY <1>2
    <3>2. IF fs[i].node.isScope THEN s.end < fs[i].node.scope.end ELSE s.end <= fs[i].node.scope.start
      BY <1>1, <2>2, <3>1, InsideOf
    <3>3. fs[i].inScope <=> fs[i].node.isScope
      BY <1>1, <3>1 DEF Path
    <3>4. CASE fs[i].node.isScope
      <4>1. fs[i].node.scope.end \in Nat
        BY <1>1, <3>1 DEF Path, Forest, Orderly, Extent, Scope
      <4>2. s.end <= fs[i].node.scope.end - 1
        BY <2>3, <3>2, <3>4, <4>1
      <4>3. QED
        BY <3>1, <3>3, <3>4, <4>2 DEF StepOf, DefaultStep
    <3>5. CASE ~fs[i].node.isScope
      BY <3>1, <3>2, <3>3, <3>5 DEF StepOf
    <3>6. QED
      BY <3>4, <3>5
  <2>5. ASSUME NEW i \in 1 .. m, NEW k \in DOMAIN fs[i].node.args, k >= fs[i].next
        PROVE  Before({s}, Extent(fs[i].node.args[k]))
    <3>1. i \in DOMAIN fs /\ n \in DOMAIN fs /\ i < n
      BY <1>1, <1>2
    <3>2. PICK j : j = fs[i].next - 1
      OBVIOUS
    <3>3. j \in DOMAIN fs[i].node.args /\ op[fs[n].node] \subseteq op[fs[i].node.args[j]]
      BY <1>1, <3>1, <3>2 DEF Path, Called
    <3>4. fs[i].next \in Nat /\ Orderly(op, fs[i].node)
      BY <1>1, <3>1 DEF Path, Forest
    <3>5. j < k
      BY <2>5, <3>2, <3>4 DEF Orderly
    <3>6. Before(op[fs[i].node.args[j]], Extent(fs[i].node.args[k]))
      BY <2>5, <3>3, <3>4, <3>5 DEF Orderly
    <3>7. QED
      BY <2>2, <3>3, <3>6 DEF Before
  <2>6. ASSUME NEW e \in DOMAIN lua, e >= t
        PROVE  Before({s}, Extent(lua[e]))
    <3>1. t - 1 < e
      BY <1>5, <2>6
    <3>2. Before(op[lua[t - 1]], Extent(lua[e]))
      BY <1>1, <1>5, <3>1 DEF Standing
    <3>3. QED
      BY <1>5, <2>2, <3>2 DEF Before
  <2>7. Passed(gs, t, lua, s)
    BY <1>10, <2>4, <2>5, <2>6
  <2>8. QED
    BY <2>7 DEF s
<1>13. ObjectsKept(gs, t, lua, obj)
  <2>1. ASSUME NEW i \in DOMAIN gs, gs[i].inScope
        PROVE  gs[i].object = IF gs[i].node.scope \in DOMAIN obj THEN obj[gs[i].node.scope] ELSE 0
    BY <1>1, <1>2, <2>1 DEF ObjectsKept
  <2>2. ASSUME NEW s \in DOMAIN obj
        PROVE  \/ s = Global
               \/ \E i \in DOMAIN gs : gs[i].inScope /\ s = gs[i].node.scope
               \/ Passed(gs, t, lua, s)
    <3>1. CASE Passed(fs, t, lua, s)
      BY <1>11, <3>1
    <3>2. ASSUME NEW i \in DOMAIN fs, fs[i].inScope, s = fs[i].node.scope
          PROVE  (\E j \in DOMAIN gs : gs[j].inScope /\ s = gs[j].node.scope) \/ Passed(gs, t, lua, s)
      BY <1>2, <1>12, <3>2
    <3>3. QED
      BY <1>1, <3>1, <3>2 DEF ObjectsKept
  <2>3. QED
    BY <1>1, <2>1, <2>2 DEF ObjectsKept
<1>14. QED
  BY <1>1, <1>6, <1>9, <1>13 DEF Traversal

\* The frame whose node opened the scope that is set, 0 for the outermost
InnermostFrame(fs, h) ==
  \/ h \in DOMAIN fs /\ fs[h].inScope /\ \A j \in DOMAIN fs : j > h => ~fs[j].inScope
  \/ h = 0 /\ \A j \in DOMAIN fs : ~fs[j].inScope

(* No two of the frames have the same scope.                               *)
LEMMA ScopesDiffer ==
  ASSUME NEW W, NEW op, NEW lua, NEW fs, NEW t, Forest(W, op), Path(fs, t, lua, W, op),
         NEW i \in DOMAIN fs, NEW j \in DOMAIN fs, i < j, fs[i].inScope, fs[j].inScope
  PROVE  /\ fs[j].node.scope.end < fs[i].node.scope.end /\ fs[i].node.scope # fs[j].node.scope
         /\ fs[i].node.scope.start <= fs[j].node.scope.start
<1>1. fs[i].node.isScope /\ fs[j].node.isScope /\ Orderly(op, fs[j].node) /\ Orderly(op, fs[i].node)
  BY DEF Path, Forest
<1>2. fs[j].node.scope \in op[fs[j].node] /\ fs[j].node.scope \in Extent(fs[j].node)
  BY <1>1 DEF Orderly, Opened, Extent
<1>3. fs[j].node.scope.end \in Nat /\ fs[j].node.scope.end < fs[i].node.scope.end
  BY <1>1, <1>2, InsideOf
<1>4. fs[i].node.scope.start <= fs[j].node.scope.start
  BY <1>1, <1>2, InsideOf
<1>5. QED
  BY <1>3, <1>4

\* The object v is noted in the frame h and set in the scope
Noted(fs, gs, h, v) ==
  /\ Len(gs) = Len(fs) /\ DOMAIN gs = DOMAIN fs
  /\ \A i \in DOMAIN fs : /\ gs[i].node = fs[i].node /\ gs[i].inScope = fs[i].inScope
                          /\ gs[i].scope_bk = fs[i].scope_bk /\ gs[i].step_bk = fs[i].step_bk
                          /\ gs[i].next = fs[i].next
                          /\ gs[i].object = IF i = h THEN v ELSE fs[i].object

Put(obj, obj2, scope, v) ==
  obj2 = [s \in DOMAIN obj \cup {scope} |-> IF s = scope THEN v ELSE obj[s]]

(* An object is set in the current scope, that of the innermost frame that *)
(* has one.                                                                *)
LEMMA SetTraversal ==
  ASSUME NEW W, NEW op, NEW lua, NEW fs, NEW t, NEW obj, NEW scope, NEW step,
         Traversal(W, op, lua, fs, t, obj, scope, step), Len(fs) >= 1,
         NEW v \in Nat \ {0}, NEW h, InnermostFrame(fs, h),
         NEW gs, Noted(fs, gs, h, v), NEW obj2, Put(obj, obj2, scope, v)
  PROVE  Traversal(W, op, lua, gs, t, obj2, scope, step)
<1> DEFINE n == Len(fs)
<1>1. /\ n \in Nat /\ n >= 1 /\ DOMAIN fs = 1 .. n /\ n \in DOMAIN fs /\ DOMAIN gs = 1 .. n /\ Len(gs) = n
      /\ DOMAIN gs = DOMAIN fs /\ Forest(W, op) /\ Standing(lua, W, op)
      /\ Path(fs, t, lua, W, op) /\ ObjectsKept(fs, t, lua, obj) /\ PutBackRight(fs, scope, step)
  BY DEF Traversal, Path, Noted
<1>0. \A i \in DOMAIN fs : /\ gs[i].node = fs[i].node /\ gs[i].inScope = fs[i].inScope
                          /\ gs[i].scope_bk = fs[i].scope_bk /\ gs[i].step_bk = fs[i].step_bk
                          /\ gs[i].next = fs[i].next
                          /\ gs[i].object = IF i = h THEN v ELSE fs[i].object
  BY DEF Noted
<1>2. /\ InnermostOf(fs, n, scope) /\ step = StepOf(fs, n)
      /\ \A i \in 2 .. n : InnermostOf(fs, i - 1, fs[i].scope_bk) /\ fs[i].step_bk = StepOf(fs, i - 1)
  BY <1>1 DEF PutBackRight
<1> HIDE DEF n
<1>3. \A i \in 0 .. n : /\ StepOf(gs, i) = StepOf(fs, i)
                        /\ \A sc : InnermostOf(gs, i, sc) <=> InnermostOf(fs, i, sc)
  <2>1. \A j \in 1 .. n : gs[j].node = fs[j].node /\ gs[j].inScope = fs[j].inScope
    BY <1>0, <1>1
  <2>2. QED
    BY <1>1, <2>1, AtSame
<1>4. Path(gs, t, lua, W, op)
  <2>1. \A i \in DOMAIN fs : Called(gs, i) = Called(fs, i)
    BY <1>0 DEF Called
  <2>2. Len(gs) \in Nat /\ DOMAIN gs = 1 .. Len(gs)
    BY <1>1, Zenon
  <2>3. QED
    BY <1>0, <1>1, <2>1, <2>2 DEF Path
<1>5. PutBackRight(gs, scope, step)
  <2>1. n \in 0 .. n /\ \A i \in 2 .. n : i \in DOMAIN fs /\ i - 1 \in 0 .. n
    BY <1>1
  <2>2. InnermostOf(gs, n, scope) /\ step = StepOf(gs, n)
    BY <1>2, <1>3, <2>1
  <2>3. \A i \in 2 .. n : InnermostOf(gs, i - 1, gs[i].scope_bk) /\ gs[i].step_bk = StepOf(gs, i - 1)
    BY <1>0, <1>2, <1>3, <2>1
  <2>4. Len(gs) = n
    BY <1>1
  <2>5. QED
    BY <2>2, <2>3, <2>4, Zenon DEF PutBackRight
<1>6. ASSUME NEW s, Passed(fs, t, lua, s)
      PROVE  Passed(gs, t, lua, s)
  <2>1. \A i \in 2 .. n : s.end <= StepOf(fs, i) /\ i \in 0 .. n
    BY <1>1, <1>6 DEF Passed, n
  <2>2. \A i \in 2 .. n : s.end <= StepOf(gs, i)
    BY <1>3, <2>1
  <2>3. \A i \in DOMAIN gs : \A k \in DOMAIN gs[i].node.args :
          k >= gs[i].next => Before({s}, Extent(gs[i].node.args[k]))
    BY <1>0, <1>1, <1>6 DEF Passed
  <2>4. \A e \in DOMAIN lua : e >= t => Before({s}, Extent(lua[e]))
    BY <1>6 DEF Passed
  <2>5. Len(gs) = n
    BY <1>1
  <2>6. QED
    BY <2>2, <2>3, <2>4, <2>5, Zenon DEF Passed
<1>7. /\ h \in DOMAIN fs => fs[h].inScope /\ scope = fs[h].node.scope
      /\ h \notin DOMAIN fs => scope = Global /\ \A j \in DOMAIN fs : ~fs[j].inScope
  <2>1. CASE h = 0
    <3>1. \A j \in 1 .. n : ~fs[j].inScope
      BY <1>1, <2>1 DEF InnermostFrame
    <3>2. scope = Global /\ h \notin DOMAIN fs
      BY <1>1, <1>2, <2>1, <3>1 DEF InnermostOf
    <3>3. QED
      BY <1>1, <3>1, <3>2
  <2>2. CASE h \in DOMAIN fs
    <3>1. fs[h].inScope /\ \A j \in 1 .. n : j > h => ~fs[j].inScope
      BY <1>1, <2>2 DEF InnermostFrame
    <3>2. PICK g \in 1 .. n : /\ fs[g].inScope /\ scope = fs[g].node.scope
                             /\ \A j \in g + 1 .. n : ~fs[j].inScope
      BY <1>1, <1>2, <2>2, <3>1 DEF InnermostOf
    <3>3. g = h
      BY <1>1, <2>2, <3>1, <3>2
    <3>4. QED
      BY <2>2, <3>1, <3>2, <3>3
  <2>3. QED
    BY <2>1, <2>2 DEF InnermostFrame
<1>8. scope \in Scope
  <2>1. CASE h \in DOMAIN fs
    <3>1. Orderly(op, fs[h].node)
      BY <1>1, <2>1 DEF Path, Forest
    <3>2. QED
      BY <1>7, <2>1, <3>1 DEF Orderly, Extent
  <2>2. CASE h \notin DOMAIN fs
    BY <1>7, <2>2, BoundsAssumption DEF Global, Scope
  <2>3. QED
    BY <2>1, <2>2
<1>9. /\ DOMAIN obj2 = DOMAIN obj \cup {scope} /\ obj2[scope] = v
      /\ \A s \in DOMAIN obj : s # scope => obj2[s] = obj[s]
  BY DEF Put
<1>10. ASSUME NEW i \in DOMAIN gs, gs[i].inScope
       PROVE  gs[i].object = IF gs[i].node.scope \in DOMAIN obj2 THEN obj2[gs[i].node.scope] ELSE 0
  <2>1. /\ i \in DOMAIN fs /\ fs[i].inScope /\ gs[i].node = fs[i].node
        /\ gs[i].object = IF i = h THEN v ELSE fs[i].object
    BY <1>0, <1>1, <1>10
  <2>2. h \in DOMAIN fs /\ fs[h].inScope /\ scope = fs[h].node.scope
    BY <1>7, <2>1
  <2>3. CASE i = h
    BY <1>9, <2>1, <2>2, <2>3
  <2>4. CASE i # h
    <3>1. i < h \/ h < i
      BY <1>1, <2>1, <2>2, <2>4
    <3>2. fs[i].node.scope # scope
      BY <1>1, <2>1, <2>2, <3>1, ScopesDiffer
    <3>3. fs[i].object = IF fs[i].node.scope \in DOMAIN obj THEN obj[fs[i].node.scope] ELSE 0
      BY <1>1, <2>1 DEF ObjectsKept
    <3>4. QED
      BY <1>9, <2>1, <2>4, <3>2, <3>3
  <2>5. QED
    BY <2>3, <2>4
<1>11. ASSUME NEW s \in DOMAIN obj2
       PROVE  /\ obj2[s] \in Nat \ {0} /\ s \in Scope
              /\ \/ s = Global
                 \/ \E i \in DOMAIN gs : gs[i].inScope /\ s = gs[i].node.scope
                 \/ Passed(gs, t, lua, s)
  <2>1. CASE s = scope
    <3>1. s = Global \/ \E i \in DOMAIN gs : gs[i].inScope /\ s = gs[i].node.scope
      BY <1>0, <1>1, <1>7, <2>1
    <3>2. QED
      BY <1>8, <1>9, <2>1, <3>1
  <2>2. CASE s # scope
    <3>1. s \in DOMAIN obj /\ obj2[s] = obj[s]
      BY <1>9, <2>2
    <3>2. /\ obj[s] \in Nat \ {0} /\ s \in Scope
          /\ \/ s = Global
             \/ \E i \in DOMAIN fs : fs[i].inScope /\ s = fs[i].node.scope
             \/ Passed(fs, t, lua, s)
      BY <1>1, <3>1 DEF ObjectsKept
    <3>3. QED
      BY <1>0, <1>1, <1>6, <3>1, <3>2
  <2>3. QED
    BY <2>1, <2>2
<1>12. ObjectsKept(gs, t, lua, obj2)
  BY <1>10, <1>11 DEF ObjectsKept
<1>13. QED
  BY <1>1, <1>4, <1>5, <1>12 DEF Traversal

-----------------------------------------------------------------------------
\* A frame has the fields a function changes
Shaped == \A i \in DOMAIN frames : {"next", "object"} \subseteq DOMAIN frames[i]

LEMMA BumpIsBumped ==
  ASSUME NEW S, frames \in Seq(S), frames # <<>>, Shaped
  PROVE  Bumped(frames, Bump) /\ \A i \in DOMAIN Bump : {"next", "object"} \subseteq DOMAIN Bump[i]
<1> DEFINE n == Len(frames)
           bumped == [frames[n] EXCEPT !.next = @ + 1]
<1>1. n \in Nat /\ n >= 1 /\ DOMAIN frames = 1 .. n /\ n \in 1 .. n
  OBVIOUS
<1>2. Bump = [frames EXCEPT ![n] = bumped]
  BY DEF Bump
<1>3. /\ bumped.inScope = frames[n].inScope /\ bumped.node = frames[n].node
      /\ bumped.scope_bk = frames[n].scope_bk /\ bumped.step_bk = frames[n].step_bk
      /\ bumped.object = frames[n].object /\ DOMAIN bumped = DOMAIN frames[n]
  OBVIOUS
<1>4. bumped.next = frames[n].next + 1
  <2>1. "next" \in DOMAIN frames[n]
    BY <1>1 DEF Shaped
  <2>2. QED
    BY <2>1
<1> HIDE DEF bumped
<1>5. Len(Bump) = n /\ DOMAIN Bump = 1 .. n
  <2>1. DOMAIN Bump = 1 .. n
    BY <1>1, <1>2
  <2>2. frames \in Seq(S \cup {bumped})
    OBVIOUS
  <2>3. Bump \in Seq(S \cup {bumped})
    BY <1>1, <1>2, <2>2
  <2>4. QED
    BY <1>1, <2>1, <2>3
<1>6. Bump[n] = bumped /\ \A i \in 1 .. n : i # n => Bump[i] = frames[i]
  BY <1>1, <1>2
<1>7. SameCalls(frames, Bump, n)
  BY <1>1, <1>3, <1>6 DEF SameCalls
<1>8. \A i \in 1 .. n - 1 : Bump[i].next = frames[i].next
  <2>1. \A i \in 1 .. n - 1 : i \in 1 .. n /\ i # n
    <3>1. \A k \in Nat : \A i \in 1 .. k - 1 : i \in 1 .. k /\ i # k
      OBVIOUS
    <3>2. QED
      BY <1>1, <3>1, Zenon
  <2>2. \A i \in 1 .. n - 1 : Bump[i] = frames[i]
    BY <1>6, <2>1, Zenon
  <2>3. QED
    BY <2>2, Zenon
<1>9. Bump[n].next = frames[n].next + 1
  BY <1>4, <1>6
<1>10. \A i \in DOMAIN Bump : {"next", "object"} \subseteq DOMAIN Bump[i]
  BY <1>1, <1>3, <1>5, <1>6 DEF Shaped
<1>11. QED
  BY <1>5, <1>7, <1>8, <1>9, <1>10 DEF Bumped

LEMMA NotedIsNoted ==
  ASSUME NEW S, frames \in Seq(S), Shaped, NEW h, NEW v,
         frames' = [i \in DOMAIN frames |-> IF i = h THEN [frames[i] EXCEPT !.object = v] ELSE frames[i]]
  PROVE  Noted(frames, frames', h, v) /\ Shaped'
<1>1. Len(frames) \in Nat /\ DOMAIN frames = 1 .. Len(frames)
  OBVIOUS
<1>2. DOMAIN frames' = DOMAIN frames
  OBVIOUS
<1>3. Len(frames') = Len(frames)
  BY <1>1, <1>2
<1>4. ASSUME NEW i \in DOMAIN frames
      PROVE  /\ frames'[i].node = frames[i].node /\ frames'[i].inScope = frames[i].inScope
             /\ frames'[i].scope_bk = frames[i].scope_bk /\ frames'[i].step_bk = frames[i].step_bk
             /\ frames'[i].next = frames[i].next
             /\ frames'[i].object = IF i = h THEN v ELSE frames[i].object
             /\ DOMAIN frames'[i] = DOMAIN frames[i]
  <2>1. CASE i # h
    <3>1. frames'[i] = frames[i]
      BY <2>1
    <3>2. QED
      BY <2>1, <3>1
  <2>2. CASE i = h
    <3>1. PICK f : f = frames[i]
      OBVIOUS
    <3>2. frames'[i] = [f EXCEPT !.object = v]
      BY <2>2, <3>1
    <3>3. "object" \in DOMAIN f
      BY <3>1 DEF Shaped
    <3>4. PICK g : g = [f EXCEPT !.object = v]
      OBVIOUS
    <3>5. g.node = f.node /\ g.inScope = f.inScope /\ g.next = f.next
      BY <3>4
    <3>6. g.scope_bk = f.scope_bk /\ g.step_bk = f.step_bk
      BY <3>4
    <3>7. DOMAIN g = DOMAIN f
      BY <3>4
    <3>8. g.object = v
      BY <3>3, <3>4
    <3>9. frames'[i] = g
      BY <3>2, <3>4, Zenon
    <3>10. QED
      BY <2>2, <3>1, <3>5, <3>6, <3>7, <3>8, <3>9, ZenonT(30)
  <2>3. QED
    BY <2>1, <2>2
<1>5. QED
  BY <1>2, <1>3, <1>4 DEF Noted, Shaped

LEMMA FrameFields ==
  ASSUME NEW node, NEW inScope
  PROVE  /\ Frame(node, inScope) = [node |-> node, next |-> 1, inScope |-> inScope, object |-> 0,
                                    scope_bk |-> curScope, step_bk |-> curStep]
         /\ {"next", "object"} \subseteq DOMAIN Frame(node, inScope)
         /\ Frame(node, inScope).node = node /\ Frame(node, inScope).next = 1
         /\ Frame(node, inScope).inScope = inScope
  BY DEF Frame

LEMMA ShapeKept ==
  ASSUME ContextKept, Shaped, [CompilerNext]_allVars
  PROVE  Shaped'
<1>1. PICK S : frames \in Seq(S)
  BY DEF ContextKept
<1>2. CASE UNCHANGED frames
  BY <1>2 DEF Shaped
<1>3. CASE frames' = <<>>
  BY <1>3 DEF Shaped
<1>4. CASE CallTopNode
  <2>1. frames' = <<Frame(luaStack[top], FALSE)>>
    BY <1>4 DEF CallTopNode
  <2>2. PICK frame : frame = Frame(luaStack[top], FALSE) /\ {"next", "object"} \subseteq DOMAIN frame
    <3>1. {"next", "object"} \subseteq DOMAIN Frame(luaStack[top], FALSE)
      BY DEF Frame
    <3>2. QED
      BY <3>1, Zenon
  <2>3. DOMAIN frames' = {1} /\ frames'[1] = frame
    BY <2>1, <2>2
  <2>4. {"next", "object"} \subseteq DOMAIN frame
    BY <2>2
  <2>5. QED
    BY <2>3, <2>4 DEF Shaped
<1>5. CASE CallSubnode
  <2>1. frames # <<>>
    BY <1>5 DEF CallSubnode, Running
  <2>2. Bumped(frames, Bump) /\ \A i \in DOMAIN Bump : {"next", "object"} \subseteq DOMAIN Bump[i]
    BY <1>1, <2>1, BumpIsBumped
  <2>3. CASE frames' = Bump
    BY <2>2, <2>3 DEF Shaped
  <2>4. ASSUME NEW node, NEW inScope, frames' = Append(Bump, Frame(node, inScope))
        PROVE  Shaped'
    <3>1. PICK frame : frame = Frame(node, inScope) /\ {"next", "object"} \subseteq DOMAIN frame
      BY FrameFields
    <3>2. PICK T : Bump \in Seq(T)
      BY <1>1, <2>1, BumpAlike
    <3>3. /\ Len(Append(Bump, frame)) = Len(Bump) + 1
          /\ \E U : Append(Bump, frame) \in Seq(U)
          /\ Append(Bump, frame)[Len(Bump) + 1] = frame
          /\ \A i \in 1 .. Len(Bump) : Append(Bump, frame)[i] = Bump[i]
      BY <3>2, PushedFrame, ZenonT(30)
    <3>4. Len(Bump) \in Nat /\ DOMAIN Bump = 1 .. Len(Bump)
      BY <3>2, LenProperties
    <3>5. DOMAIN Append(Bump, frame) = 1 .. Len(Bump) + 1
      BY <3>3, LenProperties
    <3>6. frames' = Append(Bump, frame)
      BY <2>4, <3>1
    <3>7. \A i \in 1 .. Len(Bump) + 1 : i \in 1 .. Len(Bump) \/ i = Len(Bump) + 1
      BY <3>4
    <3>8. QED
      BY <2>2, <3>1, <3>3, <3>4, <3>5, <3>6, <3>7 DEF Shaped
  <2>5. QED
    BY <1>5, <2>3, <2>4 DEF CallSubnode
<1>6. CASE Return
  <2>1. frames # <<>> /\ frames' = Front(frames)
    BY <1>6 DEF Return, Running
  <2>2. /\ frames' \in Seq(S) /\ Len(frames') = Len(frames) - 1
        /\ \A i \in 1 .. Len(frames) - 1 : frames'[i] = frames[i]
    BY <1>1, <2>1, PoppedFrame
  <2>3. Len(frames) \in Nat /\ DOMAIN frames = 1 .. Len(frames) /\ DOMAIN frames' = 1 .. Len(frames')
    BY <1>1, <2>2, LenProperties
  <2>4. \A i \in 1 .. Len(frames) - 1 : i \in DOMAIN frames
    BY <2>3
  <2>5. QED
    BY <2>2, <2>3, <2>4 DEF Shaped
<1>7. CASE set_instance
  <2>1. frames' = [i \in DOMAIN frames |-> IF i = ScopeFrame THEN [frames[i] EXCEPT !.object = calls']
                                           ELSE frames[i]]
    BY <1>7 DEF set_instance
  <2>2. QED
    BY <1>1, <2>1, NotedIsNoted
<1>8. CASE UNCHANGED allVars
  BY <1>2, <1>8 DEF allVars, compilerVars
<1>9. CASE CompilerNext
  <2>1. ASSUME NEW debug \in DebugOutputs, StartRun(debug)
        PROVE  UNCHANGED frames
    BY <2>1 DEF StartRun
  <2>2. CASE mewa_new_compiler \/ mewa_destroy_compiler \/ Parse \/ Parsed
    BY <2>2, <1>2 DEF mewa_new_compiler, mewa_destroy_compiler, Parse, Parsed, compilerVars
  <2>3. CASE ParsingFailed \/ TopNodeWithoutFunction \/ Raise
    BY <2>3, <1>3 DEF ParsingFailed, TopNodeWithoutFunction, Raise, Fail
  <2>4. CASE print \/ \E section \in Sections : print_section(section)
    BY <2>4, <1>2 DEF print, print_section
  <2>5. CASE FinishRun \/ WriteFailed
    BY <2>5, <1>2 DEF FinishRun, WriteFailed
  <2>6. QED
    BY <1>2, <1>4, <1>5, <1>6, <1>7, <1>9, <2>1, <2>2, <2>3, <2>4, <2>5 DEF CompilerNext
<1>10. QED
  BY <1>8, <1>9

-----------------------------------------------------------------------------
\* The first run of a compiler object is traversing the AST it has built
Unset == DOMAIN objects = {} /\ curScope = Global /\ curStep = 0 /\ top = 1

Traversing(W, op) == Traversal(W, op, luaStack, frames, top, objects, curScope, curStep)

Lexical ==
  /\ runs \in Nat
  /\ runs = 0 => stage \in {"none", "idle"} /\ Unset
  /\ runs = 1 /\ stage = "parse" => Unset
  /\ runs = 1 /\ stage = "call" => \E W, op : Traversing(W, op)

LEMMA LuaStackIsSeq ==
  ASSUME Inductive
  PROVE  DOMAIN luaStack = 1 .. Len(luaStack) /\ Len(luaStack) \in Nat
<1>1. \E S : luaStack \in Seq(S)
  BY DEF Inductive, Types
<1>2. QED
  BY <1>1, LenProperties

LEMMA StartTraversal ==
  ASSUME Inductive, NEW W, NEW op, Forest(W, op), Standing(luaStack, W, op),
         Unset, frames = <<>>
  PROVE  Traversing(W, op)
<1>1. Len(frames) = 0 /\ DOMAIN frames = {} /\ 2 .. 0 = {} /\ 1 .. 0 = {} /\ 0 \in Nat
  OBVIOUS
<1>2. DOMAIN luaStack \subseteq Nat
  BY LuaStackIsSeq
<1>3. Path(frames, top, luaStack, W, op)
  BY <1>1, <1>2 DEF Path, Unset
<1>4. InnermostOf(frames, 0, curScope) /\ StepOf(frames, 0) = curStep
  BY <1>1 DEF InnermostOf, StepOf, Unset
<1>5. PutBackRight(frames, curScope, curStep)
  BY <1>1, <1>4 DEF PutBackRight
<1>6. ObjectsKept(frames, top, luaStack, objects)
  BY <1>1 DEF ObjectsKept, Unset
<1>7. QED
  BY <1>3, <1>5, <1>6 DEF Traversing, Traversal

LEMMA CallTopNodeTraversal ==
  ASSUME Inductive, NEW W, NEW op, Traversing(W, op), CallTopNode
  PROVE  Traversing(W, op)'
<1>1. /\ frames = <<>> /\ top <= Len(luaStack) /\ top' = top + 1
      /\ frames' = <<Frame(luaStack[top], FALSE)>>
      /\ luaStack' = luaStack /\ objects' = objects /\ curScope' = curScope /\ curStep' = curStep
  BY DEF CallTopNode, vars
<1>2. PICK frame : frame = Frame(luaStack[top], FALSE)
  OBVIOUS
<1>3. frame.node = luaStack[top] /\ frame.next = 1 /\ frame.inScope = FALSE
  BY <1>2 DEF Frame
<1>4. PICK gs : gs = frames'
  OBVIOUS
<1>5. gs = <<frame>>
  BY <1>1, <1>2, <1>4, Zenon
<1>6. Len(gs) = 1 /\ DOMAIN gs = 1 .. 1 /\ gs[1] = frame
  BY <1>5
<1>7. top \in DOMAIN luaStack
  BY <1>1, LuaStackIsSeq DEF Traversing, Traversal, Path
<1>8. Len(frames) = 0
  BY <1>1
<1>9. Traversal(W, op, luaStack, frames, top, objects, curScope, curStep)
  BY DEF Traversing
<1>10. gs[1].node = luaStack[top] /\ gs[1].next = 1 /\ gs[1].inScope = FALSE
  BY <1>3, <1>6
<1>11. Traversal(W, op, luaStack, gs, top + 1, objects, curScope, curStep)
  BY <1>6, <1>7, <1>8, <1>9, <1>10, TopTraversal
<1>12. QED
  BY <1>1, <1>4, <1>11 DEF Traversing

LEMMA CallSubnodeTraversal ==
  ASSUME MaxFeeds < MaxStep, ContextKept, Shaped, NEW W, NEW op, Traversing(W, op), CallSubnode
  PROVE  Traversing(W, op)'
<1>1. PICK n : n = Len(frames)
  OBVIOUS
<1>2. PICK S : frames \in Seq(S)
  BY DEF ContextKept
<1>3. frames # <<>> /\ luaStack' = luaStack /\ top' = top /\ objects' = objects
  BY DEF CallSubnode, Running, vars
<1>4. n \in Nat /\ n >= 1 /\ DOMAIN frames = 1 .. n /\ n \in 1 .. n /\ n \in DOMAIN frames
  BY <1>1, <1>2, <1>3
<1>5. PICK f : f = frames[n]
  OBVIOUS
<1>6. PICK child : child = f.node.args[f.next]
  OBVIOUS
<1>7. Last(frames) = f
  BY <1>1, <1>5 DEF Last
<1>8. /\ f.next <= Len(f.node.args)
      /\ IF IsLexem(child)
         THEN frames' = Bump /\ UNCHANGED <<curScope, curStep>>
         ELSE /\ frames' = Append(Bump, Frame(child, child.isScope))
              /\ IF child.isScope THEN SetScope(child.scope, DefaultStep(child.scope))
                 ELSE SetStep(child.scope.start)
  BY <1>6, <1>7 DEF CallSubnode
<1>9. /\ Traversal(W, op, luaStack, frames, top, objects, curScope, curStep)
      /\ Path(frames, top, luaStack, W, op) /\ Forest(W, op)
      /\ ObjectsKept(frames, top, luaStack, objects)
  BY DEF Traversing, Traversal
<1>10. f.next \in DOMAIN f.node.args /\ f.next \in Nat
  <2>1. f.node \in W /\ f.next \in Nat \ {0}
    BY <1>4, <1>5, <1>9 DEF Path
  <2>2. Len(f.node.args) \in Nat /\ DOMAIN f.node.args = 1 .. Len(f.node.args)
    BY <1>9, <2>1 DEF Forest, Orderly
  <2>3. QED
    BY <1>8, <2>1, <2>2
<1>11. PICK bs : bs = Bump
  OBVIOUS
<1>12. Bumped(frames, bs)
  BY <1>2, <1>3, <1>11, BumpIsBumped
<1>13. Traversal(W, op, luaStack, bs, top, objects, curScope, curStep)
  BY <1>1, <1>4, <1>9, <1>12, BumpTraversal
<1>14. CASE IsLexem(child)
  <2>1. frames' = bs /\ curScope' = curScope /\ curStep' = curStep
    BY <1>8, <1>11, <1>14
  <2>2. QED
    BY <1>3, <1>13, <2>1 DEF Traversing
<1>15. CASE ~IsLexem(child)
  <2>1. PICK frame : frame = Frame(child, child.isScope)
    OBVIOUS
  <2>2. frame = [node |-> child, next |-> 1, inScope |-> child.isScope, object |-> 0,
                 scope_bk |-> curScope, step_bk |-> curStep]
    BY <2>1 DEF Frame
  <2>3. PICK gs : gs = Append(bs, frame)
    OBVIOUS
  <2>4. frames' = gs
    BY <1>8, <1>11, <1>15, <2>1, <2>3
  <2>5. PICK T : bs \in Seq(T)
    BY <1>2, <1>3, <1>11, BumpAlike
  <2>6. Len(bs) = n /\ SameCalls(frames, bs, n) /\ bs[n].next = f.next + 1
    BY <1>1, <1>5, <1>12 DEF Bumped
  <2>7. /\ Len(gs) = n + 1 /\ gs[n + 1] = frame /\ \A i \in 1 .. n : gs[i] = bs[i]
        /\ \E U : gs \in Seq(U)
    <3>1. /\ \E U : Append(bs, frame) \in Seq(U)
          /\ Len(Append(bs, frame)) = Len(bs) + 1
          /\ Append(bs, frame)[Len(bs) + 1] = frame
          /\ \A i \in 1 .. Len(bs) : Append(bs, frame)[i] = bs[i]
      BY <2>5, PushedFrame
    <3>2. Len(bs) = n
      BY <2>6
    <3>3. QED
      BY <2>3, <3>1, <3>2, Zenon
  <2>8. DOMAIN gs = 1 .. n + 1
    BY <2>7, LenProperties
  <2>9. child = Called(bs, n) /\ bs[n].next - 1 \in DOMAIN bs[n].node.args
    <3>1. bs[n].node = f.node
      BY <1>4, <1>5, <2>6 DEF SameCalls
    <3>2. bs[n].next - 1 = f.next
      BY <1>10, <2>6
    <3>3. QED
      BY <1>6, <1>10, <3>1, <3>2 DEF Called
  <2>10. DOMAIN bs = 1 .. n
    BY <2>5, <2>6, LenProperties
  <2>11. ASSUME NEW s \in DOMAIN objects
         PROVE  \/ s = Global
                \/ \E i \in DOMAIN bs : bs[i].inScope /\ s = bs[i].node.scope
                \/ Before({s}, Extent(child))
    <3>1. CASE Passed(frames, top, luaStack, s)
      <4>1. \A k \in DOMAIN f.node.args : k >= f.next => Before({s}, Extent(f.node.args[k]))
        BY <1>4, <1>5, <3>1 DEF Passed
      <4>2. f.next >= f.next
        BY <1>10
      <4>3. QED
        BY <1>6, <1>10, <4>1, <4>2
    <3>2. CASE \E i \in DOMAIN frames : frames[i].inScope /\ s = frames[i].node.scope
      BY <1>4, <2>6, <2>10, <3>2 DEF SameCalls
    <3>3. QED
      BY <1>9, <3>1, <3>2 DEF ObjectsKept
  <2>12. PICK scope : scope = IF child.isScope THEN child.scope ELSE curScope
    OBVIOUS
  <2>13. PICK step : step = IF child.isScope THEN DefaultStep(child.scope) ELSE child.scope.start
    OBVIOUS
  <2>14. curScope' = scope /\ curStep' = step
    BY <1>8, <1>15, <2>12, <2>13 DEF SetScope, SetStep
  <2>15. Traversal(W, op, luaStack, gs, top, objects, scope, step)
    <3>1. Len(bs) >= 1 /\ Len(gs) = Len(bs) + 1 /\ DOMAIN gs = 1 .. Len(bs) + 1
      BY <1>4, <2>6, <2>7, <2>8
    <3>2. \A i \in 1 .. Len(bs) : gs[i] = bs[i]
      BY <2>6, <2>7
    <3>3. bs[Len(bs)].next - 1 \in DOMAIN bs[Len(bs)].node.args /\ child = Called(bs, Len(bs))
      BY <2>6, <2>9
    <3>4. gs[Len(bs) + 1] = [node |-> child, next |-> 1, inScope |-> child.isScope, object |-> 0,
                             scope_bk |-> curScope, step_bk |-> curStep]
      BY <2>2, <2>6, <2>7
    <3>5. Traversal(W, op, luaStack, gs, top, objects,
                    IF child.isScope THEN child.scope ELSE curScope,
                    IF child.isScope THEN DefaultStep(child.scope) ELSE child.scope.start)
      <4>1. Entered(bs, gs, child, curScope, curStep)
        BY <3>1, <3>2, <3>3, <3>4 DEF Entered
      <4>2. NotOfNext(bs, objects, child)
        BY <2>11 DEF NotOfNext
      <4>3. QED
        BY <1>13, <4>1, <4>2, PushTraversal
    <3>6. QED
      BY <2>12, <2>13, <3>5, Zenon
  <2>16. QED
    BY <1>3, <2>4, <2>14, <2>15 DEF Traversing
<1>16. QED
  BY <1>14, <1>15

LEMMA ReturnTraversal ==
  ASSUME ContextKept, NEW W, NEW op, Traversing(W, op), Return
  PROVE  Traversing(W, op)'
<1>1. PICK n : n = Len(frames)
  OBVIOUS
<1>2. PICK S : frames \in Seq(S)
  BY DEF ContextKept
<1>3. /\ frames # <<>> /\ luaStack' = luaStack /\ top' = top /\ objects' = objects
      /\ frames' = Front(frames) /\ PutBack(Last(frames))
  BY DEF Return, Running, vars
<1>4. n \in Nat /\ n >= 1
  BY <1>1, <1>2, <1>3
<1>5. PICK gs : gs = frames'
  OBVIOUS
<1>6. gs \in Seq(S) /\ Len(gs) = n - 1 /\ \A i \in 1 .. n - 1 : gs[i] = frames[i]
  BY <1>1, <1>2, <1>3, <1>5, PoppedFrame
<1>7. DOMAIN gs = 1 .. n - 1
  BY <1>6, LenProperties
<1>8. /\ n = 1 => curScope' = curScope /\ curStep' = curStep
      /\ n # 1 => /\ curScope' = IF frames[n].inScope THEN frames[n].scope_bk ELSE curScope
                  /\ curStep' = frames[n].step_bk
  BY <1>1, <1>3 DEF PutBack, SetScope, SetStep, Last
<1>9. PICK scope, step : scope = curScope' /\ step = curStep'
  OBVIOUS
<1>10. Traversal(W, op, luaStack, gs, top, objects, scope, step)
  <2>1. Traversal(W, op, luaStack, frames, top, objects, curScope, curStep)
    BY DEF Traversing
  <2>2. /\ Len(frames) >= 1 /\ Len(gs) = Len(frames) - 1 /\ DOMAIN gs = 1 .. Len(frames) - 1
        /\ \A i \in 1 .. Len(frames) - 1 : gs[i] = frames[i]
    BY <1>1, <1>4, <1>6, <1>7
  <2>3. /\ Len(frames) = 1 => scope = curScope /\ step = curStep
        /\ Len(frames) # 1 =>
             /\ scope = IF frames[Len(frames)].inScope THEN frames[Len(frames)].scope_bk ELSE curScope
             /\ step = frames[Len(frames)].step_bk
    BY <1>1, <1>8, <1>9
  <2>4. QED
    BY <2>1, <2>2, <2>3, PopTraversal
<1>11. QED
  BY <1>3, <1>5, <1>9, <1>10 DEF Traversing

\* The frame of the current scope is the innermost one that has one
LEMMA ScopeFrameIsInnermost ==
  ASSUME NEW S, frames \in Seq(S)
  PROVE  InnermostFrame(frames, ScopeFrame)
<1> DEFINE opened == {i \in DOMAIN frames : frames[i].inScope}
<1>1. DOMAIN frames = 1 .. Len(frames) /\ Len(frames) \in Nat
  OBVIOUS
<1>2. ScopeFrame = IF opened = {} THEN 0 ELSE Max(opened)
  BY DEF ScopeFrame
<1>3. CASE opened = {}
  BY <1>2, <1>3 DEF InnermostFrame
<1>4. CASE opened # {}
  <2>1. opened \in SUBSET (1 .. Len(frames))
    BY <1>1
  <2>2. Max(opened) \in opened /\ \A i \in opened : i <= Max(opened)
    BY <1>1, <1>4, <2>1, MaxIsGreatest
  <2>3. ScopeFrame = Max(opened)
    BY <1>2, <1>4
  <2>4. Max(opened) \in DOMAIN frames /\ frames[Max(opened)].inScope
    BY <2>2
  <2>5. ASSUME NEW j \in DOMAIN frames, j > Max(opened)
        PROVE  ~frames[j].inScope
    <3>1. j \in opened => j <= Max(opened)
      BY <2>2
    <3>2. Max(opened) \in Nat /\ j \in Nat
      BY <1>1, <2>4
    <3>3. ~(j <= Max(opened))
      BY <2>5, <3>2
    <3>4. QED
      BY <3>1, <3>3
  <2> HIDE DEF opened
  <2>6. QED
    BY <2>3, <2>4, <2>5 DEF InnermostFrame
<1>5. QED
  BY <1>3, <1>4

LEMMA SetInstanceTraversal ==
  ASSUME ContextKept, Shaped, calls \in Nat, NEW W, NEW op, Traversing(W, op), set_instance
  PROVE  Traversing(W, op)'
<1>1. PICK S : frames \in Seq(S)
  BY DEF ContextKept
<1>2. PICK v : v = calls'
  OBVIOUS
<1>3. PICK h : h = ScopeFrame
  OBVIOUS
<1>4. PICK gs : gs = frames'
  OBVIOUS
<1>5. PICK obj2 : obj2 = objects'
  OBVIOUS
<1>6. /\ frames # <<>> /\ calls' = calls + 1 /\ luaStack' = luaStack /\ top' = top
      /\ curScope' = curScope /\ curStep' = curStep
  BY DEF set_instance, Call, Running, vars
<1>7. v \in Nat \ {0}
  BY <1>2, <1>6
<1>8. Len(frames) >= 1
  BY <1>1, <1>6
<1>9. InnermostFrame(frames, h)
  BY <1>1, <1>3, ScopeFrameIsInnermost
<1>10. Noted(frames, gs, h, v)
  <2>1. frames' = [i \in DOMAIN frames |-> IF i = h THEN [frames[i] EXCEPT !.object = v] ELSE frames[i]]
    BY <1>2, <1>3 DEF set_instance
  <2>2. Noted(frames, frames', h, v)
    BY <1>1, <2>1, NotedIsNoted
  <2>3. QED
    BY <1>4, <2>2, Zenon
<1>11. Put(objects, obj2, curScope, v)
  BY <1>2, <1>5 DEF set_instance, Put
<1>12. Traversal(W, op, luaStack, gs, top, obj2, curScope, curStep)
  BY <1>7, <1>8, <1>9, <1>10, <1>11, SetTraversal DEF Traversing
<1>13. QED
  BY <1>4, <1>5, <1>6, <1>12 DEF Traversing

LEMMA LexicalInductive ==
  ASSUME MaxFeeds < MaxStep, Inductive, ForestKept, ContextKept, Shaped, calls \in Nat,
         Lexical, [CompilerNext]_allVars
  PROVE  Lexical'
<1>1. CASE UNCHANGED allVars
  BY <1>1 DEF allVars, vars, compilerVars, Lexical, Unset, Traversing
<1>2. ASSUME UNCHANGED runs,
             runs = 0 => stage' \in {"none", "idle"} /\ Unset',
             stage' \notin {"parse", "call"}
      PROVE  Lexical'
  BY <1>2 DEF Lexical
<1>3. ASSUME UNCHANGED <<runs, stage>>, stage = "call",
             \A W, op : Traversing(W, op) => Traversing(W, op)'
      PROVE  Lexical'
  BY <1>3 DEF Lexical
<1>4. CASE mewa_new_compiler \/ mewa_destroy_compiler
  BY <1>2, <1>4 DEF mewa_new_compiler, mewa_destroy_compiler, Lexical, Unset
<1>5. ASSUME NEW debug \in DebugOutputs, StartRun(debug)
      PROVE  Lexical'
  BY <1>5 DEF StartRun, Lexical, Unset
<1>6. CASE Parse
  BY <1>6 DEF Parse, compilerVars, Lexical, Unset
<1>7. CASE Parsed
  <2>1. UNCHANGED <<vars, compilerVars>> /\ stage = "parse" /\ stage' = "call"
    BY <1>7 DEF Parsed
  <2>2. PICK W, op : Forest(W, op) /\ Standing(luaStack, W, op)
    BY DEF ForestKept, ForestOf
  <2>3. frames = <<>>
    BY <2>1 DEF ContextKept
  <2>4. Unset => Traversing(W, op)
    BY <2>2, <2>3, StartTraversal
  <2>5. Traversing(W, op) => Traversing(W, op)'
    BY <2>1 DEF Traversing, vars, compilerVars
  <2>6. runs' = runs
    BY <2>1 DEF compilerVars
  <2>7. QED
    BY <2>1, <2>4, <2>5, <2>6 DEF Lexical
<1>8. CASE Fail /\ stage \in {"parse", "call"}
  BY <1>2, <1>8 DEF Fail, Lexical, Unset
<1>9. CASE CallTopNode
  <2>1. UNCHANGED <<runs, stage>> /\ stage = "call"
    BY <1>9 DEF CallTopNode
  <2>2. QED
    BY <1>3, <1>9, <2>1, CallTopNodeTraversal
<1>10. CASE CallSubnode
  <2>1. UNCHANGED <<runs, stage>> /\ stage = "call"
    BY <1>10 DEF CallSubnode, Running
  <2>2. QED
    BY <1>3, <1>10, <2>1, CallSubnodeTraversal
<1>11. CASE Return
  <2>1. UNCHANGED <<runs, stage>> /\ stage = "call"
    BY <1>11 DEF Return, Running
  <2>2. QED
    BY <1>3, <1>11, <2>1, ReturnTraversal
<1>12. CASE set_instance
  <2>1. UNCHANGED <<runs, stage>> /\ stage = "call"
    BY <1>12 DEF set_instance, Call, Running
  <2>2. QED
    BY <1>3, <1>12, <2>1, SetInstanceTraversal
<1>13. CASE print \/ \E section \in Sections : print_section(section)
  <2>1. /\ UNCHANGED <<runs, stage>> /\ stage = "call"
        /\ UNCHANGED <<luaStack, frames, top, objects, curScope, curStep>>
    BY <1>13 DEF print, print_section, Call, Running, vars
  <2>2. \A W, op : Traversing(W, op) => Traversing(W, op)'
    BY <2>1 DEF Traversing
  <2>3. QED
    BY <1>3, <2>1, <2>2
<1>14. CASE FinishRun \/ WriteFailed
  BY <1>2, <1>14 DEF FinishRun, WriteFailed, CallsDone, Lexical, Unset
<1>15. CASE CompilerNext
  <2>1. ParsingFailed \/ TopNodeWithoutFunction \/ Raise => Fail /\ stage \in {"parse", "call"}
    BY DEF ParsingFailed, TopNodeWithoutFunction, Raise, Running
  <2>2. QED
    BY <1>4, <1>5, <1>6, <1>7, <1>8, <1>9, <1>10, <1>11, <1>12, <1>13, <1>14, <1>15, <2>1
       DEF CompilerNext
<1>16. QED
  BY <1>1, <1>15

LEMMA FreshForestNext == (Fresh /\ feeds \in 0 .. MaxFeeds)' => ForestKept'
  BY FreshForest, PTL

LEMMA NewContextForest ==
  ASSUME Inductive, NewContext
  PROVE  ForestKept'
<1>1. feeds \in 0 .. MaxFeeds /\ feeds' = feeds
  BY DEF Inductive, Types, NewContext
<1>2. (Fresh /\ feeds \in 0 .. MaxFeeds)'
  BY <1>1 DEF Fresh, NewContext, NewState
<1>3. QED
  BY <1>2, FreshForestNext

LEMMA LexicalStart == CompilerInit => Shaped /\ Lexical
<1> SUFFICES ASSUME CompilerInit PROVE Shaped /\ Lexical
  OBVIOUS
<1>1. frames = <<>> /\ DOMAIN frames = {} /\ DOMAIN objects = {}
  BY DEF CompilerInit
<1>2. QED
  BY <1>1 DEF CompilerInit, Shaped, Lexical, Unset

LexicalInv == /\ Inductive /\ ScopesBelow /\ ForestKept /\ ContextKept /\ OutputKept
              /\ Shaped /\ Lexical

LEMMA LexicalInEveryRun ==
  ASSUME MaxFeeds < MaxStep
  PROVE  CompilerSpec => []LexicalInv
<1>1. CompilerInit => LexicalInv
  BY InitInductive, InitScopesBelow, InitForestKept, ContextStart, OutputStart, LexicalStart
     DEF CompilerInit, LexicalInv
<1>2. LexicalInv /\ [CompilerNext]_allVars => LexicalInv'
  <2> SUFFICES ASSUME LexicalInv, [CompilerNext]_allVars PROVE LexicalInv'
    OBVIOUS
  <2>1. /\ Inductive /\ ScopesBelow /\ ForestKept /\ ContextKept /\ OutputKept
        /\ Shaped /\ Lexical
    BY DEF LexicalInv
  <2>2. Inductive' /\ ScopesBelow' /\ ForestKept'
    BY <2>1, CompilerStep, NextInductive, NextScopesBelow, NextForestKept,
       NewContextInductive, NewContextKept, NewContextForest
  <2>3. ContextKept' /\ OutputKept' /\ Shaped'
    BY <2>1, ContextInductive, OutputInductive, ShapeKept
  <2>4. calls \in Nat
    BY <2>1 DEF OutputKept
  <2>5. Lexical'
    BY <2>1, <2>4, LexicalInductive
  <2>6. QED
    BY <2>2, <2>3, <2>5 DEF LexicalInv
<1>3. QED
  BY <1>1, <1>2, PTL DEF CompilerSpec

\* What a traversal says of the queries; the function below the top runs last
StepInside(fs, step) == \A i \in DOMAIN fs : fs[i].inScope =>
  fs[i].node.scope.start <= step /\ step < fs[i].node.scope.end

LEMMA StepIsInside ==
  ASSUME NEW W, NEW op, NEW lua, NEW fs, NEW t, Forest(W, op), Path(fs, t, lua, W, op),
         NEW n, n = Len(fs), n > 1
  PROVE  StepInside(fs, StepOf(fs, n)) /\ StepOf(fs, n) \in 0 .. MaxFeeds
<1> DEFINE node == fs[n].node
           start == node.scope.start
           end == node.scope.end
<1>1. n \in Nat /\ DOMAIN fs = 1 .. n /\ n \in DOMAIN fs /\ ~(n <= 1) /\ n # 1
  BY DEF Path
<1>2. node \in W /\ Orderly(op, node) /\ (fs[n].inScope <=> node.isScope)
  BY <1>1 DEF Path, Forest
<1>3. start \in Nat /\ end \in Nat /\ start < end /\ start <= MaxFeeds
  <2>1. node.scope \in Extent(node)
    BY DEF Extent
  <2>2. QED
    BY <1>2, <2>1 DEF Orderly, Scope
<1>4. node.isScope => node.scope \in op[node] /\ end <= MaxFeeds
  BY <1>2 DEF Orderly, Opened
<1>5. StepOf(fs, n) = IF node.isScope THEN end - 1 ELSE start
  BY <1>1, <1>2 DEF StepOf, DefaultStep
<1>6. ASSUME NEW i \in DOMAIN fs, fs[i].inScope
      PROVE  fs[i].node.scope.start <= StepOf(fs, n) /\ StepOf(fs, n) < fs[i].node.scope.end
  <2>1. CASE i = n
    <3>1. node.isScope
      BY <1>2, <1>6, <2>1
    <3>2. start <= end - 1 /\ end - 1 < end
      BY <1>3
    <3>3. QED
      BY <1>5, <2>1, <3>1, <3>2
  <2>2. CASE i # n
    <3>1. i < n /\ n \in DOMAIN fs
      BY <1>1, <2>2
    <3>2. fs[i].node.isScope /\ fs[i].node \in W /\ Orderly(op, fs[i].node)
      BY <1>6 DEF Path, Forest
    <3>3. node.scope \in Extent(node)
      BY DEF Extent
    <3>4. fs[i].node.scope.start <= start /\ end <= fs[i].node.scope.end
      BY <3>1, <3>2, <3>3, InsideOf
    <3>5. node.isScope => end < fs[i].node.scope.end
      BY <1>4, <3>1, <3>2, InsideOf
    <3>6. fs[i].node.scope.start \in Nat /\ fs[i].node.scope.end \in Nat
      BY <3>2 DEF Orderly, Extent, Scope
    <3> HIDE DEF start, end, node
    <3>7. QED
      BY <1>3, <1>5, <3>4, <3>5, <3>6
  <2>3. QED
    BY <2>1, <2>2
<1>7. StepOf(fs, n) \in 0 .. MaxFeeds
  <2> HIDE DEF start, end, node
  <2>1. QED
    BY <1>3, <1>4, <1>5, MaxFeedsAssumption
<1>8. QED
  BY <1>6, <1>7 DEF StepInside

\* The scopes in which an object can be seen
Around(fs, obj) ==
  {s \in DOMAIN obj : s = Global \/ \E i \in DOMAIN fs : fs[i].inScope /\ s = fs[i].node.scope}

LEMMA VisibleIsAround ==
  ASSUME MaxFeeds < MaxStep, NEW W, NEW op, Traversing(W, op), Len(frames) > 1
  PROVE  Dict!Visible(ObjectName, curStep) = Around(frames, objects)
<1>1. PICK n : n = Len(frames)
  OBVIOUS
<1>2. /\ Forest(W, op) /\ Path(frames, top, luaStack, W, op)
      /\ PutBackRight(frames, curScope, curStep) /\ ObjectsKept(frames, top, luaStack, objects)
  BY DEF Traversing, Traversal
<1>3. curStep = StepOf(frames, n) /\ n \in Nat
  BY <1>1, <1>2 DEF PutBackRight, Path
<1>4. StepInside(frames, curStep) /\ curStep \in 0 .. MaxFeeds
  BY <1>1, <1>2, <1>3, StepIsInside
<1>5. Dict!Visible(ObjectName, curStep) = {s \in DOMAIN objects : s.start <= curStep /\ curStep < s.end}
  BY DEF Dict!Visible, Dict!Rules!Covers, ObjectName
<1>6. Global.start <= curStep /\ curStep < Global.end
  BY <1>4, MaxFeedsAssumption, BoundsAssumption DEF Global
<1>7. ASSUME NEW s \in DOMAIN objects, s.start <= curStep, curStep < s.end,
             Passed(frames, top, luaStack, s)
      PROVE  FALSE
  <2>1. n \in 2 .. n
    BY <1>1, <1>3
  <2>2. s.end <= curStep
    BY <1>1, <1>3, <1>7, <2>1 DEF Passed
  <2>3. s.end \in Nat
    BY <1>2 DEF ObjectsKept, Scope
  <2>4. QED
    BY <1>4, <1>7, <2>2, <2>3
<1>8. \A s \in DOMAIN objects : s.start <= curStep /\ curStep < s.end => s \in Around(frames, objects)
  BY <1>2, <1>7 DEF ObjectsKept, Around
<1>9. \A s \in Around(frames, objects) : s.start <= curStep /\ curStep < s.end
  BY <1>4, <1>6 DEF Around, StepInside
<1>10. Around(frames, objects) \subseteq DOMAIN objects
  BY DEF Around
<1>11. QED
  BY <1>5, <1>8, <1>9, <1>10

LEMMA CurrentScope ==
  ASSUME NEW W, NEW op, Traversing(W, op), NEW h, InnermostFrame(frames, h)
  PROVE  curScope = IF h = 0 THEN Global ELSE frames[h].node.scope
<1>1. PICK n : n = Len(frames)
  OBVIOUS
<1>2. DOMAIN frames = 1 .. n /\ n \in Nat /\ InnermostOf(frames, n, curScope)
  BY <1>1 DEF Traversing, Traversal, Path, PutBackRight
<1>3. CASE \E g \in 1 .. n : /\ frames[g].inScope /\ curScope = frames[g].node.scope
                             /\ \A j \in g + 1 .. n : ~frames[j].inScope
  <2>1. PICK g \in 1 .. n : /\ frames[g].inScope /\ curScope = frames[g].node.scope
                            /\ \A j \in g + 1 .. n : ~frames[j].inScope
    BY <1>3
  <2>2. h \in 1 .. n /\ frames[h].inScope /\ \A j \in 1 .. n : j > h => ~frames[j].inScope
    BY <1>2, <2>1 DEF InnermostFrame
  <2>3. ~(g > h)
    BY <2>1, <2>2
  <2>4. ~(h > g)
    <3>1. h > g => h \in g + 1 .. n
      BY <2>2
    <3>2. QED
      BY <2>1, <2>2, <3>1
  <2>5. h = g /\ h # 0
    BY <2>2, <2>3, <2>4
  <2>6. QED
    BY <2>1, <2>5
<1>4. CASE (\A j \in 1 .. n : ~frames[j].inScope) /\ curScope = Global
  BY <1>2, <1>4 DEF InnermostFrame
<1>5. QED
  BY <1>2, <1>3, <1>4 DEF InnermostOf

LEMMA InnermostUnique ==
  ASSUME NEW S \in SUBSET Scope, NEW s \in S,
         \A t \in S : t.start <= s.start /\ s.end <= t.end
  PROVE  Dict!Innermost(S) = s
<1>1. Dict!Innermost(S) = CHOOSE r \in S : \A t \in S : r.start >= t.start /\ r.end <= t.end
  BY DEF Dict!Innermost, Dict!Rules!Contains
<1>2. \A r \in S : r \in Scope
  OBVIOUS
<1>3. \A t \in S : s.start >= t.start /\ s.end <= t.end
  BY <1>2 DEF Scope
<1>4. PICK c : c = Dict!Innermost(S)
  OBVIOUS
<1>5. c \in S /\ \A t \in S : c.start >= t.start /\ c.end <= t.end
  BY <1>1, <1>3, <1>4
<1>6. c.start = s.start /\ c.end = s.end
  <2>1. c.start >= s.start /\ c.end <= s.end /\ c.start <= s.start /\ s.end <= c.end
    BY <1>3, <1>5
  <2>2. c.start \in Nat /\ c.end \in Nat /\ s.start \in Nat /\ s.end \in Nat
    BY <1>2, <1>5 DEF Scope
  <2>3. QED
    BY <2>1, <2>2
<1>7. c = [start |-> c.start, end |-> c.end] /\ s = [start |-> s.start, end |-> s.end]
  BY <1>2, <1>5 DEF Scope
<1>8. c = s
  BY <1>6, <1>7
<1>9. QED
  BY <1>4, <1>8

LEMMA FoundAround ==
  ASSUME MaxFeeds < MaxStep, NEW W, NEW op, Traversing(W, op), Len(frames) > 1
  PROVE  get_instance = SetAround
<1> DEFINE setting == {i \in DOMAIN frames : frames[i].inScope /\ frames[i].object # 0}
           visible == Around(frames, objects)
<1>1. /\ Forest(W, op) /\ Path(frames, top, luaStack, W, op)
      /\ ObjectsKept(frames, top, luaStack, objects)
  BY DEF Traversing, Traversal
<1>2. get_instance = IF visible = {} THEN 0 ELSE objects[Dict!Innermost(visible)]
  BY VisibleIsAround DEF get_instance, Dict!Lookup, ObjectName
<1>3. SetAround = IF setting = {}
                  THEN IF Global \in DOMAIN objects THEN objects[Global] ELSE 0
                  ELSE frames[Max(setting)].object
  BY DEF SetAround, Dict!LookupDef, ObjectName
<1>4. \A i \in DOMAIN frames : frames[i].inScope =>
        (frames[i].object # 0 <=> frames[i].node.scope \in DOMAIN objects)
  BY <1>1 DEF ObjectsKept
<1>5. visible \in SUBSET Scope
  BY <1>1 DEF ObjectsKept, Around
<1>6. CASE setting = {}
  <2>1. \A s \in visible : s = Global
    BY <1>4, <1>6 DEF Around
  <2>2. CASE Global \in DOMAIN objects
    <3>1. visible = {Global}
      BY <2>1, <2>2 DEF Around
    <3>2. 0 <= 0 /\ MaxStep <= MaxStep
      BY BoundsAssumption
    <3>3. Global.start <= Global.start /\ Global.end <= Global.end
      BY <3>2 DEF Global
    <3>4. Global \in visible /\ \A t \in visible : t.start <= Global.start /\ Global.end <= t.end
      BY <3>1, <3>3
    <3> HIDE DEF visible
    <3>5. Dict!Innermost(visible) = Global
      BY <1>5, <3>4, InnermostUnique
    <3>6. QED
      BY <1>2, <1>3, <1>6, <2>2, <3>4, <3>5
  <2>3. CASE Global \notin DOMAIN objects
    <3>1. visible = {}
      BY <2>1, <2>3 DEF Around
    <3>2. QED
      BY <1>2, <1>3, <1>6, <2>3, <3>1
  <2>4. QED
    BY <2>2, <2>3
<1>7. CASE setting # {}
  <2>1. PICK k : k = Max(setting)
    OBVIOUS
  <2>2. k \in setting /\ \A i \in setting : i <= k
    <3>1. setting \in SUBSET (1 .. Len(frames)) /\ Len(frames) \in Nat
      BY <1>1 DEF Path
    <3>2. QED
      BY <1>7, <2>1, <3>1, MaxIsGreatest
  <2>3. k \in DOMAIN frames /\ frames[k].inScope /\ frames[k].object # 0
    BY <2>2
  <2>4. PICK s : s = frames[k].node.scope
    OBVIOUS
  <2>5. s \in DOMAIN objects /\ s \in visible /\ objects[s] = frames[k].object
    BY <1>1, <1>4, <2>3, <2>4 DEF Around, ObjectsKept
  <2>6. s.start \in Nat /\ s.end \in Nat /\ s.end <= MaxFeeds
    <3>1. frames[k].node.isScope /\ Orderly(op, frames[k].node)
      BY <1>1, <2>3 DEF Path, Forest
    <3>2. s \in op[frames[k].node] /\ s \in Scope
      BY <2>4, <3>1 DEF Orderly, Opened, Extent
    <3>3. QED
      BY <3>1, <3>2 DEF Orderly, Scope
  <2>7. ASSUME NEW t \in visible
        PROVE  t.start <= s.start /\ s.end <= t.end
    <3>1. CASE t = Global
      <4>1. 0 <= s.start /\ s.end <= MaxStep
        BY <2>6, MaxFeedsAssumption, BoundsAssumption
      <4>2. QED
        BY <3>1, <4>1 DEF Global
    <3>2. ASSUME NEW i \in DOMAIN frames, frames[i].inScope, t = frames[i].node.scope
          PROVE  t.start <= s.start /\ s.end <= t.end
      <4>1. t \in DOMAIN objects
        BY DEF Around
      <4>2. i \in setting
        BY <1>4, <3>2, <4>1
      <4>3. i <= k
        BY <2>2, <4>2
      <4>4. CASE i = k
        BY <2>4, <2>6, <3>2, <4>4
      <4>5. CASE i # k
        <5>1. i < k
          BY <1>1, <2>3, <4>3, <4>5 DEF Path
        <5>2. /\ frames[k].node.scope.end < frames[i].node.scope.end
              /\ frames[i].node.scope.start <= frames[k].node.scope.start
          BY <1>1, <2>3, <3>2, <5>1, ScopesDiffer
        <5>3. t.end \in Nat
          BY <1>1, <4>1 DEF ObjectsKept, Scope
        <5>4. QED
          BY <2>4, <2>6, <3>2, <5>2, <5>3
      <4>6. QED
        BY <4>4, <4>5
    <3>3. t = Global \/ \E i \in DOMAIN frames : frames[i].inScope /\ t = frames[i].node.scope
      BY DEF Around
    <3>4. QED
      BY <3>1, <3>2, <3>3
  <2> HIDE DEF visible
  <2>8. Dict!Innermost(visible) = s
    BY <1>5, <2>5, <2>7, InnermostUnique
  <2>9. QED
    BY <1>2, <1>3, <1>7, <2>1, <2>5, <2>8
<1>8. QED
  BY <1>6, <1>7

(* What the functions of the nodes find by the numbers of the scopes is    *)
(* what the structure of the AST says: the current scope is that of the    *)
(* innermost node around with one, this_instance returns what was set in   *)
(* it, get_instance what was set in the innermost node around that has set *)
(* an object, and never what was set in a node that was left.  The         *)
(* hypothesis is that the numbers of the scopes do not reach the end of    *)
(* the outermost one, INT_MAX.                                             *)
THEOREM ResolvedAlwaysLexically ==
  ASSUME MaxFeeds < MaxStep
  PROVE  CompilerSpec => []ResolvedLexically
<1>1. LexicalInv => ResolvedLexically
  <2> SUFFICES ASSUME LexicalInv, runs = 1, stage = "call", Len(frames) > 1
               PROVE  /\ curScope = IF ScopeFrame = 0 THEN Global ELSE frames[ScopeFrame].node.scope
                      /\ ScopeFrame # 0 => this_instance = frames[ScopeFrame].object
                      /\ get_instance = SetAround
    BY DEF ResolvedLexically
  <2>1. PICK W, op : Traversing(W, op)
    BY DEF LexicalInv, Lexical
  <2>2. PICK S : frames \in Seq(S)
    BY DEF LexicalInv, ContextKept
  <2>3. InnermostFrame(frames, ScopeFrame)
    BY <2>2, ScopeFrameIsInnermost
  <2>4. curScope = IF ScopeFrame = 0 THEN Global ELSE frames[ScopeFrame].node.scope
    BY <2>1, <2>3, CurrentScope
  <2>5. ScopeFrame # 0 => this_instance = frames[ScopeFrame].object
    <3>1. this_instance = IF curScope \in DOMAIN objects THEN objects[curScope] ELSE 0
      BY DEF this_instance, Dict!LookupDef, ObjectName
    <3>2. ScopeFrame # 0 => ScopeFrame \in DOMAIN frames /\ frames[ScopeFrame].inScope
      BY <2>3 DEF InnermostFrame
    <3>3. \A i \in DOMAIN frames : frames[i].inScope =>
            frames[i].object = IF frames[i].node.scope \in DOMAIN objects
                               THEN objects[frames[i].node.scope] ELSE 0
      BY <2>1 DEF Traversing, Traversal, ObjectsKept
    <3>4. QED
      BY <2>4, <3>1, <3>2, <3>3
  <2>6. get_instance = SetAround
    BY <2>1, FoundAround
  <2>7. QED
    BY <2>4, <2>5, <2>6
<1>2. QED
  BY <1>1, LexicalInEveryRun, PTL
=============================================================================
