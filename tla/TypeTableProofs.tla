--------------------------- MODULE TypeTableProofs ---------------------------
(***************************************************************************)
(* What the lists of types hold and what a query finds in them, for any    *)
(* names, contexts, scopes and overloads.                                  *)
(*                                                                         *)
(* A link leads to a record that was stored later, so that the loop over a *)
(* list passes its records in the order of their definition, and a record  *)
(* that is linked to the last one of a list is found behind all others.    *)
(*                                                                         *)
(* The tree of types is made of the heads of the lists.  If there are no   *)
(* synonyms the head of a list is the first type of its scope, context and *)
(* name, and the lemmas on trees of nodes (InvTreeProofs) say the rest.    *)
(***************************************************************************)
EXTENDS TypeTable, SequenceTheorems, TLAPS

Map == INSTANCE ScopedMapProofs WITH Values <- Nat \ {0}, NullVal <- NoType, Steps <- {}

Nodes == INSTANCE InvTreeProofs WITH NullVal <- {}

Recs == DOMAIN m_typerecMap

Next_(i) == m_typerecMap[i].next

(* A bounded nonempty set of naturals has a greatest element.              *)
LEMMA NatMax ==
  ASSUME NEW T \in SUBSET Nat, T # {}, NEW b \in Nat, \A t \in T : t <= b
  PROVE  \E m \in T : \A n \in T : n <= m
<1> DEFINE f == [t \in T |-> b - t]
<1>1. f \in [T -> Nat]
  OBVIOUS
<1>2. PICK m \in T : \A n \in T : f[m] <= f[n]
  BY <1>1, Nodes!LeastMeasure
<1>3. ASSUME NEW n \in T PROVE n <= m
  <2>1. b - m <= b - n
    BY <1>2
  <2>2. QED
    BY <2>1
<1>4. QED
  BY <1>3

-----------------------------------------------------------------------------
(* Lists.                                                                  *)
Ascends ==
  /\ Len(m_typerecMap) \in Nat /\ Recs = 1 .. Len(m_typerecMap)
  /\ \A i \in Recs : Next_(i) = NoType \/ (Next_(i) \in Recs /\ i < Next_(i))

IsClosed(C) == \A i \in C : Next_(i) \in C \cup {NoType}

LEMMA ListLeast ==
  ASSUME Ascends, NEW h \in Recs
  PROVE  /\ List(h) \subseteq Recs /\ h \in List(h) /\ IsClosed(List(h))
         /\ \A C \in SUBSET Recs : h \in C /\ IsClosed(C) => List(h) \subseteq C
         /\ \A i \in List(h) : h <= i
<1>1. h # NoType /\ h \in Nat
  BY DEF Ascends, NoType
<1>2. List(h) \subseteq Recs /\ h \in List(h)
  BY <1>1 DEF List, Recs
<1>3. \A C \in SUBSET Recs : h \in C /\ IsClosed(C) => List(h) \subseteq C
  BY DEF List, Recs, IsClosed, Next_
<1>4. IsClosed(List(h))
  BY <1>1 DEF List, Recs, IsClosed, Next_, Ascends
<1>5. \A i \in List(h) : h <= i
  <2> DEFINE C == {i \in Recs : h <= i}
  <2>1. h \in C /\ C \in SUBSET Recs
    BY <1>1
  <2>2. IsClosed(C)
    BY DEF Ascends, IsClosed
  <2>3. List(h) \subseteq C
    BY <1>3, <2>1, <2>2
  <2>4. QED
    BY <2>3
<1>6. QED
  BY <1>2, <1>3, <1>4, <1>5

ListsLeast ==
  \A h \in Recs :
    /\ List(h) \subseteq Recs /\ h \in List(h)
    /\ \A i \in List(h) : Next_(i) \in List(h) \cup {NoType}
    /\ \A C \in SUBSET Recs : h \in C /\ (\A i \in C : Next_(i) \in C \cup {NoType}) => List(h) \subseteq C

LEMMA AllListsLeast == Ascends => ListsLeast
BY ListLeast DEF IsClosed, ListsLeast

LEMMA NoList == List(NoType) = {}
<1> DEFINE closed == {C \in SUBSET DOMAIN m_typerecMap :
                        /\ NoType \in C \cup {NoType}
                        /\ \A i \in C : m_typerecMap[i].next \in C \cup {NoType}}
<1>1. {} \in closed
  OBVIOUS
<1>2. List(NoType) = {i \in DOMAIN m_typerecMap : \A C \in closed : i \in C}
  BY DEF List
<1> HIDE DEF closed
<1>3. QED
  BY <1>1, <1>2

(* A list from one of its records on is what is not before the record.     *)
LEMMA ListFrom ==
  ASSUME Ascends, NEW h \in Recs, NEW i \in List(h), NEW j \in List(h)
  PROVE  j \in List(i) <=> i <= j
<1> DEFINE Cut(k) == \A l \in List(h) : l < k \/ l \in List(k)
           T == {k \in List(h) : ~Cut(k)}
<1>1. List(h) \subseteq Recs /\ h \in List(h) /\ IsClosed(List(h)) /\ Recs \subseteq Nat
  BY ListLeast DEF Ascends
<1>2. Cut(h)
  OBVIOUS
<1>3. ASSUME NEW k \in List(h), k # h
      PROVE  \E p \in List(h) : Next_(p) = k
  <2> SUFFICES ASSUME \A p \in List(h) : Next_(p) # k PROVE FALSE
    OBVIOUS
  <2> DEFINE C == List(h) \ {k}
  <2>1. C \in SUBSET Recs /\ h \in C /\ IsClosed(C)
    BY <1>1, <1>3 DEF IsClosed
  <2>2. List(h) \subseteq C
    BY <2>1, ListLeast
  <2>3. QED
    BY <1>3, <2>2
<1>4. T = {}
  <2> SUFFICES ASSUME T # {} PROVE FALSE
    OBVIOUS
  <2>1. T \in SUBSET Nat
    BY <1>1
  <2>2. PICK k \in T : \A l \in T : k <= l
    BY <2>1, Nodes!NatMin
  <2>3. k \in List(h) /\ k # h /\ ~Cut(k)
    BY <1>2, <2>2
  <2> HIDE DEF Cut
  <2>4. PICK p \in List(h) : Next_(p) = k
    BY <1>3, <2>3
  <2>5. p \in Recs /\ p \in Nat /\ k \in Nat /\ p < k /\ k \in Recs
    BY <1>1, <2>3, <2>4 DEF Ascends, NoType
  <2>6. Cut(p)
    BY <2>2, <2>4, <2>5
  <2>7. List(p) \subseteq {p} \cup List(k)
    <3> DEFINE C == {p} \cup List(k)
    <3>1. C \in SUBSET Recs /\ p \in C /\ IsClosed(C)
      BY <2>4, <2>5, ListLeast DEF IsClosed
    <3>2. QED
      BY <2>5, <3>1, ListLeast
  <2>8. Cut(k)
    BY <1>1, <2>5, <2>6, <2>7 DEF Cut
  <2>9. QED
    BY <2>3, <2>8
<1>5. j < i \/ j \in List(i)
  BY <1>4
<1>6. j \in List(i) => i <= j
  BY <1>1, ListLeast
<1>7. i \in Nat /\ j \in Nat
  BY <1>1
<1>8. QED
  BY <1>5, <1>6, <1>7

(* One record of a list is the last one.                                   *)
LEMMA LastOfList ==
  ASSUME Ascends, NEW h \in Recs
  PROVE  /\ Last(h) \in List(h) /\ Next_(Last(h)) = NoType
         /\ \A i \in List(h) : i <= Last(h)
<1>1. List(h) \subseteq Recs /\ h \in List(h) /\ IsClosed(List(h)) /\ Recs \subseteq Nat
  BY ListLeast DEF Ascends
<1>2. PICK m \in List(h) : \A i \in List(h) : i <= m
  <2>1. List(h) \in SUBSET Nat /\ List(h) # {} /\ Len(m_typerecMap) \in Nat
    BY <1>1 DEF Ascends
  <2>2. \A i \in List(h) : i <= Len(m_typerecMap)
    BY <1>1 DEF Ascends
  <2>3. QED
    BY <2>1, <2>2, NatMax
<1>3. Next_(m) = NoType
  <2> SUFFICES ASSUME Next_(m) # NoType PROVE FALSE
    OBVIOUS
  <2>1. Next_(m) \in List(h) /\ m < Next_(m) /\ m \in Nat /\ Next_(m) \in Nat
    BY <1>1 DEF IsClosed, Ascends
  <2>2. QED
    BY <1>2, <2>1
<1>4. ASSUME NEW i \in List(h), Next_(i) = NoType PROVE i = m
  <2>1. i \in Recs /\ {i} \in SUBSET Recs /\ IsClosed({i})
    BY <1>1, <1>4 DEF IsClosed
  <2>2. List(i) \subseteq {i}
    BY <2>1, ListLeast
  <2>3. m \in List(i)
    BY <1>2, ListFrom
  <2>4. QED
    BY <2>2, <2>3
<1>5. Last(h) = m
  BY <1>3, <1>4 DEF Last, Next_
<1>6. QED
  BY <1>2, <1>3, <1>5

Sig(i) == Signature(type_parameters(i))

FindIn(h, types) == findTypeWithSignature(List(h), types)

(* findTypeWithSignature returns the first of the list with the parameters.*)
LEMMA FindsFirst ==
  ASSUME Ascends, NEW h \in Recs, NEW types
  PROVE  \/ /\ FindIn(h, types) = NoType
            /\ \A i \in List(h) : Sig(i) # types
         \/ /\ FindIn(h, types) \in List(h)
            /\ FindIn(h, types) # NoType
            /\ Sig(FindIn(h, types)) = types
            /\ \A i \in List(h) : Sig(i) = types => FindIn(h, types) <= i
<1> DEFINE same == {i \in List(h) : Sig(i) = types}
<1>1. FindIn(h, types)
        = IF same = {} THEN NoType ELSE CHOOSE i \in same : same \subseteq List(i)
  BY DEF FindIn, findTypeWithSignature, Sig
<1>2. CASE same = {}
  BY <1>1, <1>2
<1>3. CASE same # {}
  <2>1. List(h) \subseteq Recs /\ Recs \subseteq Nat /\ NoType \notin Recs
    BY ListLeast DEF Ascends, NoType
  <2>2. same \in SUBSET Nat
    BY <2>1
  <2>3. PICK m \in same : \A i \in same : m <= i
    BY <1>3, <2>2, Nodes!NatMin
  <2>4. ASSUME NEW i \in same PROVE same \subseteq List(i) <=> i = m
    <3>1. \A j \in same : j \in List(i) <=> i <= j
      BY ListFrom
    <3>2. m <= i /\ m \in Nat /\ i \in Nat
      BY <2>2, <2>3
    <3>3. ASSUME i = m PROVE same \subseteq List(i)
      BY <2>3, <3>1, <3>3
    <3>4. ASSUME same \subseteq List(i) PROVE i = m
      <4>1. i <= m
        BY <2>3, <3>1, <3>4
      <4>2. QED
        BY <3>2, <4>1
    <3>5. QED
      BY <3>3, <3>4
  <2>5. FindIn(h, types) = m
    <3>1. FindIn(h, types) = CHOOSE i \in same : same \subseteq List(i)
      BY <1>1, <1>3
    <3> HIDE DEF same
    <3>2. QED
      BY <2>4, <3>1
  <2>6. QED
    BY <2>1, <2>3, <2>5
<1>4. QED
  BY <1>2, <1>3

LEMMA NoneFound == \A types : FindIn(NoType, types) = NoType
BY NoList DEF FindIn, findTypeWithSignature

-----------------------------------------------------------------------------
(* The part of a record in the array of all parameters.                    *)
LEMMA PartKept ==
  ASSUME NEW S, NEW s \in Seq(S), NEW t \in Seq(S), NEW m \in Nat, NEW n \in Nat,
         n > 0 => m >= 1 /\ m + n - 1 <= Len(s)
  PROVE  SubSeq(s \o t, m, m + n - 1) = SubSeq(s, m, m + n - 1)
<1>1. CASE n = 0
  BY <1>1, SubSeqEmpty
<1>2. CASE n > 0
  <2>1. Len(s) \in Nat
    BY LenProperties
  <2>2. m \in 1 .. Len(s) /\ m + n - 1 \in 1 .. Len(s)
    BY <1>2, <2>1
  <2>3. QED
    BY <2>2, SubSeqOfConcat1
<1>3. QED
  BY <1>1, <1>2

PartOf(s, t) == IF t = <<>> THEN 0 ELSE Len(s) + 1

LEMMA PartNew ==
  ASSUME NEW S, NEW s \in Seq(S), NEW t \in Seq(S)
  PROVE  /\ SubSeq(s \o t, PartOf(s, t), PartOf(s, t) + Len(t) - 1) = t
         /\ PartOf(s, t) \in Nat /\ Len(t) \in Nat /\ Len(s) \in Nat
         /\ Len(t) > 0 => PartOf(s, t) = Len(s) + 1
<1>1. Len(s) \in Nat /\ Len(t) \in Nat
  BY LenProperties
<1>2. CASE t = <<>>
  <2>1. Len(t) = 0 /\ PartOf(s, t) = 0
    BY <1>2, EmptySeq DEF PartOf
  <2>2. SubSeq(s \o t, 0, 0 - 1) = <<>>
    BY SubSeqEmpty
  <2>3. QED
    BY <1>1, <1>2, <2>1, <2>2
<1>3. CASE t # <<>>
  <2>1. Len(t) > 0 /\ PartOf(s, t) = Len(s) + 1
    BY <1>3, EmptySeq DEF PartOf
  <2>2. Len(s) + 1 \in Len(s) + 1 .. Len(s) + Len(t) /\ Len(s) + Len(t) \in Len(s) + 1 .. Len(s) + Len(t)
    BY <1>1, <2>1
  <2>3. SubSeq(s \o t, Len(s) + 1, Len(s) + Len(t))
          = SubSeq(t, Len(s) + 1 - Len(s), Len(s) + Len(t) - Len(s))
    BY <2>2, SubSeqOfConcat2
  <2>4. Len(s) + 1 - Len(s) = 1 /\ Len(s) + Len(t) - Len(s) = Len(t) /\ Len(s) + 1 + Len(t) - 1 = Len(s) + Len(t)
    BY <1>1
  <2>5. SubSeq(t, 1, Len(t)) = t
    BY SubSeqFull
  <2>6. QED
    BY <1>1, <2>1, <2>3, <2>4, <2>5
<1>4. QED
  BY <1>2, <1>3

-----------------------------------------------------------------------------
(* What storing a record changes, linked behind the record tail or nowhere.*)
Parameters == Seq([type : Nat, constructor : Nat])

New == Len(m_typerecMap) + 1

KeepsRecord(i) ==
  /\ m_typerecMap'[i].scope = m_typerecMap[i].scope
  /\ m_typerecMap'[i].key = m_typerecMap[i].key
  /\ m_typerecMap'[i].constructor = m_typerecMap[i].constructor
  /\ m_typerecMap'[i].parameter = m_typerecMap[i].parameter
  /\ m_typerecMap'[i].parameterlen = m_typerecMap[i].parameterlen

Stores(scope, key, overload, tail) ==
  /\ tail = NoType \/ (tail \in Recs /\ Next_(tail) = NoType)
  /\ m_typerecMap' \in Seq(TypeRecord)
  /\ Len(m_typerecMap') = New
  /\ \A i \in Recs : KeepsRecord(i) /\ m_typerecMap'[i].next = IF i = tail THEN New ELSE Next_(i)
  /\ m_typerecMap'[New] = Record(scope, key, overload)
  /\ m_parameterMap' = m_parameterMap \o overload.parameter

LEMMA TypedTable ==
  ASSUME TypeOK
  PROVE  /\ Len(m_typerecMap) \in Nat /\ Recs = 1 .. Len(m_typerecMap) /\ NoType \notin Recs
         /\ \A i \in Recs : /\ m_typerecMap[i] \in TypeRecord /\ m_typerecMap[i].key \in Keys
                            /\ m_typerecMap[i].scope \in Scopes
                            /\ m_typerecMap[i].parameter \in Nat /\ m_typerecMap[i].parameterlen \in Nat
         /\ m_parameterMap \in Parameters
<1>1. m_typerecMap \in Seq(TypeRecord) /\ m_parameterMap \in Parameters
  BY DEF TypeOK, Parameters
<1>2. Len(m_typerecMap) \in Nat /\ Recs = 1 .. Len(m_typerecMap)
  BY <1>1, LenProperties DEF Recs
<1>3. \A i \in Recs : m_typerecMap[i] \in TypeRecord
  BY <1>1, <1>2, ElementOfSeq
<1>4. QED
  BY <1>1, <1>2, <1>3 DEF TypeRecord, NoType

LEMMA RecordTyped ==
  ASSUME TypeOK, NEW scope \in Scopes, NEW key \in Keys, NEW overload \in Overloads
  PROVE  /\ Record(scope, key, overload) \in TypeRecord
         /\ overload.parameter \in Parameters
         /\ Record(scope, key, overload).parameter = PartOf(m_parameterMap, overload.parameter)
         /\ Record(scope, key, overload).parameterlen = Len(overload.parameter)
<1>1. overload.parameter \in Parameters /\ overload.constructor \in Nat
  BY ArgsAssumption DEF Parameters
<1>2. m_parameterMap \in Parameters
  BY TypedTable
<1>3. PartOf(m_parameterMap, overload.parameter) \in Nat /\ Len(overload.parameter) \in Nat
  BY <1>1, <1>2, PartNew DEF Parameters
<1>4. QED
  BY <1>1, <1>3 DEF Record, PartOf, TypeRecord, NoType

LEMMA StoresUnlinked ==
  ASSUME TypeOK, NEW scope \in Scopes, NEW key \in Keys, NEW overload \in Overloads,
         m_typerecMap' = Stored(scope, key, overload),
         m_parameterMap' = m_parameterMap \o overload.parameter
  PROVE  Stores(scope, key, overload, NoType)
<1>1. m_typerecMap \in Seq(TypeRecord) /\ Record(scope, key, overload) \in TypeRecord
  BY RecordTyped DEF TypeOK
<1>2. /\ m_typerecMap' \in Seq(TypeRecord) /\ Len(m_typerecMap') = New
      /\ \A i \in 1 .. Len(m_typerecMap) : m_typerecMap'[i] = m_typerecMap[i]
      /\ m_typerecMap'[New] = Record(scope, key, overload)
  BY <1>1, AppendProperties DEF Stored, New
<1>3. QED
  BY <1>2, TypedTable DEF Stores, KeepsRecord, Next_

LEMMA StoresLinked ==
  ASSUME TypeOK, NEW scope \in Scopes, NEW key \in Keys, NEW overload \in Overloads,
         NEW tail \in Recs, Next_(tail) = NoType,
         m_typerecMap' = [Stored(scope, key, overload) EXCEPT ![tail].next = New],
         m_parameterMap' = m_parameterMap \o overload.parameter
  PROVE  Stores(scope, key, overload, tail)
<1> DEFINE stored == Stored(scope, key, overload)
           linked == [m_typerecMap[tail] EXCEPT !.next = New]
<1>1. m_typerecMap \in Seq(TypeRecord) /\ Record(scope, key, overload) \in TypeRecord
  BY RecordTyped DEF TypeOK
<1>2. /\ stored \in Seq(TypeRecord) /\ Len(stored) = New
      /\ \A i \in 1 .. Len(m_typerecMap) : stored[i] = m_typerecMap[i]
      /\ stored[New] = Record(scope, key, overload)
  BY <1>1, AppendProperties DEF Stored, New
<1>3. /\ Len(m_typerecMap) \in Nat /\ Recs = 1 .. Len(m_typerecMap) /\ NoType \notin Recs
      /\ \A i \in Recs : m_typerecMap[i] \in TypeRecord
  BY TypedTable
<1>4. New \in Nat /\ tail \in 1 .. New /\ tail # New
  BY <1>3 DEF New
<1>5. /\ linked \in TypeRecord /\ linked.next = New
      /\ linked.scope = m_typerecMap[tail].scope /\ linked.key = m_typerecMap[tail].key
      /\ linked.constructor = m_typerecMap[tail].constructor
      /\ linked.parameter = m_typerecMap[tail].parameter
      /\ linked.parameterlen = m_typerecMap[tail].parameterlen
  BY <1>3, <1>4 DEF TypeRecord
<1> HIDE DEF linked
<1>6. m_typerecMap' = [stored EXCEPT ![tail] = linked]
  BY <1>2, <1>3 DEF linked
<1> HIDE DEF stored
<1>7. /\ m_typerecMap' \in Seq(TypeRecord) /\ Len(m_typerecMap') = Len(stored)
      /\ \A i \in 1 .. Len(stored) : m_typerecMap'[i] = IF i = tail THEN linked ELSE stored[i]
  <2>1. tail \in 1 .. Len(stored) /\ stored \in Seq(TypeRecord) /\ linked \in TypeRecord
    BY <1>2, <1>4, <1>5
  <2>2. /\ [stored EXCEPT ![tail] = linked] \in Seq(TypeRecord)
        /\ Len([stored EXCEPT ![tail] = linked]) = Len(stored)
        /\ \A i \in 1 .. Len(stored) :
             [stored EXCEPT ![tail] = linked][i] = IF i = tail THEN linked ELSE stored[i]
    BY <2>1, ExceptSeq
  <2>3. QED
    BY <1>6, <2>2
<1>8. m_typerecMap'[New] = Record(scope, key, overload)
  BY <1>2, <1>4, <1>7
<1>9. \A i \in Recs : KeepsRecord(i) /\ m_typerecMap'[i].next = IF i = tail THEN New ELSE Next_(i)
  <2> TAKE i \in Recs
  <2>1. i \in 1 .. Len(stored) /\ stored[i] = m_typerecMap[i]
    BY <1>2, <1>3 DEF New
  <2>2. CASE i = tail
    <3>1. m_typerecMap'[i] = linked
      BY <1>7, <2>1, <2>2
    <3>2. KeepsRecord(i)
      BY <1>5, <2>2, <3>1, Zenon DEF KeepsRecord
    <3>3. m_typerecMap'[i].next = New
      BY <1>5, <3>1, Zenon
    <3>4. QED
      BY <2>2, <3>2, <3>3
  <2>3. CASE i # tail
    BY <1>7, <2>1, <2>3 DEF KeepsRecord, Next_
  <2>4. QED
    BY <2>2, <2>3
<1>10. QED
  BY <1>2, <1>7, <1>8, <1>9 DEF Stores

(* A record stored is shown as it was passed, the others as they were.     *)
LEMMA StoresShown ==
  ASSUME TypeOK, NEW scope \in Scopes, NEW key \in Keys, NEW overload \in Overloads,
         NEW tail, Stores(scope, key, overload, tail)
  PROVE  /\ \A i \in Recs : type_parameters(i)' = type_parameters(i)
         /\ \A i : i = New => type_parameters(i)' = overload.parameter
<1> DEFINE S == [type : Nat, constructor : Nat]
           all == m_parameterMap
           p == overload.parameter
<1>1. all \in Seq(S) /\ p \in Seq(S)
  BY TypedTable, RecordTyped DEF Parameters
<1> HIDE DEF S
<1>2. ASSUME NEW i \in Recs PROVE type_parameters(i)' = type_parameters(i)
  <2> DEFINE m == m_typerecMap[i].parameter
             n == m_typerecMap[i].parameterlen
  <2>1. m \in Nat /\ n \in Nat
    BY TypedTable
  <2>2. n > 0 => m >= 1 /\ m + n - 1 <= Len(all)
    BY DEF TypeOK, Recs
  <2>3. m_typerecMap'[i].parameter = m /\ m_typerecMap'[i].parameterlen = n /\ m_parameterMap' = all \o p
    BY DEF Stores, KeepsRecord
  <2>4. type_parameters(i)' = SubSeq(all \o p, m, m + n - 1)
    BY <2>3 DEF type_parameters
  <2>5. type_parameters(i) = SubSeq(all, m, m + n - 1)
    BY DEF type_parameters
  <2> HIDE DEF m, n
  <2>6. SubSeq(all \o p, m, m + n - 1) = SubSeq(all, m, m + n - 1)
    BY <1>1, <2>1, <2>2, PartKept
  <2>7. QED
    BY <2>4, <2>5, <2>6
<1>3. ASSUME NEW i, i = New PROVE type_parameters(i)' = overload.parameter
  <2>1. m_typerecMap'[i] = Record(scope, key, overload) /\ m_parameterMap' = all \o p
    BY <1>3 DEF Stores
  <2>2. m_typerecMap'[i].parameter = PartOf(all, p) /\ m_typerecMap'[i].parameterlen = Len(p)
    BY <2>1, RecordTyped
  <2>3. type_parameters(i)' = SubSeq(all \o p, PartOf(all, p), PartOf(all, p) + Len(p) - 1)
    BY <2>1, <2>2 DEF type_parameters
  <2>4. SubSeq(all \o p, PartOf(all, p), PartOf(all, p) + Len(p) - 1) = p
    BY <1>1, PartNew
  <2>5. QED
    BY <2>3, <2>4
<1>4. QED
  BY <1>2, <1>3

LEMMA StoresLinks ==
  ASSUME TypeOK, Ascends, NEW scope \in Scopes, NEW key \in Keys, NEW overload \in Overloads,
         NEW tail, Stores(scope, key, overload, tail)
  PROVE  /\ Ascends' /\ New \notin Recs /\ New \in Nat /\ New # NoType
         /\ Recs' = Recs \cup {New}
         /\ \A i \in Recs : Next_(i)' = IF i = tail THEN New ELSE Next_(i)
         /\ \A i : i = New => Next_(i)' = NoType
<1>1. /\ Len(m_typerecMap) \in Nat /\ Recs = 1 .. Len(m_typerecMap)
      /\ New = Len(m_typerecMap) + 1
  BY TypedTable DEF New
<1>2. m_typerecMap' \in Seq(TypeRecord) /\ Len(m_typerecMap') = New
  BY DEF Stores
<1>3. Recs' = 1 .. New
  BY <1>2, LenProperties DEF Recs
<1>4. New \in Nat /\ New # NoType /\ New \notin Recs /\ Recs' = Recs \cup {New}
  BY <1>1, <1>3 DEF NoType
<1>5. \A i \in Recs : Next_(i)' = IF i = tail THEN New ELSE Next_(i)
  BY DEF Stores, Next_
<1>6. \A i : i = New => Next_(i)' = NoType
  BY DEF Stores, Next_, Record
<1>7. \A i \in Recs' : Next_(i)' = NoType \/ (Next_(i)' \in Recs' /\ i < Next_(i)')
  <2> TAKE i \in Recs'
  <2>1. CASE i = New
    BY <1>6, <2>1
  <2>2. CASE i \in Recs /\ i = tail
    <3>1. Next_(i)' = New /\ i < New
      BY <1>1, <1>5, <2>2
    <3>2. QED
      BY <1>4, <3>1
  <2>3. CASE i \in Recs /\ i # tail
    BY <1>4, <1>5, <2>3 DEF Ascends
  <2>4. QED
    BY <1>4, <2>1, <2>2, <2>3
<1>8. Ascends'
  BY <1>2, <1>3, <1>4, <1>7 DEF Ascends
<1>9. QED
  BY <1>4, <1>5, <1>6, <1>8

(* The list with the tail gets the record as its last, no other changes.   *)
LEMMA StoresInList ==
  ASSUME TypeOK, Ascends, NEW scope \in Scopes, NEW key \in Keys, NEW overload \in Overloads,
         NEW tail, Stores(scope, key, overload, tail)
  PROVE  /\ \A h \in Recs : List(h)' = IF tail \in List(h) THEN List(h) \cup {New} ELSE List(h)
         /\ \A h : h = New => List(h)' = {New}
         /\ List(NoType)' = {}
<1>1. /\ Ascends' /\ New \notin Recs /\ New \in Nat /\ New # NoType
      /\ Recs' = Recs \cup {New}
      /\ \A i \in Recs : Next_(i)' = IF i = tail THEN New ELSE Next_(i)
      /\ \A i : i = New => Next_(i)' = NoType
  BY StoresLinks
<1>2. \A h \in Recs' : /\ List(h)' \subseteq Recs' /\ h \in List(h)'
                       /\ \A i \in List(h)' : Next_(i)' \in List(h)' \cup {NoType}
                       /\ \A C \in SUBSET Recs' :
                            h \in C /\ (\A i \in C : Next_(i)' \in C \cup {NoType}) => List(h)' \subseteq C
  <2>1. ListsLeast'
    BY <1>1, AllListsLeast, PTL
  <2>2. QED
    BY <2>1 DEF ListsLeast
<1>3. ASSUME NEW h \in Recs
      PROVE  List(h)' = IF tail \in List(h) THEN List(h) \cup {New} ELSE List(h)
  <2> DEFINE D == IF tail \in List(h) THEN List(h) \cup {New} ELSE List(h)
             B == List(h)' \cap Recs
  <2>1. List(h) \subseteq Recs /\ h \in List(h) /\ \A i \in List(h) : Next_(i) \in List(h) \cup {NoType}
    BY ListLeast DEF IsClosed
  <2>2. List(h)' \subseteq D
    <3>1. D \in SUBSET Recs' /\ h \in D
      BY <1>1, <2>1
    <3>2. \A i \in D : Next_(i)' \in D \cup {NoType}
      BY <1>1, <2>1
    <3>3. h \in Recs'
      BY <1>1
    <3> HIDE DEF D
    <3>4. QED
      BY <1>2, <3>1, <3>2, <3>3
  <2>3. List(h)' \subseteq Recs' /\ h \in List(h)' /\ \A i \in List(h)' : Next_(i)' \in List(h)' \cup {NoType}
    BY <1>1, <1>2
  <2>4. List(h) \subseteq B
    <3>1. B \in SUBSET Recs /\ h \in B
      BY <2>3
    <3>2. \A i \in B : Next_(i) \in B \cup {NoType}
      <4> TAKE i \in B
      <4>1. CASE Next_(i) = NoType
        BY <4>1
      <4>2. CASE Next_(i) # NoType
        <5>1. i \in Recs /\ i # NoType /\ Next_(i) \in Recs
          BY <4>2, TypedTable DEF Ascends
        <5>2. i # tail
          BY <4>2, <5>1 DEF Stores
        <5>3. Next_(i)' = Next_(i)
          BY <1>1, <5>1, <5>2
        <5>4. QED
          BY <2>3, <5>1, <5>3
      <4>3. QED
        BY <4>1, <4>2
    <3> HIDE DEF B
    <3>3. QED
      BY <3>1, <3>2, ListLeast DEF IsClosed
  <2>5. tail \in List(h) => New \in List(h)'
    <3> HAVE tail \in List(h)
    <3>1. tail \in List(h)' /\ tail \in Recs
      BY <2>1, <2>4
    <3>2. Next_(tail)' = New
      BY <1>1, <3>1
    <3>3. QED
      BY <1>1, <2>3, <3>1, <3>2
  <2>6. QED
    BY <2>2, <2>4, <2>5
<1>4. ASSUME NEW h, h = New PROVE List(h)' = {New}
  <2> DEFINE D == {h}
  <2>1. D \in SUBSET Recs' /\ h \in D /\ h \in Recs' /\ \A i \in D : Next_(i)' \in D \cup {NoType}
    BY <1>1, <1>4
  <2> HIDE DEF D
  <2>2. List(h)' \subseteq D /\ h \in List(h)'
    BY <1>2, <2>1
  <2>3. QED
    BY <1>4, <2>2 DEF D
<1>5. List(NoType)' = {}
  <2>1. (List(NoType) = {})'
    BY NoList, PTL
  <2>2. QED
    BY <2>1
<1>6. QED
  BY <1>3, <1>4, <1>5

-----------------------------------------------------------------------------
(* The table of the heads is the ScopedMap the lemmas of ScopedMapProofs   *)
(* are about.                                                              *)
LEMMA MapAssumptions ==
  /\ Map!ScopesAssumption /\ Map!StepsAssumption
  /\ Map!ValuesAssumption /\ Map!MaxElementsAssumption
BY ScopesAssumption, BoundsAssumption
   DEF Map!ScopesAssumption, Map!StepsAssumption, Map!ValuesAssumption, Map!MaxElementsAssumption, NoType

SameMap ==
  /\ \A k, s : Map!Def(k, s) = TypeMap!Def(k, s)
  /\ \A k, s : Map!IsKnown(k, s) <=> TypeMap!IsKnown(k, s)
  /\ \A k, s : Map!IsRefused(k, s) <=> TypeMap!IsRefused(k, s)
  /\ \A k, s : Map!OldValue(k, s) = TypeMap!OldValue(k, s)
  /\ \A k : Map!Elements(k) = TypeMap!Elements(k)
  /\ \A k : Map!Listed(k) = TypeMap!Listed(k)
  /\ \A s, t : Map!Crossing(s, t) <=> TypeMap!Crossing(s, t)
  /\ \A k : Map!Nested(k) <=> Nested(k)
  /\ Map!TypeOK <=> TypeMap!TypeOK

LEMMA AlwaysSameMap == SameMap
<1>1. \A ar, x, Stop : Map!Walk(ar, x, Stop) = TypeMap!Walk(ar, x, Stop)
  BY DEF Map!Walk, TypeMap!Walk, Map!Closed, TypeMap!Closed, Map!NoLink, TypeMap!NoLink
<1>2. \A ar, x, Stop : Map!StopsAt(ar, x, Stop) = TypeMap!StopsAt(ar, x, Stop)
  BY DEF Map!StopsAt, TypeMap!StopsAt, Map!Walk, TypeMap!Walk, Map!Closed, TypeMap!Closed,
         Map!NoLink, TypeMap!NoLink
<1>3. \A ar, x, s : Map!Meets(ar, x, s) = TypeMap!Meets(ar, x, s)
  BY <1>2 DEF Map!Meets, TypeMap!Meets, Map!NotInside, TypeMap!NotInside, Map!Contains, TypeMap!Contains
<1>4. \A s, t : Map!Crossing(s, t) <=> TypeMap!Crossing(s, t)
  BY DEF Map!Crossing, TypeMap!Crossing, Map!Contains, TypeMap!Contains
<1>5. \A k, s : Map!Def(k, s) = TypeMap!Def(k, s)
  BY <1>2 DEF Map!Def, TypeMap!Def, Map!getDef, TypeMap!getDef, Map!findUpValue, TypeMap!findUpValue,
              Map!NoLink, TypeMap!NoLink
<1>6. \A k, s : /\ Map!IsKnown(k, s) <=> TypeMap!IsKnown(k, s)
                /\ Map!IsRefused(k, s) <=> TypeMap!IsRefused(k, s)
                /\ Map!OldValue(k, s) = TypeMap!OldValue(k, s)
  BY <1>3 DEF Map!IsKnown, TypeMap!IsKnown, Map!Known, TypeMap!Known, Map!IsRefused, TypeMap!IsRefused,
              Map!HierarchyError, TypeMap!HierarchyError, Map!OldValue, TypeMap!OldValue,
              Map!NoLink, TypeMap!NoLink, Map!Contains, TypeMap!Contains
<1>7. \A k : Map!Elements(k) = TypeMap!Elements(k)
  BY DEF Map!Elements, TypeMap!Elements
<1>8. \A k : Map!Listed(k) = TypeMap!Listed(k)
  BY <1>1 DEF Map!Listed, TypeMap!Listed
<1>9. \A k : Map!Nested(k) <=> Nested(k)
  BY <1>4, <1>7 DEF Map!Nested, TypeMap!Nested, Nested
<1>10. Map!TypeOK <=> TypeMap!TypeOK
  BY DEF Map!TypeOK, TypeMap!TypeOK, Map!Element, TypeMap!Element
<1>11. QED
  BY <1>4, <1>5, <1>6, <1>7, <1>8, <1>9, <1>10 DEF SameMap

LEMMA SameInsert ==
  ASSUME NEW key, NEW scope, NEW type
  PROVE  Map!Insert(key, scope, type) <=> TypeMap!Insert(key, scope, type)
<1>1. /\ Map!IsKnown(key, scope) <=> TypeMap!IsKnown(key, scope)
      /\ Map!IsRefused(key, scope) <=> TypeMap!IsRefused(key, scope)
  BY AlwaysSameMap DEF SameMap
<1>2. \A ar, x, Stop : /\ Map!StopsAt(ar, x, Stop) = TypeMap!StopsAt(ar, x, Stop)
                       /\ Map!LastPassed(ar, x, Stop) = TypeMap!LastPassed(ar, x, Stop)
  BY DEF Map!StopsAt, TypeMap!StopsAt, Map!LastPassed, TypeMap!LastPassed, Map!Walk, TypeMap!Walk,
         Map!Closed, TypeMap!Closed, Map!NoLink, TypeMap!NoLink
<1>3. \A ar, s : Map!NotInside(ar, s) = TypeMap!NotInside(ar, s)
  BY DEF Map!NotInside, TypeMap!NotInside, Map!Contains, TypeMap!Contains
<1>4. \A ar, x, s : /\ Map!Meets(ar, x, s) = TypeMap!Meets(ar, x, s)
                    /\ Map!Innerlast(ar, x, s) = TypeMap!Innerlast(ar, x, s)
  BY <1>2, <1>3 DEF Map!Meets, TypeMap!Meets, Map!Innerlast, TypeMap!Innerlast
<1>5. \A ends, k : Map!EndsAfter(ends, k) = TypeMap!EndsAfter(ends, k)
                   /\ Map!upper_bound(ends, k) = TypeMap!upper_bound(ends, k)
  BY DEF Map!EndsAfter, TypeMap!EndsAfter, Map!upper_bound, TypeMap!upper_bound
<1>6. \A ar, x, s : Map!rightNeighborUpLink(ar, x, s) = TypeMap!rightNeighborUpLink(ar, x, s)
  BY <1>2 DEF Map!rightNeighborUpLink, TypeMap!rightNeighborUpLink, Map!Contains, TypeMap!Contains
<1>7. \A ar, ends, s : Map!NewPrev(ar, ends, s) = TypeMap!NewPrev(ar, ends, s)
  BY <1>4, <1>5, <1>6 DEF Map!NewPrev, TypeMap!NewPrev, Map!Uplink, TypeMap!Uplink, Map!NoLink, TypeMap!NoLink
<1>8. \A ar, lists, s, n : Map!linkLeftNeighbours(ar, lists, s, n) = TypeMap!linkLeftNeighbours(ar, lists, s, n)
  BY <1>4 DEF Map!linkLeftNeighbours, TypeMap!linkLeftNeighbours, Map!NoLink, TypeMap!NoLink
<1>9. \A ar, ends, s, v : Map!Inserted(ar, ends, s, v) = TypeMap!Inserted(ar, ends, s, v)
  BY <1>7, <1>8 DEF Map!Inserted, TypeMap!Inserted
<1>10. \A ar, ends, s : Map!NewEnds(ar, ends, s) = TypeMap!NewEnds(ar, ends, s)
  BY <1>4 DEF Map!NewEnds, TypeMap!NewEnds, Map!NoLink, TypeMap!NoLink
<1>11. QED
  BY <1>1, <1>9, <1>10 DEF Map!Insert, TypeMap!Insert

HeadOf(scope, key) == TypeMap!Def(key, scope)

Typed == TypeOK /\ Map!IInv /\ Ascends /\ Len(m_typerecMap) <= MaxTypes

(* A scope that is known has a head, the value of one of the elements.     *)
HeadsFound ==
  \A key \in Keys, scope \in Scopes :
    /\ TypeMap!IsKnown(key, scope) <=> HeadOf(scope, key) # NoType
    /\ HeadOf(scope, key) # NoType =>
         /\ TypeMap!OldValue(key, scope) = HeadOf(scope, key)
         /\ HeadOf(scope, key) \in Recs
         /\ \E i \in TypeMap!Elements(key) : /\ m_invtree[i].scope = scope
                                             /\ m_invtree[i].value = HeadOf(scope, key)

LEMMA TypedHeads == Typed => HeadsFound
<1> SUFFICES ASSUME Typed PROVE HeadsFound
  OBVIOUS
<1>1. Map!DefIsOfElement
  BY MapAssumptions, Map!KnownFound DEF Typed
<1>2. \A key \in Keys, scope \in Scopes :
        /\ TypeMap!IsKnown(key, scope) <=> HeadOf(scope, key) # NoType
        /\ TypeMap!IsKnown(key, scope) =>
             /\ TypeMap!OldValue(key, scope) = HeadOf(scope, key)
             /\ \E i \in TypeMap!Elements(key) : /\ m_invtree[i].scope = scope
                                                 /\ m_invtree[i].value = HeadOf(scope, key)
  BY <1>1, AlwaysSameMap DEF Map!DefIsOfElement, SameMap, HeadOf
<1>3. \A key : \A i \in TypeMap!Elements(key) : m_invtree[i].value \in Recs
  BY DEF Typed, TypeOK, TypeMap!Elements, Recs
<1>4. QED
  BY <1>2, <1>3 DEF HeadsFound

(* As long as the scopes nest, every element has its scope for itself.     *)
HeadsExact ==
  \A key \in Keys : Nested(key) =>
    /\ \A i \in TypeMap!Elements(key) : HeadOf(m_invtree[i].scope, key) = m_invtree[i].value
    /\ TypeMap!Listed(key) = TypeMap!Elements(key)

LEMMA NestedHeads == Typed => HeadsExact
<1> SUFFICES ASSUME Typed, NEW key \in Keys, Nested(key)
    PROVE  /\ \A i \in TypeMap!Elements(key) : HeadOf(m_invtree[i].scope, key) = m_invtree[i].value
           /\ TypeMap!Listed(key) = TypeMap!Elements(key)
  BY DEF HeadsExact
<1>1. Map!DefIsExact
  BY MapAssumptions, Map!NestedExact DEF Typed
<1>2. /\ \A scope \in Scopes :
           \/ (\A i \in TypeMap!Elements(key) : m_invtree[i].scope # scope) /\ HeadOf(scope, key) = NoType
           \/ \E i \in TypeMap!Elements(key) : m_invtree[i].scope = scope /\ HeadOf(scope, key) = m_invtree[i].value
      /\ \A i, j \in TypeMap!Elements(key) : m_invtree[i].scope = m_invtree[j].scope => i = j
      /\ TypeMap!Listed(key) = TypeMap!Elements(key)
  BY <1>1, AlwaysSameMap DEF Map!DefIsExact, SameMap, HeadOf
<1>3. \A i \in TypeMap!Elements(key) : m_invtree[i].scope \in Scopes
  <2>1. m_invtree \in Seq(TypeMap!Element) /\ \A i \in TypeMap!Elements(key) : i \in DOMAIN m_invtree
    BY DEF Typed, TypeOK, TypeMap!TypeOK, TypeMap!Elements
  <2>2. \A i \in TypeMap!Elements(key) : m_invtree[i] \in TypeMap!Element
    BY <2>1, ElementOfSeq
  <2>3. QED
    BY <2>2 DEF TypeMap!Element
<1>4. QED
  BY <1>2, <1>3

Enters(scope, key, type) == TypeMap!Insert(key, scope, type)

(* An element stays as it is, with its key.                                *)
KeepsElement(i) ==
  /\ i \in DOMAIN m_invtree' /\ owner'[i] = owner[i]
  /\ m_invtree'[i].scope = m_invtree[i].scope /\ m_invtree'[i].value = m_invtree[i].value

LEMMA EntersElement ==
  ASSUME Typed, NEW scope \in Scopes, NEW key \in Keys, NEW type \in Nat \ {0}, Enters(scope, key, type)
  PROVE  LET n == Len(m_invtree) + 1
         IN  /\ \A i \in DOMAIN m_invtree : KeepsElement(i)
             /\ DOMAIN m_invtree' = DOMAIN m_invtree \cup {n}
             /\ m_invtree'[n].scope = scope /\ m_invtree'[n].value = type /\ owner'[n] = key
             /\ Map!IInv' /\ HeadOf(scope, key) = NoType
<1> DEFINE n == Len(m_invtree) + 1
<1>1. Map!Insert(key, scope, type) /\ Map!IInv
  BY SameInsert DEF Enters, Typed
<1>2. Map!IInv'
  BY <1>1, MapAssumptions, Map!InsertInductive
<1>3. Map!IsExtension(m_invtree, Map!Elements(key), m_map[key], scope, type, m_invtree')
  BY <1>1, MapAssumptions, Map!InsertElements
<1>4. /\ DOMAIN m_invtree' = DOMAIN m_invtree \cup {n}
      /\ m_invtree'[n].scope = scope /\ m_invtree'[n].value = type
      /\ \A i \in DOMAIN m_invtree : /\ m_invtree'[i].scope = m_invtree[i].scope
                                     /\ m_invtree'[i].value = m_invtree[i].value
  BY <1>3 DEF Map!IsExtension
<1>5. owner' = Append(owner, key) /\ owner \in Seq(Keys) /\ Len(owner) = Len(m_invtree)
      /\ m_invtree \in Seq(TypeMap!Element)
  BY DEF Enters, TypeMap!Insert, Typed, TypeOK, TypeMap!TypeOK
<1>6. owner'[n] = key /\ \A i \in DOMAIN m_invtree : owner'[i] = owner[i]
  <2>1. DOMAIN m_invtree = 1 .. Len(owner)
    BY <1>5, LenProperties
  <2>2. QED
    BY <1>5, <2>1, AppendProperties
<1>7. HeadOf(scope, key) = NoType
  BY TypedHeads DEF HeadsFound, Enters, TypeMap!Insert
<1>8. QED
  BY <1>2, <1>4, <1>6, <1>7 DEF KeepsElement

(* What is entered is found; it hides no other list as long as the scopes  *)
(* nest, and none of another context and name.                             *)
LEMMA EntersHeads ==
  ASSUME Typed, NEW scope \in Scopes, NEW key \in Keys, NEW type \in Nat \ {0}, Enters(scope, key, type)
  PROVE  /\ HeadOf(scope, key)' = type
         /\ \A s \in Scopes, k \in Keys : k # key => HeadOf(s, k)' = HeadOf(s, k)
         /\ Nested(key)' => \A s \in Scopes : s # scope => HeadOf(s, key)' = HeadOf(s, key)
<1>1. Map!Insert(key, scope, type) /\ Map!IInv
  BY SameInsert DEF Enters, Typed
<1>2. SameMap /\ SameMap'
  BY AlwaysSameMap, PTL
<1>3. \A s, k : HeadOf(s, k) = Map!Def(k, s) /\ HeadOf(s, k)' = Map!Def(k, s)'
  BY <1>2 DEF HeadOf, SameMap
<1>4. /\ Map!Def(key, scope)' = type
      /\ \A k \in Keys, s \in Scopes : k # key => Map!Def(k, s)' = Map!Def(k, s)
  BY <1>1, MapAssumptions, Map!InsertDef
<1>5. ASSUME Nested(key)', NEW s \in Scopes, s # scope PROVE Map!Def(key, s)' = Map!Def(key, s)
  <2>1. Map!Nested(key)'
    BY <1>2, <1>5 DEF SameMap
  <2>2. QED
    BY <1>1, <1>5, <2>1, MapAssumptions, Map!InsertKeeps
<1>6. QED
  BY <1>3, <1>4, <1>5

LEMMA TableKept ==
  ASSUME m_typeTable' = m_typeTable
  PROVE  /\ \A s, k : HeadOf(s, k)' = HeadOf(s, k)
         /\ \A k : TypeMap!Elements(k)' = TypeMap!Elements(k)
         /\ \A i \in DOMAIN m_invtree : KeepsElement(i)
         /\ DOMAIN m_invtree' = DOMAIN m_invtree
         /\ TypeMap!TypeOK => TypeMap!TypeOK'
<1>1. m_invtree' = m_invtree /\ m_map' = m_map /\ owner' = owner
  BY DEF m_typeTable
<1>2. \A s, k : HeadOf(s, k)' = HeadOf(s, k)
  BY <1>1 DEF HeadOf, TypeMap!Def, TypeMap!getDef, TypeMap!findUpValue, TypeMap!StopsAt, TypeMap!Walk,
              TypeMap!Closed, TypeMap!NoLink
<1>3. QED
  BY <1>1, <1>2 DEF KeepsElement, TypeMap!Elements, TypeMap!TypeOK

(* The four results of a definition.                                       *)
First(scope, key, overload) ==
  /\ Stores(scope, key, overload, NoType) /\ Enters(scope, key, New)
  /\ reply' = New

Linked(scope, key, overload) ==
  /\ HeadOf(scope, key) \in Recs
  /\ FindIn(HeadOf(scope, key), Signature(overload.parameter)) = NoType
  /\ Stores(scope, key, overload, Last(HeadOf(scope, key)))
  /\ m_typeTable' = m_typeTable
  /\ reply' = New

Found(scope, key, overload) ==
  /\ FindIn(HeadOf(scope, key), Signature(overload.parameter)) # NoType /\ HeadOf(scope, key) \in Recs
  /\ Stores(scope, key, overload, NoType)
  /\ m_typeTable' = m_typeTable
  /\ reply' = Duplicate

Refused(scope, key, overload) ==
  /\ Overlaps(scope, key) /\ HeadOf(scope, key) = NoType
  /\ Stores(scope, key, overload, NoType)
  /\ m_typeTable' = m_typeTable
  /\ reply' = Failed

(* Only a scope that overlaps another one of its key is refused.           *)
LEMMA RefusedOverlaps ==
  ASSUME Typed, NEW scope \in Scopes, NEW key \in Keys, TypeMap!IsRefused(key, scope)
  PROVE  Overlaps(scope, key) /\ HeadOf(scope, key) = NoType
<1>1. Map!IsRefused(key, scope) /\ Map!IInv
  BY AlwaysSameMap DEF SameMap, Typed
<1>2. Map!OverlapsDefined(key, scope)
  BY <1>1, MapAssumptions, Map!RefusedOverlaps
<1>3. Overlaps(scope, key)
  BY <1>2, AlwaysSameMap DEF Map!OverlapsDefined, Overlaps, SameMap
<1>4. ~TypeMap!IsKnown(key, scope)
  <2>1. scope.start \in Nat /\ scope.end \in Nat
    BY ScopesAssumption
  <2>2. QED
    BY <2>1 DEF TypeMap!IsKnown, TypeMap!IsRefused, TypeMap!Known, TypeMap!HierarchyError,
                TypeMap!Contains
<1>5. QED
  BY <1>3, <1>4, TypedHeads DEF HeadsFound

LEMMA DefinitionResults ==
  ASSUME Typed, NEW scope \in Scopes, NEW contextType, NEW name \in Names,
         NEW overload \in Overloads, defineType(scope, contextType, name, overload)
  PROVE  /\ Key(contextType, name) \in Keys
         /\ \/ First(scope, Key(contextType, name), overload)
            \/ Linked(scope, Key(contextType, name), overload)
            \/ Found(scope, Key(contextType, name), overload)
            \/ Refused(scope, Key(contextType, name), overload)
<1> DEFINE key == Key(contextType, name)
<1>1. key \in Keys
  <2>1. contextType \in 0 .. MaxTypes
    BY TypedTable, BoundsAssumption DEF defineType, IsContext, Typed
  <2>2. QED
    BY <2>1 DEF Key, Keys
<1>2. m_parameterMap' = m_parameterMap \o overload.parameter
  BY DEF defineType
<1>3. TypeOK /\ Ascends
  BY DEF Typed
<1> HIDE DEF key
<1>4. CASE DefineFirst(scope, key, overload)
  <2>1. Stores(scope, key, overload, NoType)
    BY <1>1, <1>2, <1>3, <1>4, StoresUnlinked DEF DefineFirst
  <2>2. QED
    BY <1>1, <1>4, <2>1 DEF DefineFirst, First, Enters, New, key
<1>5. CASE DefineNext(scope, key, overload)
  <2> DEFINE head == HeadOf(scope, key)
  <2>1. head \in Recs /\ TypeMap!OldValue(key, scope) = head
    BY <1>1, <1>5, TypedHeads DEF DefineNext, HeadsFound
  <2>2. Last(head) \in Recs /\ Next_(Last(head)) = NoType
    BY <1>3, <2>1, LastOfList, ListLeast
  <2>3. m_typerecMap' = [Stored(scope, key, overload) EXCEPT ![Last(head)].next = New]
    BY <1>5, <2>1 DEF DefineNext, New
  <2> HIDE DEF head
  <2>4. Stores(scope, key, overload, Last(head))
    BY <1>1, <1>2, <1>3, <2>2, <2>3, StoresLinked
  <2>5. FindIn(head, Signature(overload.parameter)) = NoType /\ m_typeTable' = m_typeTable /\ reply' = New
    BY <1>5, <2>1 DEF DefineNext, FindIn, New
  <2>6. QED
    BY <1>1, <2>1, <2>4, <2>5 DEF Linked, key, head
<1>6. CASE DefineDuplicate(scope, key, overload)
  <2>1. Stores(scope, key, overload, NoType)
    BY <1>1, <1>2, <1>3, <1>6, StoresUnlinked DEF DefineDuplicate
  <2>2. HeadOf(scope, key) \in Recs /\ TypeMap!OldValue(key, scope) = HeadOf(scope, key)
    BY <1>1, <1>6, TypedHeads DEF DefineDuplicate, HeadsFound
  <2>3. QED
    BY <1>1, <1>6, <2>1, <2>2 DEF DefineDuplicate, Found, FindIn, key
<1>7. CASE DefineRefused(scope, key, overload)
  <2>1. Stores(scope, key, overload, NoType)
    BY <1>1, <1>2, <1>3, <1>7, StoresUnlinked DEF DefineRefused
  <2>2. QED
    BY <1>1, <1>7, <2>1, RefusedOverlaps DEF DefineRefused, Refused, key
<1>8. QED
  BY <1>4, <1>5, <1>6, <1>7 DEF defineType, key

(* A synonym is entered, is there, or is refused.                          *)
LEMMA SynonymResults ==
  ASSUME Typed, NEW scope \in Scopes, NEW contextType, NEW name \in Names, NEW type,
         defineTypeAs(scope, contextType, name, type)
  PROVE  /\ Key(contextType, name) \in Keys /\ type \in Recs
         /\ UNCHANGED <<m_typerecMap, m_parameterMap>>
         /\ m_typeTable' = m_typeTable \/ Enters(scope, Key(contextType, name), type)
<1>1. Key(contextType, name) \in Keys
  <2>1. contextType \in 0 .. MaxTypes
    BY TypedTable, BoundsAssumption DEF defineTypeAs, IsContext, Typed
  <2>2. QED
    BY <2>1 DEF Key, Keys
<1>2. QED
  BY <1>1 DEF defineTypeAs, Recs, Enters

-----------------------------------------------------------------------------
(* Type correctness.                                                       *)
Defines(scope, key, overload) ==
  /\ Len(m_typerecMap) < MaxTypes
  /\ \/ First(scope, key, overload)
     \/ Linked(scope, key, overload)
     \/ Found(scope, key, overload)
     \/ Refused(scope, key, overload)

Names_(scope, key, type) ==
  /\ UNCHANGED <<m_typerecMap, m_parameterMap>>
  /\ Enters(scope, key, type)

LEMMA StepResults ==
  ASSUME Typed, [Next]_vars
  PROVE  \/ \E scope \in Scopes, key \in Keys, overload \in Overloads : Defines(scope, key, overload)
         \/ \E scope \in Scopes, key \in Keys, type \in Recs : Names_(scope, key, type)
         \/ UNCHANGED <<m_typerecMap, m_parameterMap, m_typeTable>>
<1>1. ASSUME NEW scope \in Scopes, NEW contextType \in ContextArgs, NEW name \in Names,
             NEW overload \in Overloads, def_type(scope, contextType, name, overload)
      PROVE  \E key \in Keys : Defines(scope, key, overload)
  BY <1>1, DefinitionResults DEF Typed, def_type, Defines, defineType
<1>2. ASSUME NEW scope \in Scopes, NEW contextType \in ContextArgs, NEW name \in Names,
             NEW type \in AliasArgs, def_type_as(scope, contextType, name, type)
      PROVE  \/ \E key \in Keys, t \in Recs : Names_(scope, key, t)
             \/ UNCHANGED <<m_typerecMap, m_parameterMap, m_typeTable>>
  BY <1>2, SynonymResults DEF Typed, def_type_as, Names_
<1>3. CASE Reject
  BY <1>3 DEF Reject
<1>4. CASE UNCHANGED vars
  BY <1>4 DEF vars
<1>5. QED
  BY <1>1, <1>2, <1>3, <1>4 DEF Next

(* A step changes no element of the table and loses none.                  *)
LEMMA StepGrows ==
  ASSUME Typed, [Next]_vars
  PROVE  /\ \A i \in Recs : m_typerecMap'[i].scope = m_typerecMap[i].scope /\ m_typerecMap'[i].key = m_typerecMap[i].key
         /\ \A i \in DOMAIN m_invtree : KeepsElement(i)
<1>1. ASSUME NEW scope \in Scopes, NEW key \in Keys, NEW overload \in Overloads,
             Defines(scope, key, overload)
      PROVE  /\ \A i \in Recs : KeepsRecord(i)
             /\ \A i \in DOMAIN m_invtree : KeepsElement(i)
  <2>1. \A i \in Recs : KeepsRecord(i)
    BY <1>1 DEF Defines, First, Linked, Found, Refused, Stores
  <2>2. New \in Nat \ {0}
    BY TypedTable DEF New, Typed
  <2>3. m_typeTable' = m_typeTable \/ Enters(scope, key, New)
    BY <1>1 DEF Defines, First, Linked, Found, Refused
  <2>4. QED
    BY <2>1, <2>2, <2>3, EntersElement, TableKept
<1>2. ASSUME NEW scope \in Scopes, NEW key \in Keys, NEW type \in Recs, Names_(scope, key, type)
      PROVE  \A i \in DOMAIN m_invtree : KeepsElement(i)
  <2>1. type \in Nat \ {0}
    BY <1>2, TypedTable DEF NoType, Typed
  <2>2. QED
    BY <1>2, <2>1, EntersElement DEF Names_
<1>3. CASE UNCHANGED <<m_typerecMap, m_parameterMap, m_typeTable>>
  BY <1>3, TableKept
<1>4. QED
  BY <1>1, <1>2, <1>3, StepResults DEF KeepsRecord, Names_

LEMMA StoresTyped ==
  ASSUME Typed, NEW scope \in Scopes, NEW key \in Keys, NEW overload \in Overloads,
         NEW tail, Stores(scope, key, overload, tail), Len(m_typerecMap) < MaxTypes
  PROVE  /\ Ascends' /\ Len(m_typerecMap)' <= MaxTypes
         /\ m_typerecMap' \in Seq(TypeRecord)
         /\ m_parameterMap' \in Seq([type : Nat, constructor : Nat])
         /\ \A i \in DOMAIN m_typerecMap' :
              /\ m_typerecMap'[i].next \in {NoType} \cup DOMAIN m_typerecMap'
              /\ m_typerecMap'[i].parameterlen > 0 =>
                   /\ m_typerecMap'[i].parameter >= 1
                   /\ m_typerecMap'[i].parameter + m_typerecMap'[i].parameterlen - 1 <= Len(m_parameterMap')
<1> USE DEF Typed
<1> DEFINE S == [type : Nat, constructor : Nat]
           all == m_parameterMap
           p == overload.parameter
<1>1. all \in Seq(S) /\ p \in Seq(S)
  BY TypedTable, RecordTyped DEF Parameters
<1>2. m_parameterMap' = all \o p /\ m_typerecMap' \in Seq(TypeRecord) /\ Len(m_typerecMap') = New
  BY DEF Stores
<1> HIDE DEF S
<1>3. all \o p \in Seq(S) /\ Len(all \o p) = Len(all) + Len(p) /\ Len(all) \in Nat /\ Len(p) \in Nat
  BY <1>1, ConcatProperties, LenProperties
<1>4. /\ Ascends' /\ Recs' = Recs \cup {New} /\ New \in Nat
      /\ \A i : i = New => Next_(i)' = NoType
  BY StoresLinks
<1>5. Len(m_typerecMap)' <= MaxTypes
  BY <1>2, TypedTable, BoundsAssumption DEF New
<1>6. ASSUME NEW i \in DOMAIN m_typerecMap'
      PROVE  m_typerecMap'[i].next \in {NoType} \cup DOMAIN m_typerecMap'
  BY <1>4 DEF Ascends, Recs, Next_
<1>7. ASSUME NEW i \in DOMAIN m_typerecMap', m_typerecMap'[i].parameterlen > 0
      PROVE  /\ m_typerecMap'[i].parameter >= 1
             /\ m_typerecMap'[i].parameter + m_typerecMap'[i].parameterlen - 1 <= Len(m_parameterMap')
  <2>1. CASE i \in Recs
    <3> DEFINE m == m_typerecMap[i].parameter
               n == m_typerecMap[i].parameterlen
    <3>1. m_typerecMap'[i].parameter = m /\ m_typerecMap'[i].parameterlen = n /\ m \in Nat /\ n \in Nat
      BY <2>1, TypedTable DEF Stores, KeepsRecord
    <3>2. n > 0 => m >= 1 /\ m + n - 1 <= Len(all)
      BY <2>1 DEF TypeOK, Recs
    <3> HIDE DEF m, n
    <3>3. m >= 1 /\ m + n - 1 <= Len(all)
      BY <1>7, <3>1, <3>2
    <3>4. m + n - 1 <= Len(all) + Len(p)
      BY <1>3, <3>1, <3>3
    <3>5. QED
      BY <1>2, <1>3, <3>1, <3>3, <3>4
  <2>2. CASE i = New
    <3>1. m_typerecMap'[i] = Record(scope, key, overload)
      BY <2>2 DEF Stores
    <3>2. m_typerecMap'[i].parameter = PartOf(all, p) /\ m_typerecMap'[i].parameterlen = Len(p)
      BY <3>1, RecordTyped
    <3>3. Len(p) > 0 => PartOf(all, p) = Len(all) + 1
      BY <1>1, PartNew
    <3>4. PartOf(all, p) = Len(all) + 1
      BY <1>7, <3>2, <3>3
    <3>5. Len(all) + 1 >= 1 /\ Len(all) + 1 + Len(p) - 1 <= Len(all) + Len(p)
      <4>1. \A m, n \in Nat : m + 1 >= 1 /\ m + 1 + n - 1 <= m + n
        OBVIOUS
      <4>2. QED
        BY <1>3, <4>1
    <3>6. QED
      BY <1>2, <1>3, <3>2, <3>4, <3>5
  <2>3. QED
    BY <1>4, <2>1, <2>2 DEF Recs
<1>8. QED
  BY <1>2, <1>3, <1>4, <1>5, <1>6, <1>7 DEF S

(* The handles in the table are indices of records after a step, too.      *)
LEMMA EntersTyped ==
  ASSUME Typed, NEW scope \in Scopes, NEW key \in Keys, NEW type \in Nat \ {0}, type \in Recs',
         Recs \subseteq Recs', Enters(scope, key, type)
  PROVE  /\ TypeMap!TypeOK' /\ Map!IInv'
         /\ \A i \in DOMAIN m_invtree' : m_invtree'[i].value \in Recs'
<1>1. Map!IInv'
  BY EntersElement
<1>2. Map!TypeOK'
  BY <1>1 DEF Map!IInv
<1>3. SameMap'
  BY AlwaysSameMap, PTL
<1>4. TypeMap!TypeOK'
  BY <1>2, <1>3 DEF SameMap
<1>5. \A i \in DOMAIN m_invtree : m_invtree[i].value \in Recs
  BY DEF Typed, TypeOK, Recs
<1>6. \A i \in DOMAIN m_invtree' : m_invtree'[i].value \in Recs'
  <2>1. PICK n : /\ DOMAIN m_invtree' = DOMAIN m_invtree \cup {n} /\ m_invtree'[n].value = type
                 /\ \A i \in DOMAIN m_invtree : KeepsElement(i)
    BY EntersElement
  <2>2. QED
    BY <1>5, <2>1 DEF KeepsElement
<1>7. QED
  BY <1>1, <1>4, <1>6

LEMMA KeptTyped ==
  ASSUME Typed, m_typeTable' = m_typeTable, Recs \subseteq Recs'
  PROVE  /\ TypeMap!TypeOK' /\ Map!IInv'
         /\ \A i \in DOMAIN m_invtree' : m_invtree'[i].value \in Recs'
<1>1. Map!IInv /\ TypeMap!TypeOK /\ \A i \in DOMAIN m_invtree : m_invtree[i].value \in Recs
  BY DEF Typed, TypeOK, Recs
<1>2. UNCHANGED <<m_invtree, m_map, owner>>
  BY DEF m_typeTable
<1>3. Map!IInv'
  BY <1>1, <1>2, MapAssumptions, Map!InsertInductive
<1>4. QED
  BY <1>1, <1>2, <1>3, TableKept

LEMMA TypedStep == Typed /\ [Next]_vars => Typed'
<1> SUFFICES ASSUME Typed, [Next]_vars PROVE Typed'
  OBVIOUS
<1>2. ASSUME NEW scope \in Scopes, NEW key \in Keys, NEW overload \in Overloads,
             Defines(scope, key, overload)
      PROVE  Typed'
  <2>1. PICK tail : Stores(scope, key, overload, tail)
    BY <1>2 DEF Defines, First, Linked, Found, Refused
  <2>2. Recs' = Recs \cup {New} /\ New \in Nat \ {0}
    BY <2>1, StoresLinks DEF Typed, NoType
  <2>3. /\ TypeMap!TypeOK' /\ Map!IInv'
        /\ \A i \in DOMAIN m_invtree' : m_invtree'[i].value \in Recs'
    <3>1. CASE m_typeTable' = m_typeTable
      BY <2>2, <3>1, KeptTyped
    <3>2. CASE Enters(scope, key, New)
      <4>1. New \in Recs' /\ Recs \subseteq Recs'
        BY <2>2
      <4>2. QED
        BY <1>2, <2>2, <3>2, <4>1, EntersTyped
    <3>3. QED
      BY <1>2, <3>1, <3>2 DEF Defines, First, Linked, Found, Refused
  <2>4. QED
    BY <1>2, <2>1, <2>3, StoresTyped DEF Typed, TypeOK, Recs, Defines
<1>3. ASSUME NEW scope \in Scopes, NEW key \in Keys, NEW type \in Recs, Names_(scope, key, type)
      PROVE  Typed'
  <2>1. Recs' = Recs /\ Enters(scope, key, type)
    BY <1>3 DEF Names_, Recs
  <2>2. type \in Nat \ {0}
    BY TypedTable DEF NoType, Typed
  <2>3. /\ TypeMap!TypeOK' /\ Map!IInv'
        /\ \A i \in DOMAIN m_invtree' : m_invtree'[i].value \in Recs'
    BY <1>3, <2>1, <2>2, EntersTyped
  <2>4. QED
    BY <1>3, <2>3 DEF Typed, TypeOK, Recs, Names_, Ascends, Next_
<1>4. CASE UNCHANGED <<m_typerecMap, m_parameterMap, m_typeTable>>
  <2>1. Recs' = Recs
    BY <1>4 DEF Recs
  <2>2. /\ TypeMap!TypeOK' /\ Map!IInv'
        /\ \A i \in DOMAIN m_invtree' : m_invtree'[i].value \in Recs'
    BY <1>4, <2>1, KeptTyped
  <2>3. QED
    BY <1>4, <2>2 DEF Typed, TypeOK, Recs, Ascends, Next_
<1>5. QED
  BY <1>2, <1>3, <1>4, StepResults

LEMMA TypedInit == Init => Typed
<1> SUFFICES ASSUME Init PROVE Typed
  OBVIOUS
<1>1. m_typerecMap \in Seq(TypeRecord) /\ m_parameterMap \in Seq([type : Nat, constructor : Nat])
  BY EmptySeq DEF Init
<1>2. Len(m_typerecMap) = 0 /\ Recs = {}
  <2>1. Len(m_typerecMap) = 0
    BY EmptySeq DEF Init
  <2>2. QED
    BY <1>1, <2>1, LenProperties DEF Recs
<1>3. Ascends
  BY <1>2 DEF Ascends
<1>4. /\ m_invtree = <<>> /\ owner = <<>> /\ m_map = [k \in Keys |-> [e \in {} |-> 0]]
  BY DEF Init
<1>5. Map!TypeOK /\ Map!Ordered /\ Map!UplinksSound
  <2>1. Map!TypeOK
    BY <1>4, MapAssumptions DEF Map!TypeOK, Map!MaxElementsAssumption
  <2>2. Map!Ordered /\ Map!UplinksSound
    BY <1>4 DEF Map!Ordered, Map!Ascending, Map!UplinksSound, Map!WellLinked, Map!EndsLeadToInnermost,
                Map!Elements
  <2>3. QED
    BY <2>1, <2>2
<1>6. Map!IInv /\ TypeMap!TypeOK
  BY <1>5, AlwaysSameMap DEF Map!IInv, SameMap
<1>7. DOMAIN m_invtree = {}
  BY <1>4
<1>8. QED
  BY <1>1, <1>2, <1>3, <1>6, <1>7, BoundsAssumption DEF Typed, TypeOK, Recs

LEMMA AlwaysTyped == Spec => []Typed
BY TypedInit, TypedStep, PTL DEF Spec

(* Every handle in the table and in a link is the index of a record, and   *)
(* every record's parameters are inside the array of all parameters.       *)
THEOREM TypeCorrect == Spec => []TypeOK
<1>1. Typed => TypeOK
  BY DEF Typed
<1>2. QED
  BY <1>1, AlwaysTyped, PTL

-----------------------------------------------------------------------------
(* What is found stays found.                                              *)
FindsTheFirst ==
  \A h \in Recs : \A types :
    \/ /\ FindIn(h, types) = NoType
       /\ \A i \in List(h) : Sig(i) # types
    \/ /\ FindIn(h, types) \in List(h)
       /\ FindIn(h, types) # NoType
       /\ Sig(FindIn(h, types)) = types
       /\ \A i \in List(h) : Sig(i) = types => FindIn(h, types) <= i

LEMMA AllFindsFirst == Ascends => FindsTheFirst
BY FindsFirst DEF FindsTheFirst

FirstIsFound ==
  \A h \in Recs : \A types : \A i \in List(h) :
    Sig(i) = types /\ (\A j \in List(h) : Sig(j) = types => i <= j) => FindIn(h, types) = i

LEMMA AllFirstIsFound == Ascends => FirstIsFound
<1> SUFFICES ASSUME Ascends, NEW h \in Recs, NEW types, NEW i \in List(h),
                    Sig(i) = types, \A j \in List(h) : Sig(j) = types => i <= j
             PROVE  FindIn(h, types) = i
  BY DEF FirstIsFound
<1> DEFINE f == FindIn(h, types)
<1>1. f \in List(h) /\ i <= f /\ f <= i
  BY FindsFirst
<1>2. i \in Nat /\ f \in Nat
  BY <1>1, ListLeast DEF Ascends
<1>3. QED
  BY <1>1, <1>2

AsksHead ==
  \A scope, key, types, h :
    h = HeadOf(scope, key) => /\ getType(scope, key, types) = FindIn(h, types)
                             /\ getTypes(scope, key) = List(h)

LEMMA AlwaysAsksHead == AsksHead
BY NoList DEF AsksHead, getType, getTypes, HeadOf, FindIn

SigShown == \A i : Sig(i) = Signature(type_parameters(i))

LEMMA AlwaysSigShown == SigShown
BY DEF SigShown, Sig

(* Storing a record keeps the signatures and what is found in a list.      *)
LEMMA StoresKeepsFound ==
  ASSUME Typed, NEW scope \in Scopes, NEW key \in Keys, NEW overload \in Overloads,
         NEW tail, Stores(scope, key, overload, tail),
         NEW h \in Recs, NEW types, FindIn(h, types) # NoType
  PROVE  FindIn(h, types)' = FindIn(h, types)
<1>0. PICK f : f = FindIn(h, types)
  OBVIOUS
<1>1. /\ Ascends' /\ Recs' = Recs \cup {New} /\ New \notin Recs
      /\ List(h)' = List(h) \/ List(h)' = List(h) \cup {New}
  BY StoresLinks, StoresInList DEF Typed
<1>2. f \in List(h) /\ Sig(f) = types /\ \A i \in List(h) : Sig(i) = types => f <= i
  BY <1>0, FindsFirst DEF Typed
<1>3. List(h) \subseteq Recs /\ Recs = 1 .. Len(m_typerecMap) /\ Len(m_typerecMap) \in Nat
  BY ListLeast DEF Typed, Ascends
<1>4. \A i \in Recs : Sig(i)' = Sig(i)
  <2>1. SigShown'
    BY AlwaysSigShown, PTL
  <2>2. QED
    BY <2>1, StoresShown DEF SigShown, Sig, Typed
<1>5. \A i \in List(h)' : Sig(i)' = types => f <= i
  <2> TAKE i \in List(h)'
  <2>1. CASE i \in List(h)
    BY <1>2, <1>3, <1>4, <2>1
  <2>2. CASE i = New
    BY <1>2, <1>3, <2>2 DEF New
  <2>3. QED
    BY <1>1, <2>1, <2>2
<1>6. FirstIsFound'
  BY <1>1, AllFirstIsFound, PTL
<1>7. f \in List(h)' /\ Sig(f)' = types /\ h \in Recs'
  BY <1>1, <1>2, <1>3, <1>4
<1>8. FindIn(h, types)' = f
  BY <1>5, <1>6, <1>7 DEF FirstIsFound
<1>9. QED
  BY <1>0, <1>8

LEMMA UnchangedAnswers ==
  ASSUME UNCHANGED <<m_typerecMap, m_parameterMap>>
  PROVE  /\ \A h : List(h)' = List(h)
         /\ \A i : Sig(i)' = Sig(i) /\ type_parameters(i)' = type_parameters(i)
         /\ \A h, types : FindIn(h, types)' = FindIn(h, types)
         /\ Recs' = Recs /\ \A i : Next_(i)' = Next_(i)
BY DEF List, Sig, type_parameters, FindIn, findTypeWithSignature, Recs, Next_

(* What a list has for parameters it has after the next call.              *)
LEMMA FoundStays ==
  ASSUME Typed, [Next]_vars, NEW h \in Recs, NEW types, FindIn(h, types) # NoType
  PROVE  FindIn(h, types)' = FindIn(h, types)
<1>1. ASSUME NEW scope \in Scopes, NEW key \in Keys, NEW overload \in Overloads,
             Defines(scope, key, overload)
      PROVE  FindIn(h, types)' = FindIn(h, types)
  <2>1. PICK tail : Stores(scope, key, overload, tail)
    BY <1>1 DEF Defines, First, Linked, Found, Refused
  <2>2. QED
    BY <2>1, StoresKeepsFound
<1>2. CASE UNCHANGED <<m_typerecMap, m_parameterMap>>
  BY <1>2, UnchangedAnswers
<1>3. QED
  BY <1>1, <1>2, StepResults DEF Names_

(* The head of a list is found for as long as the scopes nest.             *)
LEMMA HeadStays ==
  ASSUME Typed, [Next]_vars, NEW s \in Scopes, NEW k \in Keys, HeadOf(s, k) # NoType, Nested(k)'
  PROVE  HeadOf(s, k)' = HeadOf(s, k)
<1>1. ASSUME NEW scope \in Scopes, NEW key \in Keys, NEW type \in Nat \ {0}, Enters(scope, key, type)
      PROVE  HeadOf(s, k)' = HeadOf(s, k)
  <2>1. HeadOf(scope, key) = NoType
    BY <1>1, EntersElement
  <2>2. CASE k # key
    BY <1>1, <2>2, EntersHeads
  <2>3. CASE k = key
    <3>1. s # scope /\ Nested(key)'
      BY <2>1, <2>3
    <3>2. QED
      BY <1>1, <2>3, <3>1, EntersHeads
  <2>4. QED
    BY <2>2, <2>3
<1>2. ASSUME m_typeTable' = m_typeTable PROVE HeadOf(s, k)' = HeadOf(s, k)
  BY <1>2, TableKept
<1>3. New \in Nat \ {0} /\ Recs \subseteq Nat \ {0}
  BY TypedTable DEF New, Typed, NoType
<1>4. QED
  BY <1>1, <1>2, <1>3, StepResults DEF Defines, First, Linked, Found, Refused, Names_

ShownOf ==
  \A i : Shown(i) = [scope |-> m_typerecMap[i].scope, context |-> m_typerecMap[i].key.contextType,
                     name |-> m_typerecMap[i].key.name, constructor |-> m_typerecMap[i].constructor,
                     parameters |-> type_parameters(i), nof |-> Len(type_parameters(i))]

LEMMA AlwaysShownOf == ShownOf
BY DEF ShownOf, Shown, type_scope, type_context, type_name, type_constructor, type_nof_parameters

(* A handle shows after the next call what it showed before.               *)
LEMMA ShownStays ==
  ASSUME Typed, [Next]_vars, NEW i \in Recs
  PROVE  Shown(i)' = Shown(i)
<1>1. ShownOf /\ ShownOf'
  BY AlwaysShownOf, PTL
<1>2. ASSUME NEW scope \in Scopes, NEW key \in Keys, NEW overload \in Overloads,
             Defines(scope, key, overload)
      PROVE  Shown(i)' = Shown(i)
  <2>1. PICK tail : Stores(scope, key, overload, tail)
    BY <1>2 DEF Defines, First, Linked, Found, Refused
  <2>2. KeepsRecord(i)
    BY <2>1 DEF Stores
  <2>3. type_parameters(i)' = type_parameters(i)
    BY <2>1, StoresShown DEF Typed
  <2>4. QED
    BY <1>1, <2>2, <2>3 DEF ShownOf, KeepsRecord
<1>3. CASE UNCHANGED <<m_typerecMap, m_parameterMap>>
  BY <1>1, <1>3, UnchangedAnswers DEF ShownOf
<1>4. QED
  BY <1>2, <1>3, StepResults DEF Names_

(* The list found for a scope, context and name is found after any call    *)
(* that leaves the scopes of this context and name nested, synonyms and    *)
(* refused definitions included, and a parameter list found in it leads to *)
(* the same type; a handle shows the same after any call.                  *)
THEOREM HandlesAlwaysStable == Spec => HandlesStable
<1> DEFINE Stable ==
      /\ \A scope \in Scopes, key \in Keys :
           \A head \in {TypeMap!Def(key, scope)} \ {NoType} : Nested(key)' =>
             /\ TypeMap!Def(key, scope)' = head
             /\ \A types \in Signatures :
                  LET found == findTypeWithSignature(List(head), types)
                  IN  found # NoType => findTypeWithSignature(List(head), types)' = found
      /\ \A type \in DOMAIN m_typerecMap : Shown(type)' = Shown(type)
<1>1. Typed /\ [Next]_vars => Stable
  <2> SUFFICES ASSUME Typed, [Next]_vars PROVE Stable
    OBVIOUS
  <2>1. ASSUME NEW scope \in Scopes, NEW key \in Keys, NEW head, head = HeadOf(scope, key), head # NoType,
               Nested(key)'
        PROVE  /\ HeadOf(scope, key)' = head
               /\ \A types : FindIn(head, types) # NoType => FindIn(head, types)' = FindIn(head, types)
    <3>1. head \in Recs
      BY <2>1, TypedHeads DEF HeadsFound
    <3>2. QED
      BY <2>1, <3>1, HeadStays, FoundStays
  <2>2. \A type \in DOMAIN m_typerecMap : Shown(type)' = Shown(type)
    BY ShownStays DEF Recs
  <2>3. QED
    BY <2>1, <2>2 DEF HeadOf, FindIn
<1>2. HandlesStable <=> [][Stable]_vars
  BY DEF HandlesStable
<1> HIDE DEF Stable
<1>3. QED
  BY <1>1, <1>2, AlwaysTyped, PTL DEF Spec

-----------------------------------------------------------------------------
(* What is defined is found.                                               *)
LEMMA NewIsFound ==
  ASSUME Typed, NEW scope \in Scopes, NEW key \in Keys, NEW overload \in Overloads,
         First(scope, key, overload) \/ Linked(scope, key, overload),
         NEW new, new = New
  PROVE  /\ getType(scope, key, Signature(overload.parameter))' = new
         /\ m_typerecMap'[new] = Record(scope, key, overload)
         /\ type_parameters(new)' = overload.parameter
<1> DEFINE types == Signature(overload.parameter)
<1>1. PICK tail : Stores(scope, key, overload, tail)
  BY DEF First, Linked
<1>2. m_typerecMap'[new] = Record(scope, key, overload) /\ type_parameters(new)' = overload.parameter
  BY <1>1, StoresShown DEF Stores, Typed
<1>3. /\ Ascends' /\ Recs' = Recs \cup {new} /\ Recs = 1 .. Len(m_typerecMap)
      /\ Len(m_typerecMap) \in Nat /\ new = Len(m_typerecMap) + 1
  BY <1>1, StoresLinks, TypedTable DEF Typed, New
<1>4. Sig(new)' = types /\ \A i \in Recs : Sig(i)' = Sig(i)
  <2>1. SigShown'
    BY AlwaysSigShown, PTL
  <2>2. QED
    BY <1>1, <1>2, <2>1, StoresShown DEF SigShown, Sig, Typed
<1>5. AsksHead' /\ FirstIsFound'
  BY <1>3, AlwaysAsksHead, AllFirstIsFound, PTL
<1> HIDE DEF types
<1>6. CASE First(scope, key, overload)
  <2>1. HeadOf(scope, key)' = new
    <3>1. Enters(scope, key, new) /\ new \in Nat \ {0}
      BY <1>3, <1>6 DEF First
    <3>2. QED
      BY <3>1, EntersHeads
  <2>2. List(new)' = {new}
    BY <1>1, StoresInList DEF Typed
  <2>3. new \in Nat /\ new \in Recs'
    BY <1>3
  <2>4. FindIn(new, types)' = new
    BY <1>4, <1>5, <2>2, <2>3 DEF FirstIsFound
  <2>5. QED
    BY <1>2, <1>5, <2>1, <2>4 DEF AsksHead, types
<1>7. CASE Linked(scope, key, overload)
  <2>1. PICK h : h = HeadOf(scope, key)
    OBVIOUS
  <2>2. h \in Recs /\ HeadOf(scope, key)' = h
    BY <1>7, <2>1, TableKept DEF Linked
  <2>3. Stores(scope, key, overload, Last(h)) /\ FindIn(h, types) = NoType
    BY <1>7, <2>1 DEF Linked, types
  <2>4. Last(h) \in List(h) /\ List(h) \subseteq Recs
    BY <2>2, LastOfList, ListLeast DEF Typed
  <2>5. List(h)' = List(h) \cup {new}
    BY <2>2, <2>3, <2>4, StoresInList DEF Typed
  <2>6. \A i \in List(h) : Sig(i) # types
    BY <2>2, <2>3, FindsFirst DEF Typed
  <2>7. \A i \in List(h)' : Sig(i)' = types => i = new
    BY <1>4, <2>4, <2>5, <2>6
  <2>8. new \in List(h)' /\ h \in Recs' /\ new \in Nat
    BY <1>3, <2>2, <2>5
  <2>9. FindIn(h, types)' = new
    BY <1>4, <1>5, <2>7, <2>8 DEF FirstIsFound
  <2>10. QED
    BY <1>2, <1>5, <2>2, <2>9 DEF AsksHead, types
<1>8. QED
  BY <1>6, <1>7

LEMMA DefinedFound ==
  ASSUME Typed, NEW scope \in Scopes, NEW contextType \in ContextArgs, NEW name \in Names,
         NEW overload \in Overloads, defineType(scope, contextType, name, overload),
         reply' # Failed, reply' # Duplicate
  PROVE  /\ getType(scope, Key(contextType, name), Signature(overload.parameter))' = reply'
         /\ Shown(reply)' = [scope |-> scope, context |-> contextType, name |-> name,
                             constructor |-> overload.constructor, parameters |-> overload.parameter,
                             nof |-> Len(overload.parameter)]
<1> DEFINE key == Key(contextType, name)
<1>1. key \in Keys /\ (First(scope, key, overload) \/ Linked(scope, key, overload))
  BY DefinitionResults DEF Found, Refused, Typed
<1>2. PICK new : new = New
  OBVIOUS
<1>3. reply' = new
  BY <1>1, <1>2 DEF First, Linked
<1>4. key.contextType = contextType /\ key.name = name
  BY DEF Key
<1> HIDE DEF key
<1>5. /\ getType(scope, key, Signature(overload.parameter))' = new
      /\ m_typerecMap'[new] = Record(scope, key, overload)
      /\ type_parameters(new)' = overload.parameter
  BY <1>1, <1>2, NewIsFound
<1>6. ShownOf'
  BY AlwaysShownOf, PTL
<1>7. Shown(new)' = [scope |-> scope, context |-> contextType, name |-> name,
                    constructor |-> overload.constructor, parameters |-> overload.parameter,
                    nof |-> Len(overload.parameter)]
  BY <1>4, <1>5, <1>6 DEF ShownOf, Record
<1>8. Shown(reply)' = Shown(new)'
  BY <1>3 DEF Shown, type_scope, type_context, type_name, type_constructor, type_nof_parameters, type_parameters
<1>9. QED
  BY <1>3, <1>5, <1>7, <1>8 DEF key

(* A record in no list leaves all lists as they are.                       *)
LEMMA ListsKept ==
  ASSUME Typed, NEW scope \in Scopes, NEW key \in Keys, NEW overload \in Overloads,
         Found(scope, key, overload) \/ Refused(scope, key, overload), NEW s \in Scopes, NEW k \in Keys
  PROVE  getTypes(s, k)' = getTypes(s, k)
<1>1. PICK h : h = HeadOf(s, k)
  OBVIOUS
<1>2. AsksHead /\ AsksHead'
  BY AlwaysAsksHead, PTL
<1>3. HeadOf(s, k)' = h /\ Stores(scope, key, overload, NoType)
  BY <1>1, TableKept DEF Found, Refused
<1>4. h = NoType \/ h \in Recs
  BY <1>1, TypedHeads DEF HeadsFound
<1>5. h \in Recs => NoType \notin List(h)
  BY ListLeast, TypedTable DEF Typed
<1>6. List(h)' = List(h)
  BY <1>3, <1>4, <1>5, StoresInList, NoList DEF Typed
<1>7. QED
  BY <1>1, <1>2, <1>3, <1>6 DEF AsksHead

(* The handle that def_type returns is the one this_type finds next, and   *)
(* it shows what was passed; -1 is returned only if there was such a type, *)
(* and neither -1 nor an error changes any list.                           *)
THEOREM DefinedAlwaysFound == Spec => DefinedIsFound
<1> DEFINE IsFound ==
      \A scope \in Scopes, contextType \in ContextArgs, name \in Names, overload \in Overloads :
        defineType(scope, contextType, name, overload) =>
          LET key   == Key(contextType, name)
              types == Signature(overload.parameter)
          IN  IF reply' \in {Duplicate, Failed}
              THEN /\ reply' = Duplicate => getType(scope, key, types) # NoType
                   /\ \A s \in Scopes, k \in Keys : getTypes(s, k)' = getTypes(s, k)
              ELSE /\ getType(scope, key, types)' = reply'
                   /\ Shown(reply)' = [scope |-> scope, context |-> contextType, name |-> name,
                                       constructor |-> overload.constructor, parameters |-> overload.parameter,
                                       nof |-> Len(overload.parameter)]
<1>1. Typed => IsFound
  <2> SUFFICES ASSUME Typed, NEW scope \in Scopes, NEW contextType \in ContextArgs, NEW name \in Names,
                      NEW overload \in Overloads, defineType(scope, contextType, name, overload)
               PROVE  IF reply' \in {Duplicate, Failed}
                      THEN /\ reply' = Duplicate =>
                                getType(scope, Key(contextType, name), Signature(overload.parameter)) # NoType
                           /\ \A s \in Scopes, k \in Keys : getTypes(s, k)' = getTypes(s, k)
                      ELSE /\ getType(scope, Key(contextType, name), Signature(overload.parameter))' = reply'
                           /\ Shown(reply)' = [scope |-> scope, context |-> contextType, name |-> name,
                                 constructor |-> overload.constructor, parameters |-> overload.parameter,
                                 nof |-> Len(overload.parameter)]
    OBVIOUS
  <2>1. CASE reply' \in {Duplicate, Failed}
    <3>1. New \in Nat
      BY TypedTable DEF Typed, New
    <3>2. reply' # New
      BY <2>1, <3>1 DEF Duplicate, Failed
    <3>3. /\ Key(contextType, name) \in Keys
          /\ \/ Found(scope, Key(contextType, name), overload)
             \/ Refused(scope, Key(contextType, name), overload)
      BY <3>2, DefinitionResults DEF First, Linked
    <3>4. reply' = Duplicate => getType(scope, Key(contextType, name), Signature(overload.parameter)) # NoType
      <4> HAVE reply' = Duplicate
      <4>1. Found(scope, Key(contextType, name), overload)
        BY <3>3 DEF Refused, Duplicate, Failed
      <4>2. QED
        BY <4>1, AlwaysAsksHead DEF Found, AsksHead
    <3>5. \A s \in Scopes, k \in Keys : getTypes(s, k)' = getTypes(s, k)
      BY <3>3, ListsKept
    <3>6. QED
      BY <2>1, <3>4, <3>5
  <2>2. CASE reply' \notin {Duplicate, Failed}
    BY <2>2, DefinedFound
  <2>3. QED
    BY <2>1, <2>2
<1>2. DefinedIsFound <=> [][IsFound]_vars
  BY DEF DefinedIsFound
<1> HIDE DEF IsFound
<1>3. QED
  BY <1>1, <1>2, AlwaysTyped, PTL DEF Spec

-----------------------------------------------------------------------------
(* The lists are exact as long as there are no synonyms.                   *)
Own(s, k) == {i \in Recs : m_typerecMap[i].scope = s /\ m_typerecMap[i].key = k}

Firsts(s, k) == {i \in Own(s, k) : ~\E j \in Own(s, k) : j < i /\ Sig(j) = Sig(i)}

(* A link stays among the records of one scope, context and name.          *)
OwnLinks ==
  \A i \in Recs : Next_(i) # NoType =>
    /\ m_typerecMap[Next_(i)].scope = m_typerecMap[i].scope
    /\ m_typerecMap[Next_(i)].key = m_typerecMap[i].key

(* The scope overlaps none of the context and name, and these nest.        *)
Apart(s, k) == Nested(k) /\ ~Overlaps(s, k)

Exact ==
  \A s \in Scopes, k \in Keys : Apart(s, k) => getTypes(s, k) = Firsts(s, k)

IInv == Typed /\ (NoSynonyms => OwnLinks /\ Exact)

LEMMA FirstOfOwn ==
  ASSUME Typed, NEW s, NEW k, NEW j \in Own(s, k)
  PROVE  \E i \in Firsts(s, k) : Sig(i) = Sig(j)
<1> DEFINE T == {i \in Own(s, k) : Sig(i) = Sig(j)}
<1>1. T \in SUBSET Nat /\ T # {}
  BY DEF Own, Typed, Ascends
<1>2. PICK m \in T : \A i \in T : m <= i
  BY <1>1, Nodes!NatMin
<1>3. ASSUME NEW i \in Own(s, k), i < m, Sig(i) = Sig(m) PROVE FALSE
  <2>1. i \in T /\ i \in Nat /\ m \in Nat
    BY <1>1, <1>2, <1>3
  <2>2. QED
    BY <1>2, <1>3, <2>1
<1>4. QED
  BY <1>2, <1>3 DEF Firsts

LEMMA ListOfOwn ==
  ASSUME Typed, NoSynonyms, OwnLinks, NEW k \in Keys, NEW s \in Scopes, HeadOf(s, k) # NoType
  PROVE  List(HeadOf(s, k)) \subseteq Own(s, k)
<1> DEFINE h == HeadOf(s, k)
<1>1. h \in Recs /\ \E i \in TypeMap!Elements(k) : m_invtree[i].scope = s /\ m_invtree[i].value = h
  BY TypedHeads DEF HeadsFound
<1>2. h \in Own(s, k)
  BY <1>1 DEF NoSynonyms, TypeMap!Elements, Own
<1>3. Own(s, k) \in SUBSET Recs
  BY DEF Own
<1>4. \A i \in Own(s, k) : Next_(i) \in Own(s, k) \cup {NoType}
  BY DEF OwnLinks, Own, Typed, Ascends
<1> HIDE DEF h
<1>5. List(h) \subseteq Own(s, k)
  BY <1>1, <1>2, <1>3, <1>4, ListLeast DEF IsClosed, Typed
<1>6. QED
  BY <1>5 DEF h

LEMMA NoSynonymsBefore ==
  ASSUME Typed, [Next]_vars, NoSynonyms'
  PROVE  NoSynonyms
<1>1. /\ \A i \in Recs : m_typerecMap'[i].scope = m_typerecMap[i].scope /\ m_typerecMap'[i].key = m_typerecMap[i].key
      /\ \A i \in DOMAIN m_invtree : KeepsElement(i)
  BY StepGrows
<1>2. \A i \in DOMAIN m_invtree : m_invtree[i].value \in Recs
  BY DEF Typed, TypeOK, Recs
<1>3. QED
  BY <1>1, <1>2 DEF NoSynonyms, KeepsElement

LEMMA ApartBefore ==
  ASSUME Typed, [Next]_vars, NEW s \in Scopes, NEW k \in Keys, Apart(s, k)'
  PROVE  Apart(s, k)
<1>1. \A i \in TypeMap!Elements(k) : i \in TypeMap!Elements(k)' /\ m_invtree'[i].scope = m_invtree[i].scope
  BY StepGrows DEF KeepsElement, TypeMap!Elements
<1>2. \A i, j \in TypeMap!Elements(k)' : ~TypeMap!Crossing(m_invtree'[i].scope, m_invtree'[j].scope)
  BY DEF Apart, Nested, TypeMap!Nested
<1>3. ~\E i \in TypeMap!Elements(k)' : TypeMap!Crossing(m_invtree'[i].scope, s)
  BY DEF Apart, Overlaps
<1>4. QED
  BY <1>1, <1>2, <1>3 DEF Apart, Nested, TypeMap!Nested, Overlaps

(* A scope that overlaps others that nest is not defined.                  *)
LEMMA OverlappingIsEmpty ==
  ASSUME Typed, NEW s \in Scopes, NEW k \in Keys, Nested(k), Overlaps(s, k)
  PROVE  getTypes(s, k) = {}
<1>1. HeadOf(s, k) = NoType
  BY TypedHeads DEF HeadsFound, Nested, TypeMap!Nested, Overlaps
<1>2. QED
  BY <1>1, AlwaysAsksHead, NoList DEF AsksHead

(* A record stored is a first one if it is the first with its parameters.  *)
LEMMA StoresFirsts ==
  ASSUME Typed, NEW scope \in Scopes, NEW key \in Keys, NEW overload \in Overloads,
         NEW tail, Stores(scope, key, overload, tail), NEW s, NEW k, NEW new, new = New
  PROVE  /\ ~(s = scope /\ k = key) => Firsts(s, k)' = Firsts(s, k)
         /\ s = scope /\ k = key =>
              Firsts(s, k)' = IF \E j \in Own(s, k) : Sig(j) = Signature(overload.parameter)
                              THEN Firsts(s, k) ELSE Firsts(s, k) \cup {new}
<1> DEFINE types == Signature(overload.parameter)
<1>1. /\ Recs' = Recs \cup {new} /\ Recs = 1 .. Len(m_typerecMap)
      /\ Len(m_typerecMap) \in Nat /\ new = Len(m_typerecMap) + 1
  BY StoresLinks, TypedTable DEF Typed, New
<1>2. Sig(new)' = types /\ \A i \in Recs : Sig(i)' = Sig(i)
  <2>1. SigShown'
    BY AlwaysSigShown, PTL
  <2>2. QED
    BY <2>1, StoresShown DEF SigShown, Sig, Typed
<1>3. Own(s, k)' = IF s = scope /\ k = key THEN Own(s, k) \cup {new} ELSE Own(s, k)
  <2>1. m_typerecMap'[new].scope = scope /\ m_typerecMap'[new].key = key
    BY DEF Stores, Record
  <2>2. \A i \in Recs : m_typerecMap'[i].scope = m_typerecMap[i].scope /\ m_typerecMap'[i].key = m_typerecMap[i].key
    BY DEF Stores, KeepsRecord
  <2>3. Own(s, k)' = {i \in Recs \cup {new} : m_typerecMap'[i].scope = s /\ m_typerecMap'[i].key = k}
    BY <1>1 DEF Own
  <2>4. QED
    BY <2>1, <2>2, <2>3 DEF Own
<1>4. Firsts(s, k)' = {i \in Own(s, k)' : ~\E j \in Own(s, k)' : j < i /\ Sig(j)' = Sig(i)'}
  BY DEF Firsts
<1>5. \A j \in Own(s, k) : j \in Recs /\ j < new /\ ~(new < j) /\ j # new
  BY <1>1 DEF Own
<1> HIDE DEF types
<1>6. CASE ~(s = scope /\ k = key)
  BY <1>2, <1>3, <1>4, <1>5, <1>6 DEF Firsts
<1>7. CASE s = scope /\ k = key
  <2>1. Own(s, k)' = Own(s, k) \cup {new}
    BY <1>3, <1>7
  <2>2. \A i \in Own(s, k) : i \in Firsts(s, k)' <=> i \in Firsts(s, k)
    BY <1>2, <1>4, <1>5, <2>1 DEF Firsts
  <2>3. new \in Firsts(s, k)' <=> ~\E j \in Own(s, k) : Sig(j) = types
    <3>1. ~(new < new)
      BY <1>1
    <3>2. QED
      BY <1>2, <1>4, <1>5, <2>1, <3>1
  <2>4. Firsts(s, k)' \subseteq Own(s, k) \cup {new} /\ Firsts(s, k) \subseteq Own(s, k)
    BY <1>4, <2>1 DEF Firsts
  <2>5. QED
    BY <1>5, <1>7, <2>2, <2>3, <2>4 DEF types
<1>8. QED
  BY <1>6, <1>7

LEMMA ExactDefined ==
  ASSUME IInv, NoSynonyms, NEW scope \in Scopes, NEW key \in Keys, NEW overload \in Overloads,
         Defines(scope, key, overload),
         NEW s \in Scopes, NEW k \in Keys, Apart(s, k), Apart(s, k)'
  PROVE  getTypes(s, k)' = Firsts(s, k)'
<1> DEFINE types == Signature(overload.parameter)
<1>1. PICK new : new = New
  OBVIOUS
<1>2. PICK h : h = HeadOf(s, k)
  OBVIOUS
<1>3. AsksHead /\ AsksHead'
  BY AlwaysAsksHead, PTL
<1>4. Typed /\ Ascends /\ TypeOK /\ OwnLinks /\ getTypes(s, k) = Firsts(s, k)
  BY DEF IInv, Exact, Typed
<1>5. List(h) = Firsts(s, k)
  BY <1>2, <1>3, <1>4 DEF AsksHead
<1>6. h \in Recs \/ h = NoType
  BY <1>2, <1>4, TypedHeads DEF HeadsFound
<1>7. List(h) \subseteq Own(s, k)
  BY <1>5 DEF Firsts
<1>8. NoType \notin Recs
  BY <1>4, TypedTable
<1>9. \A j \in Own(s, k) : \E i \in List(h) : Sig(i) = Sig(j)
  BY <1>4, <1>5, FirstOfOwn
<1>10. Own(s, k) \subseteq Recs
  BY DEF Own
<1>11. m_typeTable' = m_typeTable => HeadOf(s, k)' = h
  BY <1>2, TableKept
<1> HIDE DEF types
<1>12. CASE First(scope, key, overload)
  <2>1. /\ Stores(scope, key, overload, NoType) /\ Enters(scope, key, new)
        /\ HeadOf(scope, key) = NoType /\ new \in Nat \ {0}
    BY <1>1, <1>4, <1>12, EntersElement, StoresLinks DEF First, NoType
  <2>2. CASE s = scope /\ k = key
    <3>1. HeadOf(s, k)' = new /\ h = NoType
      BY <1>2, <1>4, <2>1, <2>2, EntersHeads
    <3>2. List(new)' = {new} /\ List(h) = {}
      BY <1>1, <1>4, <2>1, <3>1, StoresInList, NoList
    <3>3. Firsts(s, k)' = {new}
      BY <1>1, <1>4, <1>5, <1>9, <2>1, <2>2, <3>2, StoresFirsts
    <3>4. QED
      BY <1>3, <3>1, <3>2, <3>3 DEF AsksHead
  <2>3. CASE ~(s = scope /\ k = key)
    <3>1. HeadOf(s, k)' = h
      <4>1. CASE k # key
        BY <1>2, <1>4, <2>1, <4>1, EntersHeads
      <4>2. CASE k = key
        <5>1. Nested(key)' /\ s # scope
          BY <2>3, <4>2 DEF Apart
        <5>2. QED
          BY <1>2, <1>4, <2>1, <4>2, <5>1, EntersHeads
      <4>3. QED
        BY <4>1, <4>2
    <3>2. List(h)' = List(h)
      BY <1>4, <1>6, <1>7, <1>8, <1>10, <2>1, StoresInList, NoList
    <3>3. Firsts(s, k)' = Firsts(s, k)
      BY <1>1, <1>4, <2>1, <2>3, StoresFirsts
    <3>4. QED
      BY <1>3, <1>5, <3>1, <3>2, <3>3 DEF AsksHead
  <2>4. QED
    BY <2>2, <2>3
<1>13. CASE Linked(scope, key, overload)
  <2>1. PICK head : head = HeadOf(scope, key)
    OBVIOUS
  <2>2. /\ head \in Recs /\ head # NoType
        /\ FindIn(head, types) = NoType
        /\ Stores(scope, key, overload, Last(head)) /\ HeadOf(s, k)' = h
    BY <1>8, <1>11, <1>13, <2>1 DEF Linked, types
  <2>3. List(head) \subseteq Own(scope, key) /\ Last(head) \in List(head)
    BY <1>4, <2>1, <2>2, ListOfOwn, LastOfList
  <2>4. CASE s = scope /\ k = key
    <3>1. h = head
      BY <1>2, <2>1, <2>4
    <3>2. List(h)' = List(h) \cup {new}
      BY <1>1, <1>4, <2>2, <2>3, <3>1, StoresInList
    <3>3. \A i \in List(h) : Sig(i) # types
      BY <1>4, <2>2, <3>1, FindsFirst
    <3>4. ~\E j \in Own(s, k) : Sig(j) = types
      BY <1>9, <3>3
    <3>5. Firsts(s, k)' = Firsts(s, k) \cup {new}
      BY <1>1, <1>4, <2>2, <2>4, <3>4, StoresFirsts DEF types
    <3>6. QED
      BY <1>3, <1>5, <2>2, <3>2, <3>5 DEF AsksHead
  <2>5. CASE ~(s = scope /\ k = key)
    <3>1. Last(head) \notin List(h)
      BY <1>7, <2>3, <2>5 DEF Own
    <3>2. List(h)' = List(h)
      BY <1>4, <1>6, <2>2, <3>1, StoresInList, NoList
    <3>3. Firsts(s, k)' = Firsts(s, k)
      BY <1>1, <1>4, <2>2, <2>5, StoresFirsts
    <3>4. QED
      BY <1>3, <1>5, <2>2, <3>2, <3>3 DEF AsksHead
  <2>6. QED
    BY <2>4, <2>5
<1>14. ASSUME Stores(scope, key, overload, NoType), m_typeTable' = m_typeTable,
              s = scope /\ k = key => \E j \in Own(s, k) : Sig(j) = types
       PROVE  getTypes(s, k)' = Firsts(s, k)'
  <2>1. List(h)' = List(h)
    BY <1>4, <1>6, <1>7, <1>8, <1>10, <1>14, StoresInList, NoList
  <2>2. Firsts(s, k)' = Firsts(s, k)
    BY <1>1, <1>4, <1>14, StoresFirsts DEF types
  <2>3. QED
    BY <1>3, <1>5, <1>11, <1>14, <2>1, <2>2 DEF AsksHead
<1>15. CASE Found(scope, key, overload)
  <2>1. ASSUME s = scope, k = key PROVE \E j \in Own(s, k) : Sig(j) = types
    <3>1. FindIn(h, types) # NoType /\ h \in Recs
      BY <1>2, <1>3, <1>15, <2>1 DEF Found, AsksHead, types
    <3>2. FindIn(h, types) \in List(h) /\ Sig(FindIn(h, types)) = types
      BY <1>4, <3>1, FindsFirst
    <3>3. QED
      BY <1>7, <3>2
  <2>2. QED
    BY <1>14, <1>15, <2>1 DEF Found
<1>16. CASE Refused(scope, key, overload)
  <2>1. ~(s = scope /\ k = key)
    BY <1>16 DEF Refused, Apart
  <2>2. QED
    BY <1>14, <1>16, <2>1 DEF Refused
<1>17. QED
  BY <1>12, <1>13, <1>15, <1>16 DEF Defines

LEMMA OwnLinksDefined ==
  ASSUME IInv, NoSynonyms, NEW scope \in Scopes, NEW key \in Keys, NEW overload \in Overloads,
         Defines(scope, key, overload)
  PROVE  OwnLinks'
<1>1. PICK new : new = New
  OBVIOUS
<1>2. Typed /\ Ascends /\ TypeOK /\ OwnLinks /\ NoType \notin Recs
  BY TypedTable DEF IInv, Typed
<1>3. PICK tail : Stores(scope, key, overload, tail) /\ (tail = NoType \/ tail \in Own(scope, key))
  <2>1. CASE Linked(scope, key, overload)
    <3>1. HeadOf(scope, key) \in Recs /\ HeadOf(scope, key) # NoType
      BY <1>2, <2>1 DEF Linked
    <3>2. Last(HeadOf(scope, key)) \in Own(scope, key)
      BY <1>2, <3>1, ListOfOwn, LastOfList
    <3>3. QED
      BY <2>1, <3>2 DEF Linked
  <2>2. QED
    BY <2>1 DEF Defines, First, Found, Refused
<1>4. /\ Recs' = Recs \cup {new} /\ new \notin Recs
      /\ \A i \in Recs : Next_(i)' = IF i = tail THEN new ELSE Next_(i)
      /\ Next_(new)' = NoType
  BY <1>1, <1>2, <1>3, StoresLinks
<1>5. \A i \in Recs : m_typerecMap'[i].scope = m_typerecMap[i].scope /\ m_typerecMap'[i].key = m_typerecMap[i].key
  BY <1>3 DEF Stores, KeepsRecord
<1>6. m_typerecMap'[new].scope = scope /\ m_typerecMap'[new].key = key
  BY <1>1, <1>3 DEF Stores, Record
<1>7. ASSUME NEW i \in Recs', NEW n, n = Next_(i)', n # NoType
      PROVE  /\ m_typerecMap'[n].scope = m_typerecMap'[i].scope
             /\ m_typerecMap'[n].key = m_typerecMap'[i].key
  <2>1. i \in Recs
    BY <1>4, <1>7
  <2>2. CASE i = tail
    BY <1>2, <1>3, <1>4, <1>5, <1>6, <1>7, <2>1, <2>2 DEF Own
  <2>3. CASE i # tail
    <3>1. n = Next_(i)
      BY <1>4, <1>7, <2>1, <2>3
    <3>2. n \in Recs /\ m_typerecMap[n].scope = m_typerecMap[i].scope /\ m_typerecMap[n].key = m_typerecMap[i].key
      BY <1>2, <1>7, <2>1, <3>1 DEF OwnLinks, Ascends
    <3>3. QED
      BY <1>5, <2>1, <3>2
  <2>4. QED
    BY <2>2, <2>3
<1>8. QED
  BY <1>7 DEF OwnLinks

LEMMA UnchangedFirsts ==
  ASSUME UNCHANGED <<m_typerecMap, m_parameterMap>>
  PROVE  /\ \A s, k : Firsts(s, k)' = Firsts(s, k)
         /\ OwnLinks => OwnLinks'
<1>1. Recs' = Recs /\ \A i : Sig(i)' = Sig(i) /\ Next_(i)' = Next_(i)
  BY UnchangedAnswers
<1>2. \A s, k : Own(s, k)' = Own(s, k)
  BY <1>1 DEF Own
<1>3. \A s, k : Firsts(s, k)' = {i \in Own(s, k)' : ~\E j \in Own(s, k)' : j < i /\ Sig(j)' = Sig(i)'}
  BY DEF Firsts
<1>4. \A s, k : Firsts(s, k)' = Firsts(s, k)
  BY <1>1, <1>2, <1>3 DEF Firsts
<1>5. OwnLinks => OwnLinks'
  BY <1>1 DEF OwnLinks, Next_, Recs
<1>6. QED
  BY <1>4, <1>5

(* A synonym that is the head of its own scope, context and name would be  *)
(* a record that is in no list, and there is none.                         *)
LEMMA ExactNamed ==
  ASSUME IInv, NoSynonyms, NoSynonyms',
         NEW scope \in Scopes, NEW key \in Keys, NEW type \in Recs, Names_(scope, key, type),
         NEW s \in Scopes, NEW k \in Keys, Apart(s, k), Apart(s, k)'
  PROVE  getTypes(s, k)' = Firsts(s, k)'
<1>1. PICK h : h = HeadOf(s, k)
  OBVIOUS
<1>2. AsksHead /\ AsksHead'
  BY AlwaysAsksHead, PTL
<1>3. Typed /\ TypeOK /\ getTypes(s, k) = Firsts(s, k)
  BY DEF IInv, Exact, Typed
<1>4. List(h) = Firsts(s, k)
  BY <1>1, <1>2, <1>3 DEF AsksHead
<1>5. /\ UNCHANGED <<m_typerecMap, m_parameterMap>> /\ Enters(scope, key, type)
      /\ type \in Nat \ {0} /\ HeadOf(scope, key) = NoType
  <2>1. type \in Nat \ {0}
    BY <1>3, TypedTable DEF NoType
  <2>2. QED
    BY <1>3, <2>1, EntersElement DEF Names_
<1>6. ~(s = scope /\ k = key)
  <2> SUFFICES ASSUME s = scope, k = key PROVE FALSE
    OBVIOUS
  <2>1. \E n \in DOMAIN m_invtree' : /\ m_invtree'[n].scope = scope /\ m_invtree'[n].value = type
                                      /\ owner'[n] = key
    BY <1>3, <1>5, EntersElement
  <2>2. m_typerecMap[type].scope = scope /\ m_typerecMap[type].key = key
    BY <1>5, <2>1 DEF NoSynonyms
  <2>3. type \in Own(s, k)
    BY <2>2 DEF Own
  <2>4. h = NoType
    BY <1>1, <1>5
  <2>5. Firsts(s, k) = {}
    BY <1>4, <2>4, NoList
  <2>6. QED
    BY <1>3, <2>3, <2>5, FirstOfOwn
<1>7. HeadOf(s, k)' = h
  <2>1. CASE k # key
    BY <1>1, <1>3, <1>5, <2>1, EntersHeads
  <2>2. CASE k = key
    <3>1. Nested(key)' /\ s # scope
      BY <1>6, <2>2 DEF Apart
    <3>2. QED
      BY <1>1, <1>3, <1>5, <2>2, <3>1, EntersHeads
  <2>3. QED
    BY <2>1, <2>2
<1>8. List(h)' = List(h) /\ Firsts(s, k)' = Firsts(s, k)
  BY <1>5, UnchangedAnswers, UnchangedFirsts
<1>9. QED
  BY <1>2, <1>4, <1>7, <1>8 DEF AsksHead

LEMMA ExactStep == IInv /\ [Next]_vars => IInv'
<1> SUFFICES ASSUME IInv, [Next]_vars PROVE IInv'
  OBVIOUS
<1>1. Typed /\ Typed'
  BY TypedStep DEF IInv
<1>2. SUFFICES ASSUME NoSynonyms' PROVE OwnLinks' /\ Exact'
  BY <1>1 DEF IInv
<1>3. NoSynonyms /\ OwnLinks /\ Exact
  BY <1>1, <1>2, NoSynonymsBefore DEF IInv
<1>4. SUFFICES OwnLinks' /\ \A s \in Scopes, k \in Keys :
                             Apart(s, k) /\ Apart(s, k)' => getTypes(s, k)' = Firsts(s, k)'
  BY <1>1, ApartBefore DEF Exact
<1>5. ASSUME NEW scope \in Scopes, NEW key \in Keys, NEW overload \in Overloads,
             Defines(scope, key, overload)
      PROVE  OwnLinks' /\ \A s \in Scopes, k \in Keys :
                            Apart(s, k) /\ Apart(s, k)' => getTypes(s, k)' = Firsts(s, k)'
  BY <1>3, <1>5, OwnLinksDefined, ExactDefined
<1>6. ASSUME NEW scope \in Scopes, NEW key \in Keys, NEW type \in Recs, Names_(scope, key, type)
      PROVE  OwnLinks' /\ \A s \in Scopes, k \in Keys :
                            Apart(s, k) /\ Apart(s, k)' => getTypes(s, k)' = Firsts(s, k)'
  BY <1>2, <1>3, <1>6, UnchangedFirsts, ExactNamed DEF Names_
<1>7. CASE UNCHANGED <<m_typerecMap, m_parameterMap, m_typeTable>>
  <2>1. \A s, k : getTypes(s, k)' = getTypes(s, k)
    <3>1. AsksHead /\ AsksHead'
      BY AlwaysAsksHead, PTL
    <3>2. \A s, k : HeadOf(s, k)' = HeadOf(s, k)
      BY <1>7, TableKept
    <3>3. \A h : List(h)' = List(h)
      BY <1>7, UnchangedAnswers
    <3>4. ASSUME NEW s, NEW k PROVE getTypes(s, k)' = getTypes(s, k)
      <4>1. PICK h : h = HeadOf(s, k)
        OBVIOUS
      <4>2. QED
        BY <3>1, <3>2, <3>3, <4>1 DEF AsksHead
    <3>5. QED
      BY <3>4
  <2>2. \A s \in Scopes, k \in Keys : Apart(s, k) => getTypes(s, k) = Firsts(s, k)
    BY <1>3 DEF Exact
  <2>3. QED
    BY <1>3, <1>7, <2>1, <2>2, UnchangedFirsts
<1>8. QED
  BY <1>5, <1>6, <1>7, <1>1, StepResults

LEMMA ExactInit == Init => IInv
<1> SUFFICES ASSUME Init PROVE IInv
  OBVIOUS
<1>1. Typed
  BY TypedInit
<1>2. Len(m_typerecMap) = 0
  BY EmptySeq DEF Init
<1>3. Recs = {}
  BY <1>1, <1>2 DEF Typed, Ascends
<1>4. OwnLinks
  BY <1>3 DEF OwnLinks
<1>5. ASSUME NEW s \in Scopes, NEW k \in Keys PROVE getTypes(s, k) = Firsts(s, k)
  <2>1. HeadOf(s, k) = NoType
    <3>1. DOMAIN m_invtree = {}
      BY DEF Init
    <3>2. QED
      BY <1>1, <3>1, TypedHeads DEF HeadsFound, TypeMap!Elements
  <2>2. getTypes(s, k) = {}
    BY <2>1, AlwaysAsksHead, NoList DEF AsksHead
  <2>3. Firsts(s, k) = {}
    BY <1>3 DEF Firsts, Own
  <2>4. QED
    BY <2>2, <2>3
<1>6. QED
  BY <1>1, <1>4, <1>5 DEF IInv, Exact

LEMMA AlwaysExact == Spec => []IInv
BY ExactInit, ExactStep, PTL DEF Spec

(* As long as the scopes of a context and name nest and there are no       *)
(* synonyms, getTypes has for every scope exactly the types defined there, *)
(* each parameter list once, and the loop over the list passes them in the *)
(* order of their definition.                                              *)
THEOREM ListsAlwaysExact == Spec => []ListsExact
<1>1. IInv => ListsExact
  <2> SUFFICES ASSUME IInv, NoSynonyms, NEW scope \in Scopes, NEW key \in Keys, Nested(key)
               PROVE  /\ getTypes(scope, key) =
                           IF Overlaps(scope, key) THEN {}
                           ELSE {i \in {j \in DOMAIN m_typerecMap :
                                     m_typerecMap[j].scope = scope /\ m_typerecMap[j].key = key} :
                              ~\E j \in {l \in DOMAIN m_typerecMap :
                                     m_typerecMap[l].scope = scope /\ m_typerecMap[l].key = key} :
                                 j < i /\ Signature(type_parameters(j)) = Signature(type_parameters(i))}
                      /\ \A i, j \in getTypes(scope, key) : j \in List(i) <=> i <= j
    BY DEF ListsExact
  <2>1. getTypes(scope, key) = IF Overlaps(scope, key) THEN {} ELSE Firsts(scope, key)
    BY OverlappingIsEmpty DEF IInv, Exact, Apart
  <2>2. PICK h : h = HeadOf(scope, key)
    OBVIOUS
  <2>3. getTypes(scope, key) = List(h)
    BY <2>2, AlwaysAsksHead DEF AsksHead
  <2>4. h \in Recs \/ h = NoType
    BY <2>2, TypedHeads DEF HeadsFound, IInv
  <2>5. \A i, j \in List(h) : j \in List(i) <=> i <= j
    BY <2>4, ListFrom, NoList DEF IInv, Typed
  <2>6. QED
    BY <2>1, <2>3, <2>5 DEF Firsts, Own, Recs, Sig
<1>2. QED
  BY <1>1, AlwaysExact, PTL

-----------------------------------------------------------------------------
(* The tree of types.  As long as there are no synonyms the head of a list *)
(* is the first type of its scope, context and name.                       *)
LEMMA HeadIsFirst ==
  ASSUME IInv, NoSynonyms, NEW k \in Keys, NEW s \in Scopes, Apart(s, k), HeadOf(s, k) # NoType
  PROVE  HeadOf(s, k) \in Own(s, k) /\ \A j \in Own(s, k) : HeadOf(s, k) <= j
<1> DEFINE h == HeadOf(s, k)
<1>1. h \in Recs
  BY TypedHeads DEF HeadsFound, IInv
<1>2. List(h) = Firsts(s, k)
  BY AlwaysAsksHead DEF IInv, Exact, AsksHead
<1>3. h \in List(h) /\ \A i \in List(h) : h <= i
  BY <1>1, ListLeast DEF IInv, Typed
<1> HIDE DEF h
<1>4. h \in Own(s, k)
  BY <1>2, <1>3 DEF Firsts
<1>5. Own(s, k) \in SUBSET Nat /\ h \in Nat
  BY <1>1 DEF Own, IInv, Typed, Ascends
<1>6. PICK m \in Own(s, k) : \A j \in Own(s, k) : m <= j
  BY <1>4, <1>5, Nodes!NatMin
<1>7. m \in Firsts(s, k)
  <2>1. \A j \in Own(s, k) : ~(j < m)
    BY <1>5, <1>6
  <2>2. QED
    BY <2>1 DEF Firsts
<1>8. h <= m
  BY <1>2, <1>3, <1>7
<1>9. QED
  BY <1>4, <1>5, <1>6, <1>8 DEF h

TableScopes == {m_invtree[i].scope : i \in DOMAIN m_invtree}

TableNests == \A s, t \in TableScopes : ~TypeMap!Crossing(s, t)

FirstTypes(s) ==
  {i \in DOMAIN m_typerecMap :
     /\ m_typerecMap[i].scope = s
     /\ ~\E j \in 1 .. i - 1 : m_typerecMap[j].scope = s /\ m_typerecMap[j].key = m_typerecMap[i].key}

(* All elements are listed, each is the head of the list of its scope.     *)
LEMMA TableElements ==
  ASSUME Typed, TableNests
  PROVE  /\ \A i \in DOMAIN m_invtree : /\ owner[i] \in Keys /\ m_invtree[i].scope \in Scopes
                                        /\ m_invtree[i].value \in Recs
                                        /\ HeadOf(m_invtree[i].scope, owner[i]) = m_invtree[i].value
         /\ \A k \in Keys : TypeMap!Listed(k) = TypeMap!Elements(k)
         /\ \A s \in TableScopes, k \in Keys : Apart(s, k)
<1>1. \A s \in TableScopes, k \in Keys : Apart(s, k)
  BY DEF TableNests, TableScopes, Apart, Overlaps, Nested, TypeMap!Nested, TypeMap!Elements
<1>2. \A k \in Keys : Nested(k)
  BY DEF TableNests, TableScopes, Nested, TypeMap!Nested, TypeMap!Elements
<1>3. m_invtree \in Seq(TypeMap!Element) /\ owner \in Seq(Keys) /\ Len(owner) = Len(m_invtree)
  BY DEF Typed, TypeOK, TypeMap!TypeOK
<1>4. ASSUME NEW i \in DOMAIN m_invtree
      PROVE  owner[i] \in Keys /\ m_invtree[i].scope \in Scopes /\ m_invtree[i].value \in Recs
  <2>1. i \in 1 .. Len(m_invtree)
    BY <1>3, LenProperties
  <2>2. m_invtree[i] \in TypeMap!Element /\ owner[i] \in Keys
    BY <1>3, <2>1, ElementOfSeq
  <2>3. QED
    BY <2>2 DEF TypeMap!Element, Typed, TypeOK, Recs
<1>5. \A i \in DOMAIN m_invtree : i \in TypeMap!Elements(owner[i])
  BY DEF TypeMap!Elements
<1>6. QED
  BY <1>1, <1>2, <1>4, <1>5, NestedHeads DEF HeadsExact

ValuesAt(s) == {m_invtree[i].value : i \in {j \in DOMAIN m_invtree : m_invtree[j].scope = s}}

LEMMA HeadsAreValues ==
  ASSUME Typed, TableNests
  PROVE  HeadsAt = [s \in TableScopes |-> ValuesAt(s)]
<1>1. /\ \A i \in DOMAIN m_invtree : owner[i] \in Keys
      /\ \A k \in Keys : TypeMap!Listed(k) = {i \in DOMAIN m_invtree : owner[i] = k}
  BY TableElements DEF TypeMap!Elements
<1>2. TypeMap!ListedScopes = TableScopes
  <2>1. UNION {TypeMap!Listed(k) : k \in Keys} = DOMAIN m_invtree
    BY <1>1
  <2>2. QED
    BY <2>1 DEF TypeMap!ListedScopes, TableScopes
<1>3. ASSUME NEW s PROVE {item.value : item \in TypeMap!ListedIn(s)} = ValuesAt(s)
  <2>1. ASSUME NEW item \in TypeMap!ListedIn(s) PROVE item.value \in ValuesAt(s)
    <3>1. PICK k \in Keys : \E i \in {j \in TypeMap!Listed(k) : m_invtree[j].scope = s} :
                              item = [key |-> k, value |-> m_invtree[i].value]
      BY <2>1 DEF TypeMap!ListedIn
    <3>2. QED
      BY <1>1, <3>1 DEF ValuesAt
  <2>2. ASSUME NEW i \in DOMAIN m_invtree, m_invtree[i].scope = s
        PROVE  \E item \in TypeMap!ListedIn(s) : item.value = m_invtree[i].value
    <3> DEFINE item == [key |-> owner[i], value |-> m_invtree[i].value]
    <3>1. i \in {j \in TypeMap!Listed(owner[i]) : m_invtree[j].scope = s} /\ owner[i] \in Keys
      BY <1>1, <2>2
    <3>2. item \in TypeMap!ListedIn(s)
      BY <3>1 DEF TypeMap!ListedIn
    <3>3. QED
      BY <3>2
  <2>3. QED
    BY <2>1, <2>2 DEF ValuesAt
<1>4. QED
  BY <1>2, <1>3 DEF HeadsAt

LEMMA HeadsAreFirst ==
  ASSUME IInv, NoSynonyms, TableNests
  PROVE  HeadsAt = [s \in TableScopes |-> FirstTypes(s)]
<1>1. Recs = 1 .. Len(m_typerecMap) /\ Len(m_typerecMap) \in Nat /\ NoType \notin Recs
  BY TypedTable DEF IInv, Typed
<1>2. /\ \A i \in DOMAIN m_invtree : /\ owner[i] \in Keys /\ m_invtree[i].scope \in Scopes
                                     /\ m_invtree[i].value \in Recs
                                     /\ HeadOf(m_invtree[i].scope, owner[i]) = m_invtree[i].value
      /\ \A s \in TableScopes, k \in Keys : Apart(s, k)
  BY TableElements DEF IInv
<1>3. ASSUME NEW s \in TableScopes PROVE ValuesAt(s) = FirstTypes(s)
  <2>0. s \in Scopes
    BY <1>2 DEF TableScopes
  <2>1. ASSUME NEW k \in Keys, NEW h, h = HeadOf(s, k), h # NoType PROVE h \in FirstTypes(s)
    <3>1. h \in Own(s, k) /\ \A j \in Own(s, k) : h <= j
      BY <1>2, <2>0, <2>1, HeadIsFirst
    <3>2. \A j \in 1 .. h - 1 : j \in Recs /\ j \notin Own(s, k)
      BY <1>1, <3>1 DEF Own
    <3>3. QED
      BY <3>1, <3>2 DEF FirstTypes, Own, Recs
  <2>2. ASSUME NEW i \in FirstTypes(s) PROVE i \in ValuesAt(s)
    <3> DEFINE k == m_typerecMap[i].key
    <3>1. i \in Recs /\ k \in Keys /\ m_typerecMap[i].scope = s
      BY TypedTable DEF FirstTypes, Recs, IInv, Typed
    <3>2. i \in Own(s, k) /\ Own(s, k) \subseteq Recs
      BY <3>1 DEF Own
    <3> HIDE DEF k
    <3>3. \A j \in Own(s, k) : i <= j
      <4>1. ASSUME NEW j \in Own(s, k), j < i PROVE FALSE
        <5>1. j \in 1 .. i - 1 /\ m_typerecMap[j].scope = s /\ m_typerecMap[j].key = k
          BY <1>1, <3>1, <3>2, <4>1 DEF Own
        <5>2. QED
          BY <5>1 DEF FirstTypes, k
      <4>2. QED
        BY <1>1, <3>2, <4>1
    <3>4. i \in Firsts(s, k)
      <4>1. \A j \in Own(s, k) : ~(j < i)
        BY <1>1, <3>2, <3>3
      <4>2. QED
        BY <3>2, <4>1 DEF Firsts
    <3>5. getTypes(s, k) = Firsts(s, k)
      BY <1>2, <2>0, <3>1 DEF IInv, Exact
    <3>6. HeadOf(s, k) # NoType
      <4> SUFFICES ASSUME HeadOf(s, k) = NoType PROVE FALSE
        OBVIOUS
      <4>1. getTypes(s, k) = {}
        BY AlwaysAsksHead, NoList DEF AsksHead
      <4>2. QED
        BY <3>4, <3>5, <4>1
    <3>7. HeadOf(s, k) \in Own(s, k) /\ \A j \in Own(s, k) : HeadOf(s, k) <= j
      BY <1>2, <2>0, <3>1, <3>6, HeadIsFirst
    <3>8. HeadOf(s, k) = i
      BY <1>1, <3>2, <3>3, <3>7
    <3>9. \E j \in DOMAIN m_invtree : m_invtree[j].scope = s /\ m_invtree[j].value = i
      BY <2>0, <3>1, <3>6, <3>8, TypedHeads DEF HeadsFound, TypeMap!Elements, IInv
    <3>10. QED
      BY <3>9 DEF ValuesAt
  <2>3. ASSUME NEW i \in ValuesAt(s) PROVE i \in FirstTypes(s)
    <3>1. PICK j \in DOMAIN m_invtree : m_invtree[j].scope = s /\ m_invtree[j].value = i
      BY DEF ValuesAt
    <3>2. i = HeadOf(s, owner[j]) /\ i # NoType /\ owner[j] \in Keys
      BY <1>1, <1>2, <3>1
    <3>3. QED
      BY <2>1, <3>2
  <2>4. QED
    BY <2>2, <2>3
<1>4. QED
  BY <1>3, HeadsAreValues DEF IInv

LEMMA HeadsDefinable ==
  ASSUME IInv, TableNests
  PROVE  Nodes!Definable(HeadsAt, SUBSET Nat)
<1>1. HeadsAt = [s \in TableScopes |-> ValuesAt(s)]
  BY HeadsAreValues DEF IInv
<1>2. DOMAIN HeadsAt = TableScopes /\ HeadsAt = [s \in DOMAIN HeadsAt |-> HeadsAt[s]]
  BY <1>1
<1>3. \A s \in TableScopes : HeadsAt[s] \in SUBSET Nat
  BY <1>1, TableElements DEF IInv, Typed, Ascends, ValuesAt
<1>4. \A s \in TableScopes : s \in Scopes
  BY TableElements DEF TableScopes, IInv
<1>5. Nodes!Bounded(TableScopes)
  BY <1>4, ScopesAssumption, BoundsAssumption DEF Nodes!Bounded, Nodes!ProperScopes
<1>6. Nodes!Nesting(TableScopes)
  BY DEF Nodes!Nesting, TableNests, Nodes!Crossing, Nodes!Contains, TypeMap!Crossing, TypeMap!Contains
<1>7. {} \in SUBSET Nat
  OBVIOUS
<1>8. QED
  BY <1>2, <1>3, <1>5, <1>6, <1>7 DEF Nodes!Definable

(* The operators of the tree of nodes are those the lemmas are about.      *)
LEMMA SameTranslate ==
  ASSUME NEW tree
  PROVE  Trees!translate(tree) = Nodes!translate(tree)
BY DEF Trees!translate, Trees!NewTree, Trees!Node, Trees!Root, Trees!NoNode, Trees!CopyChildren,
       Trees!Children, Trees!Siblings, Trees!addChild, Trees!addSibling,
       Nodes!translate, Nodes!NewTree, Nodes!Node, Nodes!Root, Nodes!NoNode, Nodes!CopyChildren,
       Nodes!Children, Nodes!Siblings, Nodes!addChild, Nodes!addSibling

LEMMA SameAll ==
  ASSUME NEW defined
  PROVE  Trees!SetAll(defined) = Nodes!SetAll(defined)
BY DEF Trees!SetAll, Trees!ScopeCompare, Trees!EmptyTable, Trees!IsRefusedIn, Trees!HierarchyError,
       Trees!Stored, Trees!IsKnownIn, Trees!Known, Trees!Meets, Trees!Inserted, Trees!linkLeftNeighbours,
       Trees!Innerlast, Trees!LastPassed, Trees!Walk, Trees!Closed, Trees!StopsAt, Trees!NotInside,
       Trees!Contains, Trees!NewPrev, Trees!Uplink, Trees!EndsAfter, Trees!upper_bound,
       Trees!rightNeighborUpLink, Trees!NewEnds, Trees!NoLink,
       Nodes!SetAll, Nodes!ScopeCompare, Nodes!EmptyTable, Nodes!IsRefusedIn, Nodes!HierarchyError,
       Nodes!Stored, Nodes!IsKnownIn, Nodes!Known, Nodes!Meets, Nodes!Inserted, Nodes!linkLeftNeighbours,
       Nodes!Innerlast, Nodes!LastPassed, Nodes!Walk, Nodes!Closed, Nodes!StopsAt, Nodes!NotInside,
       Nodes!Contains, Nodes!NewPrev, Nodes!Uplink, Nodes!EndsAfter, Nodes!upper_bound,
       Nodes!rightNeighborUpLink, Nodes!NewEnds, Nodes!NoLink

LEMMA SameTree ==
  ASSUME NEW table
  PROVE  Trees!getTree(table) = Nodes!getTree(table)
BY DEF Trees!getTree, Trees!NewBuilder, Trees!NewTree, Trees!Node, Trees!Root, Trees!NoNode,
       Trees!BuilderInsert, Trees!AddBelow, Trees!addChild, Trees!addSibling, Trees!Passed, Trees!NoLink,
       Nodes!getTree, Nodes!NewBuilder, Nodes!NewTree, Nodes!Node, Nodes!Root, Nodes!NoNode,
       Nodes!BuilderInsert, Nodes!AddBelow, Nodes!addChild, Nodes!addSibling, Nodes!Passed, Nodes!NoLink

LEMMA SameTreeOfAll ==
  ASSUME NEW defined
  PROVE  Trees!TreeOfAll(defined) = Nodes!TreeOfAll(defined)
<1>1. Trees!SetAll(defined) = Nodes!SetAll(defined)
  BY SameAll
<1>2. \A table : Trees!getTree(table) = Nodes!getTree(table)
  BY SameTree
<1>3. \A tree : Trees!translate(tree) = Nodes!translate(tree)
  BY SameTranslate
<1>4. QED
  BY <1>1, <1>2, <1>3 DEF Trees!TreeOfAll, Nodes!TreeOfAll

LEMMA SameShows ==
  ASSUME NEW shown, NEW defined
  PROVE  Trees!Shows(shown, defined) = Nodes!Shows(shown, defined)
BY DEF Trees!Shows, Trees!NodesOf, Trees!DepthFirst, Trees!Skip, Trees!Begin, Trees!Contains, Trees!Root,
       Trees!NoNode, Trees!Children, Trees!Siblings,
       Nodes!Shows, Nodes!NodesOf, Nodes!DepthFirst, Nodes!Skip, Nodes!Begin, Nodes!Contains, Nodes!Root,
       Nodes!NoNode, Nodes!Children, Nodes!Siblings

(* As long as no synonyms are made and the scopes of all types nest,       *)
(* typedb:type_tree shows every scope once, as a child of the smallest     *)
(* scope around it, with the first type of every context and name defined  *)
(* in it: the heads of the lists are put into one inverse tree, the tree   *)
(* of nodes is made of it and copied twice, and nothing is lost, moved or  *)
(* shown twice on the way.                                                 *)
THEOREM TypeTreesAlwaysShow == Spec => []TypeTreeShows
<1>1. IInv => TypeTreeShows
  <2> SUFFICES ASSUME IInv, NoSynonyms, TableNests
               PROVE  Trees!Shows(getTypeDefinitionTree, [s \in TableScopes |-> FirstTypes(s)])
    BY DEF TypeTreeShows, TableScopes, TableNests, FirstTypes
  <2> DEFINE heads == Trees!TreeOfAll(HeadsAt)
             copy  == getTypeDefinitionTree
  <2>1. heads = [tree |-> heads.tree, failed |-> heads.failed]
    BY DEF Trees!TreeOfAll
  <2>2. copy = [heads EXCEPT !.tree = Trees!translate(@)]
    BY DEF getTypeDefinitionTree
  <2>3. heads = Nodes!TreeOfAll(HeadsAt)
    BY SameTreeOfAll
  <2> HIDE DEF heads, copy
  <2>4. copy.tree = Nodes!translate(Nodes!TreeOfAll(HeadsAt).tree)
        /\ copy.failed = Nodes!TreeOfAll(HeadsAt).failed
    <3>1. copy.tree = Trees!translate(heads.tree) /\ copy.failed = heads.failed
      BY <2>1, <2>2
    <3>2. QED
      BY <2>3, <3>1, SameTranslate
  <2>5. Nodes!Shows(copy, HeadsAt)
    BY <2>4, HeadsDefinable, Nodes!AgainTranslated
  <2>6. HeadsAt = [s \in TableScopes |-> FirstTypes(s)]
    BY HeadsAreFirst
  <2>7. QED
    BY <2>5, <2>6, SameShows DEF copy
<1>2. QED
  BY <1>1, AlwaysExact, PTL
=============================================================================
