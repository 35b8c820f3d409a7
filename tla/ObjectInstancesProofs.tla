------------------------ MODULE ObjectInstancesProofs ------------------------
(***************************************************************************)
(* The theorems about the objects of the type database: whatever scopes    *)
(* instances are set for the lists stay ordered and a refused call changes *)
(* nothing; as long as the scopes of a name nest, the getters answer as    *)
(* the scoped dictionary in which the last instance wins.                  *)
(***************************************************************************)
EXTENDS InstanceTrees, InvTreeProofs

-----------------------------------------------------------------------------
(* One table.                                                              *)
SearchTrees == UNION {[D -> Nat] : D \in SUBSET Nat}

Table == [m_invtree : Seq(Element), m_map : SearchTrees]

Own(table) == DOMAIN table.m_invtree

NestedTable(table) ==
  \A i, j \in Own(table) : ~Crossing(table.m_invtree[i].scope, table.m_invtree[j].scope)

Ordered(table) == Ascending(table.m_invtree, table.m_map, Own(table))

Complete(table) == NestedTable(table) => WellLinked(table.m_invtree, table.m_map, Own(table))

Sound(table) == Ordered(table) /\ Complete(table)

LEMMA TableItems ==
  ASSUME NEW table \in Table
  PROVE  /\ table.m_invtree \in Seq(Item(Handles)) /\ table.m_invtree \in Seq(Element)
         /\ Len(table.m_invtree) \in Nat /\ Own(table) = 1 .. Len(table.m_invtree)
         /\ \A i \in Own(table) : /\ table.m_invtree[i].scope \in Scopes
                                  /\ table.m_invtree[i].scope \in ProperScopes
<1>1. /\ table.m_invtree \in Seq(Element) /\ Len(table.m_invtree) \in Nat
      /\ Own(table) = 1 .. Len(table.m_invtree)
  BY DEF Table, Own
<1>2. \A i \in 1 .. Len(table.m_invtree) : table.m_invtree[i] \in Element
  BY <1>1
<1>3. Element \subseteq Item(Handles)
  BY ScopesAssumption DEF Element, Item, ProperScopes
<1>4. table.m_invtree \in Seq(Item(Handles))
  BY <1>1, <1>2, <1>3
<1>5. QED
  BY <1>1, <1>2, <1>3, <1>4 DEF Element, Item

LEMMA TableLinked ==
  ASSUME NEW table \in Table, Sound(table), NestedTable(table)
  PROVE  /\ WellLinked(table.m_invtree, table.m_map, Own(table))
         /\ NestedElements(table.m_invtree, Own(table))
         /\ Linked(table.m_invtree, Own(table))
         /\ EndsLeadToInnermost(table.m_invtree, table.m_map, Own(table))
<1>1. WellLinked(table.m_invtree, table.m_map, Own(table))
  BY DEF Sound, Complete
<1>2. NestedElements(table.m_invtree, Own(table))
  BY TableItems, NestedItems DEF NestedTable, Own
<1>3. QED
  BY <1>1, <1>2 DEF WellLinked, Linked

LEMMA EmptySound == EmptyTable \in Table /\ Sound(EmptyTable)
<1>1. /\ EmptyTable.m_invtree = << >> /\ EmptyTable.m_map = [e \in {} |-> NoLink]
      /\ EmptyTable = [m_invtree |-> << >>, m_map |-> [e \in {} |-> NoLink]]
  BY DEF EmptyTable
<1>2. [e \in {} |-> NoLink] \in SearchTrees
  BY DEF SearchTrees, NoLink
<1>3. Own(EmptyTable) = {}
  BY <1>1 DEF Own
<1>4. QED
  BY <1>1, <1>2, <1>3 DEF Table, Sound, Ordered, Complete, Ascending, WellLinked, EndsLeadToInnermost

(* setObjectInstance for a scope the table has not: an insertion.          *)
LEMMA StoredNew ==
  ASSUME NEW table \in Table, Sound(table), NEW scope \in Scopes, NEW handle \in Handles,
         ~IsKnownIn(table, scope), ~IsRefusedIn(table, scope)
  PROVE  LET new == Stored(table, scope, handle)
         IN  /\ new \in Table /\ Sound(new)
             /\ new.m_invtree = Inserted(table.m_invtree, table.m_map, scope, handle)
             /\ Own(new) = Own(table) \cup {Len(table.m_invtree) + 1}
             /\ IsExtension(table.m_invtree, Own(table), table.m_map, scope, handle, new.m_invtree)
             /\ NestedTable(new) => NestedTable(table) /\ Fresh(table.m_invtree, Own(table), scope)
<1> DEFINE ar == table.m_invtree
           ends == table.m_map
           own == Own(table)
           n == Len(ar) + 1
           new == Stored(table, scope, handle)
<1>1. /\ scope \in ProperScopes /\ ar \in Seq(Item(Handles)) /\ ar \in Seq(Element)
      /\ Ascending(ar, ends, own)
  BY TableItems, ScopesAssumption DEF Sound, Ordered, ProperScopes
<1>2. /\ new = [m_invtree |-> Inserted(ar, ends, scope, handle), m_map |-> NewEnds(ar, ends, scope)]
      /\ new.m_invtree = Inserted(ar, ends, scope, handle)
      /\ new.m_map = NewEnds(ar, ends, scope)
  BY DEF Stored
<1>3. IsExtension(ar, own, ends, scope, handle, new.m_invtree)
  BY <1>1, <1>2, InsertedExtends
<1>4. Own(new) = own \cup {n} /\ n \notin own
  BY <1>3 DEF IsExtension, Own
<1>5. ~Known(ar, ends, scope) /\ ~HierarchyError(ar, ends, scope)
  BY DEF IsKnownIn, IsRefusedIn
<1>6. Ascending(new.m_invtree, new.m_map, Own(new))
  <2>1. Ascending(Inserted(ar, ends, scope, handle), NewEnds(ar, ends, scope), own \cup {n})
    BY <1>1, <1>5, InsertedAscending
  <2>2. QED
    BY <1>2, <1>4, <2>1
<1>7. new \in Table
  <2>1. new.m_invtree \in Seq(Element)
    <3>1. Inserted(ar, ends, scope, handle) \in Seq(Element)
      BY <1>1, InsertedType DEF Element
    <3>2. QED
      BY <1>2, <3>1
  <2>2. /\ DOMAIN new.m_map \subseteq Nat
        /\ \A e \in DOMAIN new.m_map : new.m_map[e] \in Nat
    <3>1. \A i \in Own(new) : i \in Nat
      BY <1>4, TableItems
    <3>2. QED
      BY <1>6, <3>1 DEF Ascending
  <2>3. new.m_map = [e \in DOMAIN new.m_map |-> new.m_map[e]]
    BY <1>2 DEF NewEnds
  <2>4. new.m_map \in [DOMAIN new.m_map -> Nat]
    BY <2>2, <2>3
  <2>5. new.m_map \in SearchTrees
    BY <2>2, <2>4 DEF SearchTrees
  <2>6. QED
    BY <1>2, <2>1, <2>5 DEF Table
<1>8. ASSUME NestedTable(new)
      PROVE  NestedTable(table) /\ Fresh(ar, own, scope) /\ WellLinked(new.m_invtree, new.m_map, Own(new))
  <2>1. /\ new.m_invtree[n].scope = scope
        /\ \A i \in own : new.m_invtree[i].scope = ar[i].scope
    BY <1>3 DEF IsExtension, Own
  <2>2. NestedTable(table) /\ \A i \in own : ~Crossing(ar[i].scope, scope)
    BY <1>4, <1>8, <2>1 DEF NestedTable
  <2>3. \A i \in own : ar[i].scope # scope
    BY <1>1, <1>5, <2>2, TableLinked, KnownIff
  <2>4. Fresh(ar, own, scope)
    BY <1>1, <2>2, <2>3 DEF Fresh
  <2>5. WellLinked(Inserted(ar, ends, scope, handle), NewEnds(ar, ends, scope), own \cup {n})
    BY <1>1, <2>2, <2>4, TableLinked, InsertedWellLinked
  <2>6. QED
    BY <1>2, <1>4, <2>2, <2>4, <2>5
<1>9. Sound(new)
  BY <1>6, <1>8 DEF Sound, Ordered, Complete
<1>10. QED
  BY <1>2, <1>3, <1>4, <1>7, <1>8, <1>9

(* For a scope the table has: the value of its element is replaced.        *)
LEMMA StoredAgain ==
  ASSUME NEW table \in Table, Sound(table), NEW scope \in Scopes, NEW handle \in Handles,
         IsKnownIn(table, scope)
  PROVE  LET new == Stored(table, scope, handle)
             met == Meets(table.m_invtree, table.m_map[scope.end], scope)
         IN  /\ new \in Table /\ Sound(new)
             /\ Own(new) = Own(table) /\ new.m_map = table.m_map
             /\ met \in Own(table) /\ table.m_invtree[met].scope = scope
             /\ \A i \in Own(table) :
                  /\ new.m_invtree[i].scope = table.m_invtree[i].scope
                  /\ new.m_invtree[i].prev = table.m_invtree[i].prev
                  /\ new.m_invtree[i].value = IF i = met THEN handle ELSE table.m_invtree[i].value
             /\ NestedTable(new) => NestedTable(table)
<1> DEFINE ar == table.m_invtree
           ends == table.m_map
           own == Own(table)
           met == Meets(ar, ends[scope.end], scope)
           item == [ar[met] EXCEPT !.value = handle]
           new == Stored(table, scope, handle)
<1>1. ar \in Seq(Element) /\ own = 1 .. Len(ar) /\ Len(ar) \in Nat
  BY TableItems
<1>2. met \in own /\ ar[met].scope = scope
  BY StopsAtType DEF IsKnownIn, Known, Meets, Own
<1>3. ar[met] \in Element
  BY <1>1, <1>2
<1>4. /\ item \in Element /\ item.scope = ar[met].scope /\ item.prev = ar[met].prev
      /\ item.value = handle
  BY <1>3 DEF Element
<1>5. new = [table EXCEPT !.m_invtree = [ar EXCEPT ![met] = item]]
  BY DEF Stored
<1>6. new.m_invtree = [ar EXCEPT ![met] = item] /\ new.m_map = ends
  BY <1>5 DEF Table
<1>7. /\ Own(new) = own
      /\ \A i \in own : new.m_invtree[i] = IF i = met THEN item ELSE ar[i]
  <2> HIDE DEF item, met, new
  <2>1. QED
    BY <1>1, <1>2, <1>6 DEF Own
<1>8. new \in Table
  <2>1. [ar EXCEPT ![met] = item] \in Seq(Element)
    <3> HIDE DEF item, met
    <3>1. QED
      BY <1>1, <1>2, <1>4
  <2>2. QED
    BY <1>5, <2>1 DEF Table
<1>9. \A i \in own : /\ new.m_invtree[i].scope = ar[i].scope
                     /\ new.m_invtree[i].prev = ar[i].prev
                     /\ new.m_invtree[i].value = IF i = met THEN handle ELSE ar[i].value
  BY <1>4, <1>7
<1>10. Ordered(new)
  <2>1. Ascending(ar, ends, own)
    BY DEF Sound, Ordered
  <2>2. DOMAIN ar \subseteq DOMAIN new.m_invtree /\ NoLink \notin DOMAIN new.m_invtree
    BY <1>7, <2>1 DEF Own, Ascending
  <2>3. Ascending(new.m_invtree, ends, own)
    BY <1>9, <2>1, <2>2, AscendingElsewhere
  <2>4. QED
    BY <1>6, <1>7, <2>3 DEF Ordered
<1>11. NestedTable(new) => NestedTable(table)
  BY <1>7, <1>9 DEF NestedTable
<1>12. Complete(new)
  <2>1. ASSUME NestedTable(new) PROVE WellLinked(new.m_invtree, ends, own)
    <3>1. WellLinked(ar, ends, own)
      BY <1>11, <2>1 DEF Sound, Complete
    <3>2. QED
      BY <1>9, <3>1, WellLinkedElsewhere
  <2>2. QED
    BY <1>6, <1>7, <2>1 DEF Complete
<1>13. QED
  BY <1>2, <1>6, <1>7, <1>8, <1>9, <1>10, <1>11, <1>12 DEF Sound

-----------------------------------------------------------------------------
(* The tables of all names: every name has its own, behind the empty one.  *)
NamesApart ==
  /\ m_objAr \in Seq(Table)
  /\ DOMAIN m_objidMap \subseteq Names
  /\ \A n \in DOMAIN m_objidMap : m_objidMap[n] \in 2 .. Len(m_objAr)
  /\ \A n, m \in DOMAIN m_objidMap : m_objidMap[n] = m_objidMap[m] => n = m
  /\ Len(m_objAr) >= 1

IInv == NamesApart /\ \A i \in DOMAIN m_objAr : Sound(m_objAr[i])

(* The table of a name in the tables with one added for a new name.        *)
LEMMA TableOfName ==
  ASSUME IInv, NEW name \in Names
  PROVE  /\ Tables(name) \in Seq(Table) /\ Len(Tables(name)) \in Nat
         /\ DOMAIN Tables(name) = 1 .. Len(Tables(name))
         /\ TableOf(name) \in 2 .. Len(Tables(name))
         /\ Len(m_objAr) <= Len(Tables(name)) /\ DOMAIN m_objAr \subseteq DOMAIN Tables(name)
         /\ \A i \in DOMAIN Tables(name) : Tables(name)[i] \in Table /\ Sound(Tables(name)[i])
         /\ \A i \in DOMAIN m_objAr : Tables(name)[i] = m_objAr[i]
         /\ \A n \in DOMAIN m_objidMap : /\ m_objidMap[n] \in DOMAIN m_objAr
                                         /\ n # name => m_objidMap[n] # TableOf(name)
         /\ name \in DOMAIN m_objidMap => /\ TableOf(name) = m_objidMap[name]
                                          /\ Tables(name) = m_objAr
         /\ name \notin DOMAIN m_objidMap => Tables(name)[TableOf(name)] = EmptyTable
<1> DEFINE len == Len(m_objAr)
<1>1. /\ m_objAr \in Seq(Table) /\ len \in Nat /\ DOMAIN m_objAr = 1 .. len /\ len >= 1
      /\ \A i \in DOMAIN m_objAr : m_objAr[i] \in Table /\ Sound(m_objAr[i])
      /\ \A n \in DOMAIN m_objidMap : m_objidMap[n] \in 2 .. len
      /\ \A n, m \in DOMAIN m_objidMap : m_objidMap[n] = m_objidMap[m] => n = m
  BY DEF IInv, NamesApart
<1>2. CASE name \in DOMAIN m_objidMap
  <2>1. Tables(name) = m_objAr /\ TableOf(name) = m_objidMap[name]
    BY <1>2 DEF Tables, TableOf
  <2>2. QED
    BY <1>1, <1>2, <2>1
<1>3. CASE name \notin DOMAIN m_objidMap
  <2>1. Tables(name) = Append(m_objAr, EmptyTable) /\ TableOf(name) = len + 1
    BY <1>3 DEF Tables, TableOf
  <2>2. EmptyTable \in Table /\ Sound(EmptyTable)
    BY EmptySound
  <2>3. /\ Tables(name) \in Seq(Table) /\ Len(Tables(name)) = len + 1
        /\ DOMAIN Tables(name) = 1 .. len + 1
        /\ Tables(name)[len + 1] = EmptyTable
        /\ \A i \in 1 .. len : Tables(name)[i] = m_objAr[i]
    <3> HIDE DEF EmptyTable
    <3>1. QED
      BY <1>1, <2>1, <2>2
  <2>4. \A i \in 1 .. len + 1 : Tables(name)[i] \in Table /\ Sound(Tables(name)[i])
    <3>1. \A i \in 1 .. len + 1 : i \in 1 .. len \/ i = len + 1
      BY <1>1
    <3>2. QED
      BY <1>1, <2>2, <2>3, <3>1
  <2>5. \A n \in DOMAIN m_objidMap : m_objidMap[n] \in 1 .. len /\ m_objidMap[n] # len + 1
    BY <1>1
  <2>6. /\ \A i \in DOMAIN Tables(name) : Tables(name)[i] \in Table /\ Sound(Tables(name)[i])
        /\ \A i \in DOMAIN m_objAr : Tables(name)[i] = m_objAr[i]
        /\ DOMAIN m_objAr \subseteq DOMAIN Tables(name)
    BY <1>1, <2>3, <2>4
  <2>7. /\ TableOf(name) \in 2 .. Len(Tables(name)) /\ Len(m_objAr) <= Len(Tables(name))
        /\ Len(Tables(name)) \in Nat /\ DOMAIN Tables(name) = 1 .. Len(Tables(name))
    BY <1>1, <2>1, <2>3
  <2>8. \A n \in DOMAIN m_objidMap : /\ m_objidMap[n] \in DOMAIN m_objAr
                                     /\ n # name => m_objidMap[n] # TableOf(name)
    BY <1>1, <2>1, <2>5
  <2>9. Tables(name)[TableOf(name)] = EmptyTable
    BY <2>1, <2>3
  <2>10. QED
    BY <1>3, <2>3, <2>6, <2>7, <2>8, <2>9
<1>4. QED
  BY <1>2, <1>3

(* The names after a call that adds a name.                                *)
LEMMA NamesAfter ==
  ASSUME IInv, NEW name \in Names, AddName(name)
  PROVE  /\ DOMAIN m_objidMap' = DOMAIN m_objidMap \cup {name}
         /\ m_objidMap'[name] = TableOf(name)
         /\ \A n \in DOMAIN m_objidMap : m_objidMap'[n] = m_objidMap[n]
<1>1. name \in DOMAIN m_objidMap => TableOf(name) = m_objidMap[name]
  BY DEF TableOf
<1>2. QED
  BY <1>1 DEF AddName

(* An empty table refuses no scope: a refused call knows its name.         *)
LEMMA RefusedIsNamed ==
  ASSUME IInv, NEW name \in Names, NEW scope \in Scopes, Refuse(name, scope)
  PROVE  /\ name \in DOMAIN m_objidMap /\ m_objAr' = m_objAr
         /\ DOMAIN m_objidMap' = DOMAIN m_objidMap
         /\ \A n \in DOMAIN m_objidMap : m_objidMap'[n] = m_objidMap[n]
<1>1. ~IsRefusedIn(EmptyTable, scope)
  <2>1. EmptyTable.m_map = [e \in {} |-> NoLink]
    BY DEF EmptyTable
  <2>2. QED
    BY <2>1 DEF IsRefusedIn, HierarchyError
<1>2. name \in DOMAIN m_objidMap
  BY <1>1, TableOfName DEF Refuse
<1>3. QED
  BY <1>2, TableOfName, NamesAfter DEF Refuse

LEMMA StoredSound ==
  ASSUME NEW table \in Table, Sound(table), NEW scope \in Scopes, NEW handle \in Handles,
         ~IsRefusedIn(table, scope)
  PROVE  Stored(table, scope, handle) \in Table /\ Sound(Stored(table, scope, handle))
BY StoredNew, StoredAgain

(* How setting an instance changes the tables.                             *)
LEMMA SetTables ==
  ASSUME IInv, NEW name \in Names, NEW scope \in Scopes, NEW handle \in Handles,
         setObjectInstance(name, scope, handle)
  PROVE  LET table == Tables(name)[TableOf(name)]
             new   == Stored(table, scope, handle)
         IN  /\ table \in Table /\ Sound(table) /\ new \in Table /\ Sound(new)
             /\ m_objAr' \in Seq(Table) /\ Len(m_objAr') = Len(Tables(name))
             /\ DOMAIN m_objAr' = DOMAIN Tables(name)
             /\ m_objAr'[TableOf(name)] = new
             /\ \A i \in DOMAIN Tables(name) : i # TableOf(name) => m_objAr'[i] = Tables(name)[i]
<1> DEFINE all == Tables(name)
           k == TableOf(name)
           table == all[k]
           new == Stored(table, scope, handle)
<1>1. /\ all \in Seq(Table) /\ DOMAIN all = 1 .. Len(all) /\ Len(all) \in Nat /\ k \in DOMAIN all
      /\ table \in Table /\ Sound(table)
  BY TableOfName
<1>2. new \in Table /\ Sound(new)
  BY <1>1, StoredSound DEF setObjectInstance
<1>3. m_objAr' = [all EXCEPT ![k] = new]
  BY DEF setObjectInstance
<1>4. QED
  <2> HIDE DEF all, k, new
  <2>1. /\ [all EXCEPT ![k] = new] \in Seq(Table) /\ Len([all EXCEPT ![k] = new]) = Len(all)
        /\ DOMAIN [all EXCEPT ![k] = new] = DOMAIN all
        /\ [all EXCEPT ![k] = new][k] = new
        /\ \A i \in DOMAIN all : i # k => [all EXCEPT ![k] = new][i] = all[i]
    BY <1>1, <1>2
  <2>2. QED
    BY <1>1, <1>2, <1>3, <2>1 DEF all, k, new

LEMMA Inductive ==
  /\ Init => IInv
  /\ IInv /\ [Next]_vars => IInv'
<1>1. ASSUME Init PROVE IInv
  <2>1. m_objAr = <<EmptyTable>> /\ DOMAIN m_objidMap = {}
    BY <1>1 DEF Init
  <2>2. EmptyTable \in Table /\ Sound(EmptyTable)
    BY EmptySound
  <2>3. m_objAr \in Seq(Table) /\ Len(m_objAr) = 1 /\ DOMAIN m_objAr = {1} /\ m_objAr[1] = EmptyTable
    <3> HIDE DEF EmptyTable
    <3>1. QED
      BY <2>1, <2>2
  <2>4. QED
    BY <2>1, <2>2, <2>3 DEF IInv, NamesApart
<1>2. ASSUME IInv, NEW name \in Names, NEW scope \in Scopes, NEW handle \in Handles,
             setObjectInstance(name, scope, handle)
      PROVE  IInv'
  <2>1. /\ DOMAIN m_objidMap' = DOMAIN m_objidMap \cup {name}
        /\ m_objidMap'[name] = TableOf(name)
        /\ \A n \in DOMAIN m_objidMap : m_objidMap'[n] = m_objidMap[n]
    BY <1>2, NamesAfter DEF setObjectInstance
  <2>2. /\ m_objAr' \in Seq(Table) /\ Len(m_objAr') = Len(Tables(name))
        /\ \A i \in DOMAIN m_objAr' : Sound(m_objAr'[i])
    <3>1. \A i \in DOMAIN m_objAr' : i = TableOf(name) \/ m_objAr'[i] = Tables(name)[i]
      BY <1>2, SetTables
    <3>2. Sound(m_objAr'[TableOf(name)]) /\ DOMAIN m_objAr' = DOMAIN Tables(name)
      BY <1>2, SetTables
    <3>3. QED
      BY <1>2, <3>1, <3>2, SetTables, TableOfName
  <2>3. /\ TableOf(name) \in 2 .. Len(Tables(name))
        /\ Len(m_objAr) <= Len(Tables(name)) /\ Len(Tables(name)) \in Nat
        /\ \A n \in DOMAIN m_objidMap : n # name => m_objidMap[n] # TableOf(name)
        /\ name \in DOMAIN m_objidMap => TableOf(name) = m_objidMap[name]
    BY <1>2, TableOfName
  <2>4. /\ DOMAIN m_objidMap \subseteq Names /\ Len(m_objAr) \in Nat /\ Len(m_objAr) >= 1
        /\ \A n \in DOMAIN m_objidMap : m_objidMap[n] \in 2 .. Len(m_objAr)
        /\ \A n, m \in DOMAIN m_objidMap : m_objidMap[n] = m_objidMap[m] => n = m
    BY <1>2 DEF IInv, NamesApart
  <2>5. DOMAIN m_objidMap' \subseteq Names /\ Len(m_objAr') >= 1
    BY <2>1, <2>2, <2>3, <2>4
  <2>6. \A n \in DOMAIN m_objidMap' : m_objidMap'[n] \in 2 .. Len(m_objAr')
    BY <2>1, <2>2, <2>3, <2>4
  <2>7. \A n, m \in DOMAIN m_objidMap' : m_objidMap'[n] = m_objidMap'[m] => n = m
    BY <2>1, <2>3, <2>4
  <2>8. NamesApart'
    BY <2>2, <2>5, <2>6, <2>7 DEF NamesApart
  <2>9. QED
    BY <2>2, <2>8 DEF IInv, Sound, Ordered, Complete, NestedTable, Own, Ascending, WellLinked,
                      StrictlyInside, Contains, Crossing, NoLink, EndsLeadToInnermost,
                      LeadsToEncloser, Enclosing
<1>3. ASSUME IInv, NEW name \in Names, NEW scope \in Scopes, Refuse(name, scope)
      PROVE  IInv'
  <2>1. /\ m_objAr' = m_objAr /\ DOMAIN m_objidMap' = DOMAIN m_objidMap
        /\ \A n \in DOMAIN m_objidMap : m_objidMap'[n] = m_objidMap[n]
    BY <1>3, RefusedIsNamed
  <2>2. NamesApart'
    BY <1>3, <2>1 DEF IInv, NamesApart
  <2>3. QED
    BY <1>3, <2>1, <2>2 DEF IInv
<1>4. ASSUME IInv, UNCHANGED vars PROVE IInv'
  BY <1>4 DEF IInv, NamesApart, vars
<1>5. QED
  BY <1>1, <1>2, <1>3, <1>4 DEF Next

(* The types hold in every state, for all scopes: the indices the tables   *)
(* keep are those of elements of the same table.                           *)
THEOREM TypeCorrect == Spec => []TypeOK
<1>1. ASSUME IInv PROVE TypeOK
  <2>1. /\ m_objAr \in Seq(Table) /\ \A i \in DOMAIN m_objAr : m_objAr[i] \in Table
    BY <1>1 DEF IInv, NamesApart
  <2>2. ASSUME NEW i \in DOMAIN m_objAr
        PROVE  /\ m_objAr[i].m_invtree \in Seq(Element)
               /\ DOMAIN m_objAr[i].m_map \subseteq Nat
               /\ \A e \in DOMAIN m_objAr[i].m_map : m_objAr[i].m_map[e] \in DOMAIN m_objAr[i].m_invtree
    BY <1>1, <2>1, TableItems DEF IInv, Sound, Ordered, Ascending, Own
  <2>3. QED
    BY <1>1, <2>2 DEF TypeOK, IInv, NamesApart
<1>2. (Init => IInv) /\ (IInv /\ [Next]_vars => IInv')
  BY Inductive
<1>3. QED
  BY <1>1, <1>2, PTL DEF Spec

(* Whatever scopes instances are set for, refused calls included, the list *)
(* of a scope leads to bigger and bigger scopes around it, and what a      *)
(* lookup passes covers the step.                                          *)
THEOREM ListsStayOrdered == Spec => []ListsOrdered
<1>1. ASSUME IInv PROVE ListsOrdered
  <2> SUFFICES ASSUME NEW i \in DOMAIN m_objAr
      PROVE  LET ar == m_objAr[i].m_invtree
             IN  /\ \A k \in DOMAIN ar :
                      ar[k].prev # NoLink => /\ ar[ar[k].prev].scope # ar[k].scope
                                             /\ Contains(ar[ar[k].prev].scope, ar[k].scope)
                 /\ \A step \in Steps, k \in DOMAIN ar :
                      k \in match_range(ar, m_objAr[i].m_map, step) => Covers(ar[k].scope, step)
    BY DEF ListsOrdered
  <2> DEFINE ar == m_objAr[i].m_invtree
  <2>1. Ascending(ar, m_objAr[i].m_map, DOMAIN ar)
    BY <1>1 DEF IInv, Sound, Ordered, Own
  <2>2. \A k \in DOMAIN ar : ar[k].prev # NoLink => /\ ar[ar[k].prev].scope # ar[k].scope
                                                    /\ Contains(ar[ar[k].prev].scope, ar[k].scope)
    BY <2>1 DEF Ascending, StrictlyInside
  <2>3. ASSUME NEW step \in Steps, NEW k \in match_range(ar, m_objAr[i].m_map, step)
        PROVE  Covers(ar[k].scope, step)
    <3>1. step \in Nat
      BY StepsAssumption
    <3>2. QED
      BY <2>1, <3>1, MatchRangeCovers
  <2>4. QED
    BY <2>2, <2>3
<1>2. (Init => IInv) /\ (IInv /\ [Next]_vars => IInv')
  BY Inductive
<1>3. QED
  BY <1>1, <1>2, PTL DEF Spec

-----------------------------------------------------------------------------
(* The abstract dictionary.                                                *)

LEMMA DefinitionsOf ==
  ASSUME IInv, NEW name \in Names
  PROVE  LET table == Tables(name)[TableOf(name)]
         IN  /\ table \in Table /\ Sound(table)
             /\ Definitions[name] = Contents(table.m_invtree, Own(table))
             /\ Nested(name) <=> NestedTable(table)
<1> DEFINE table == Tables(name)[TableOf(name)]
           ar == table.m_invtree
<1>1. table \in Table /\ Sound(table)
  BY TableOfName
<1>2. Definitions[name] = Contents(ar, Own(table))
  <2>1. CASE name \in DOMAIN m_objidMap
    <3>1. table = m_objAr[m_objidMap[name]]
      BY <2>1, TableOfName
    <3>2. QED
      BY <2>1, <3>1 DEF Definitions, Own
  <2>2. CASE name \notin DOMAIN m_objidMap
    <3>1. table = EmptyTable
      BY <2>2, TableOfName
    <3>2. Own(table) = {}
      BY <3>1 DEF Own, EmptyTable
    <3>3. Definitions[name] = [s \in {} |-> NullVal]
      BY <2>2 DEF Definitions
    <3>4. Contents(ar, {}) = [s \in {} |-> NullVal]
      BY DEF Contents
    <3>5. QED
      BY <3>2, <3>3, <3>4
  <2>3. QED
    BY <2>1, <2>2
<1>3. DOMAIN Definitions[name] = {ar[i].scope : i \in Own(table)}
  BY <1>2 DEF Contents
<1>4. Nested(name) <=> NestedTable(table)
  BY <1>3 DEF Nested, NestedTable
<1>5. QED
  BY <1>1, <1>2, <1>4

LEMMA Answers ==
  ASSUME IInv
  PROVE  AnswersAsDict
<1> SUFFICES ASSUME NEW name \in Names, Nested(name)
    PROVE  /\ \A step \in Steps : getObjectInstance(name, step) = Dict!Lookup(name, step)
           /\ \A scope \in Scopes : getObjectInstanceOfScope(name, scope) = Dict!LookupDef(name, scope)
  BY DEF AnswersAsDict
<1> DEFINE table == Tables(name)[TableOf(name)]
           ar == table.m_invtree
           ends == table.m_map
           defs == Contents(ar, Own(table))
<1>1. Definitions[name] = defs
  BY DefinitionsOf
<1>2. Linked(ar, Own(table)) /\ EndsLeadToInnermost(ar, ends, Own(table))
  BY DefinitionsOf, TableLinked
<1>3. ASSUME NEW step \in Steps
      PROVE  Dict!Lookup(name, step) = LookupIn(defs, step)
  BY <1>1 DEF Dict!Visible, Dict!Lookup, Dict!Innermost, Dict!Rules!Covers, Dict!Rules!Contains,
              VisibleIn, LookupIn, Covers, Contains
<1>4. CASE name \in DOMAIN m_objidMap
  <2>1. m_objAr[m_objidMap[name]] = table
    BY <1>4, TableOfName
  <2>2. \A step \in Steps : get(ar, ends, step) = LookupIn(defs, step)
    BY <1>2, StepsAssumption, GetInnermost
  <2>3. \A step \in Steps : getObjectInstance(name, step) = get(ar, ends, step)
    BY <1>4, <2>1 DEF getObjectInstance
  <2>4. ASSUME NEW scope \in Scopes
        PROVE  getObjectInstanceOfScope(name, scope) = Dict!LookupDef(name, scope)
    <3>1. scope \in ProperScopes
      BY ScopesAssumption DEF ProperScopes
    <3>2. getDef(ar, ends, scope) = IF scope \in DOMAIN defs THEN defs[scope] ELSE NullVal
      BY <1>2, <3>1, GetDefOfScope
    <3>3. getObjectInstanceOfScope(name, scope) = getDef(ar, ends, scope)
      BY <1>4, <2>1 DEF getObjectInstanceOfScope
    <3>4. QED
      BY <1>1, <3>2, <3>3 DEF Dict!LookupDef
  <2>5. QED
    BY <1>3, <2>2, <2>3, <2>4
<1>5. CASE name \notin DOMAIN m_objidMap
  <2>1. Definitions[name] = [s \in {} |-> NullVal]
    BY <1>5 DEF Definitions
  <2>2. \A step \in Steps : Dict!Lookup(name, step) = NullVal
    BY <2>1 DEF Dict!Lookup, Dict!Visible
  <2>3. \A scope \in Scopes : Dict!LookupDef(name, scope) = NullVal
    BY <2>1 DEF Dict!LookupDef
  <2>4. QED
    BY <1>5, <2>2, <2>3 DEF getObjectInstance, getObjectInstanceOfScope
<1>6. QED
  BY <1>4, <1>5

(* As long as the scopes of a name nest, getObjectInstance finds the       *)
(* instance of the innermost scope of this name that covers the step, and  *)
(* getObjectInstanceOfScope the last one set for the scope, whatever other *)
(* names there are and whatever was refused before.                        *)
THEOREM AnswersRight == Spec => []AnswersAsDict
<1>1. IInv => AnswersAsDict
  BY Answers
<1>2. (Init => IInv) /\ (IInv /\ [Next]_vars => IInv')
  BY Inductive
<1>3. QED
  BY <1>1, <1>2, PTL DEF Spec

(* What the elements of a table stand for after an instance is set.        *)
LEMMA StoredContents ==
  ASSUME NEW table \in Table, Sound(table), NEW scope \in Scopes, NEW handle \in Handles,
         ~IsRefusedIn(table, scope), NestedTable(Stored(table, scope, handle))
  PROVE  Contents(Stored(table, scope, handle).m_invtree, Own(Stored(table, scope, handle)))
           = Plus(Contents(table.m_invtree, Own(table)), scope, handle)
<1> DEFINE ar == table.m_invtree
           own == Own(table)
           new == Stored(table, scope, handle)
<1>1. CASE ~IsKnownIn(table, scope)
  <2>1. /\ new.m_invtree = Inserted(ar, table.m_map, scope, handle)
        /\ Own(new) = own \cup {Len(ar) + 1} /\ NestedTable(table) /\ Fresh(ar, own, scope)
    BY <1>1, StoredNew
  <2>2. ar \in Seq(Item(Handles)) /\ Linked(ar, own) /\ EndsLeadToInnermost(ar, table.m_map, own)
    BY <2>1, TableItems, TableLinked
  <2>3. IsInsertion(ar, own, table.m_map, scope, handle, new.m_invtree)
    BY <2>1, <2>2, InsertedItems
  <2>4. /\ own \subseteq DOMAIN ar /\ \A i \in own : ar[i].scope # scope
        /\ \A i, j \in own : ar[i].scope = ar[j].scope => i = j
    BY <2>1, <2>2 DEF Own, Fresh, Linked
  <2>5. QED
    BY <2>1, <2>3, <2>4, ContentsInserted
<1>2. CASE IsKnownIn(table, scope)
  <2> DEFINE met == Meets(ar, table.m_map[scope.end], scope)
             after == new.m_invtree
  <2>1. /\ Own(new) = own /\ met \in own /\ ar[met].scope = scope /\ NestedTable(table)
        /\ \A i \in own : /\ after[i].scope = ar[i].scope
                          /\ after[i].value = IF i = met THEN handle ELSE ar[i].value
    BY <1>2, StoredAgain
  <2>2. \A i, j \in own : ar[i].scope = ar[j].scope => i = j
    BY <2>1, TableLinked DEF Linked
  <2>3. \A i, j \in own : after[i].scope = after[j].scope => i = j
    BY <2>1, <2>2
  <2>4. DOMAIN Contents(ar, own) = {ar[i].scope : i \in own}
    BY <2>2, ContentsOf
  <2>5. \A i \in own : Contents(ar, own)[ar[i].scope] = ar[i].value
    BY <2>2, ContentsOf
  <2>6. DOMAIN Contents(after, own) = {after[i].scope : i \in own}
    BY <2>3, ContentsOf
  <2>7. \A i \in own : Contents(after, own)[after[i].scope] = after[i].value
    BY <2>3, ContentsOf
  <2>8. DOMAIN Contents(after, own) = DOMAIN Contents(ar, own) \cup {scope}
    <3> HIDE DEF after, met
    <3>1. {after[i].scope : i \in own} = {ar[i].scope : i \in own}
      BY <2>1
    <3>2. scope \in {ar[i].scope : i \in own}
      BY <2>1
    <3>3. QED
      BY <2>4, <2>6, <3>1, <3>2
  <2>9. ASSUME NEW t \in DOMAIN Contents(after, own)
        PROVE  Contents(after, own)[t] = IF t = scope THEN handle ELSE Contents(ar, own)[t]
    <3> HIDE DEF after, met
    <3>1. PICK i \in own : t = after[i].scope
      BY <2>6
    <3>2. i = met <=> t = scope
      BY <2>1, <2>2, <3>1
    <3>3. QED
      BY <2>1, <2>5, <2>7, <3>1, <3>2
  <2>10. Contents(after, own) = [t \in DOMAIN Contents(after, own) |-> Contents(after, own)[t]]
    BY DEF Contents
  <2>11. QED
    <3> HIDE DEF after, met, own, ar
    <3>1. Contents(after, own) = Plus(Contents(ar, own), scope, handle)
      BY <2>8, <2>9, <2>10 DEF Plus
    <3>2. QED
      BY <2>1, <3>1 DEF after, own, ar
<1>3. QED
  BY <1>1, <1>2

AllNested == \A name \in Names : Nested(name)

LEMMA SetOverwrites ==
  ASSUME IInv, AllNested', NEW name \in Names, NEW scope \in Scopes, NEW handle \in Handles,
         setObjectInstance(name, scope, handle)
  PROVE  Dict!Overwrite(name, scope, handle)
<1> DEFINE table == Tables(name)[TableOf(name)]
           new == Stored(table, scope, handle)
           put == Plus(Definitions[name], scope, handle)
<1>1. /\ table \in Table /\ Sound(table)
      /\ m_objAr'[TableOf(name)] = new
      /\ \A i \in DOMAIN Tables(name) : i # TableOf(name) => m_objAr'[i] = Tables(name)[i]
  BY SetTables
<1>2. /\ DOMAIN m_objidMap' = DOMAIN m_objidMap \cup {name}
      /\ m_objidMap'[name] = TableOf(name)
      /\ \A n \in DOMAIN m_objidMap : m_objidMap'[n] = m_objidMap[n]
  BY NamesAfter DEF setObjectInstance
<1>3. Definitions' = [n \in Names |->
                        IF n \notin DOMAIN m_objidMap' THEN [s \in {} |-> NullVal]
                        ELSE Contents(m_objAr'[m_objidMap'[n]].m_invtree,
                                      DOMAIN m_objAr'[m_objidMap'[n]].m_invtree)]
  BY DEF Definitions, Contents
<1>4. Definitions'[name] = Contents(new.m_invtree, Own(new))
  <2> HIDE DEF new
  <2>1. QED
    BY <1>1, <1>2, <1>3 DEF Own
<1>5. NestedTable(new)
  <2>1. DOMAIN Definitions'[name] = {new.m_invtree[i].scope : i \in Own(new)}
    BY <1>4 DEF Contents
  <2>2. \A s, t \in DOMAIN Definitions'[name] : ~Crossing(s, t)
    BY DEF AllNested, Nested, Crossing, Contains
  <2>3. QED
    <3> HIDE DEF new
    <3>1. QED
      BY <2>1, <2>2 DEF NestedTable
<1>6. Definitions'[name] = put
  <2>1. Definitions[name] = Contents(table.m_invtree, Own(table))
    BY DefinitionsOf
  <2>2. ~IsRefusedIn(table, scope)
    BY DEF setObjectInstance
  <2>3. QED
    BY <1>1, <1>4, <1>5, <2>1, <2>2, StoredContents
<1>7. ASSUME NEW n \in Names, n # name PROVE Definitions'[n] = Definitions[n]
  <2>1. CASE n \in DOMAIN m_objidMap
    <3>1. /\ m_objidMap[n] \in DOMAIN m_objAr /\ m_objidMap[n] # TableOf(name)
          /\ m_objidMap[n] \in DOMAIN Tables(name)
          /\ Tables(name)[m_objidMap[n]] = m_objAr[m_objidMap[n]]
      BY <1>7, <2>1, TableOfName
    <3>2. m_objAr'[m_objidMap'[n]] = m_objAr[m_objidMap[n]]
      BY <1>1, <1>2, <2>1, <3>1
    <3>3. QED
      BY <1>2, <1>3, <2>1, <3>2 DEF Definitions
  <2>2. CASE n \notin DOMAIN m_objidMap
    BY <1>2, <1>3, <1>7, <2>2 DEF Definitions
  <2>3. QED
    BY <2>1, <2>2
<1>8. Definitions' = [Definitions EXCEPT ![name] = put]
  <2> HIDE DEF put
  <2>1. DOMAIN Definitions = Names
    BY DEF Definitions
  <2>2. \A n \in Names : Definitions'[n] = IF n = name THEN put ELSE Definitions[n]
    BY <1>6, <1>7
  <2>3. DOMAIN Definitions' = Names /\ Definitions' = [n \in Names |-> Definitions'[n]]
    BY <1>3
  <2>4. QED
    BY <2>1, <2>2, <2>3
<1>9. QED
  BY <1>8 DEF Dict!Overwrite, Dict!Put, Plus, setObjectInstance

OverlapsDefined(name, scope) == \E s \in DOMAIN Definitions[name] : Crossing(s, scope)

(* A refused call changes no instance, and the scope overlaps another one. *)
LEMMA RefusedOverlaps ==
  ASSUME IInv, NEW name \in Names, NEW scope \in Scopes, Refuse(name, scope)
  PROVE  OverlapsDefined(name, scope) /\ UNCHANGED Definitions
<1> DEFINE table == Tables(name)[TableOf(name)]
<1>1. scope \in ProperScopes
  BY ScopesAssumption DEF ProperScopes
<1>2. /\ Ascending(table.m_invtree, table.m_map, Own(table))
      /\ HierarchyError(table.m_invtree, table.m_map, scope)
  BY DefinitionsOf DEF Sound, Ordered, Refuse, IsRefusedIn
<1>3. PICK i \in Own(table) : Crossing(table.m_invtree[i].scope, scope)
  BY <1>1, <1>2, RefusedCrosses
<1>4. table.m_invtree[i].scope \in DOMAIN Definitions[name]
  <2>1. Definitions[name] = Contents(table.m_invtree, Own(table))
    BY DefinitionsOf
  <2>2. QED
    BY <2>1 DEF Contents
<1>5. Definitions' = Definitions
  <2>1. /\ m_objAr' = m_objAr /\ DOMAIN m_objidMap' = DOMAIN m_objidMap
        /\ \A n \in DOMAIN m_objidMap : m_objidMap'[n] = m_objidMap[n]
    BY RefusedIsNamed
  <2>2. Definitions' = [n \in Names |->
                          IF n \notin DOMAIN m_objidMap' THEN [s \in {} |-> NullVal]
                          ELSE Contents(m_objAr'[m_objidMap'[n]].m_invtree,
                                        DOMAIN m_objAr'[m_objidMap'[n]].m_invtree)]
    BY DEF Definitions, Contents
  <2>3. \A n \in Names : Definitions'[n] = Definitions[n]
    BY <2>1, <2>2 DEF Definitions
  <2>4. QED
    BY <2>2, <2>3 DEF Definitions
<1>6. QED
  BY <1>3, <1>4, <1>5 DEF OverlapsDefined

(* A refused setObjectInstance leaves every instance of every name as it   *)
(* was, although the name may be entered before the error is thrown, and   *)
(* only a scope that overlaps one of the same name is refused.             *)
THEOREM RefusedChangesNothing ==
  Spec => [][\A name \in Names, scope \in Scopes :
               Refuse(name, scope) => OverlapsDefined(name, scope) /\ UNCHANGED Definitions]_vars
<1>1. IInv /\ [Next]_vars =>
        [\A name \in Names, scope \in Scopes :
           Refuse(name, scope) => OverlapsDefined(name, scope) /\ UNCHANGED Definitions]_vars
  BY RefusedOverlaps
<1>2. (Init => IInv) /\ (IInv /\ [Next]_vars => IInv')
  BY Inductive
<1>3. QED
  BY <1>1, <1>2, PTL DEF Spec

LEMMA StepImplements ==
  ASSUME IInv, AllNested', [Next]_vars
  PROVE  [Dict!Next]_(Dict!vars)
<1>1. ASSUME NEW name \in Names, NEW scope \in Scopes, NEW handle \in Handles,
             setObjectInstance(name, scope, handle)
      PROVE  Dict!Overwrite(name, scope, handle)
  BY <1>1, SetOverwrites
<1>2. ASSUME NEW name \in Names, NEW scope \in Scopes, Refuse(name, scope)
      PROVE  Dict!Refuse(name, scope)
  <2>1. PICK s \in DOMAIN Definitions[name] : Crossing(s, scope)
    BY <1>2, RefusedOverlaps DEF OverlapsDefined
  <2>2. Dict!Rules!Crossing(s, scope)
    BY <2>1 DEF Crossing, Contains, Dict!Rules!Crossing, Dict!Rules!Contains
  <2>3. reply' = [op |-> "refuse", result |-> FALSE] /\ UNCHANGED Definitions
    BY <1>2, RefusedOverlaps DEF Refuse
  <2>4. QED
    BY <2>1, <2>2, <2>3 DEF Dict!Refuse
<1>3. CASE UNCHANGED vars
  BY <1>3 DEF vars, Dict!vars, Definitions, Contents
<1>4. QED
  BY <1>1, <1>2, <1>3 DEF Next, Dict!Next

(* As long as the scopes of every name nest the objects implement the      *)
(* scoped dictionary in which the last instance set for a scope wins,      *)
(* refused calls included.                                                 *)
THEOREM ObjectsImplementDict == Spec /\ []AllNested => ImplementsDict
<1>1. Init => Dict!Init
  BY DEF Init, Dict!Init, Definitions
<1>2. IInv /\ AllNested' /\ [Next]_vars => [Dict!Next]_(Dict!vars)
  BY StepImplements
<1>3. (Init => IInv) /\ (IInv /\ [Next]_vars => IInv')
  BY Inductive
<1>4. QED
  BY <1>1, <1>2, <1>3, PTL DEF Spec, ImplementsDict, Dict!Spec

-----------------------------------------------------------------------------
(* The tree of a table.                                                    *)
Shown == Handles \cup {NullVal}

LEMMA TableClimbs ==
  ASSUME NEW table \in Table, Sound(table)
  PROVE  /\ Climbing(table.m_invtree, Shown) /\ ListsEnd(table.m_map, table.m_invtree)
         /\ \A i \in 1 .. Len(table.m_invtree) : table.m_invtree[i].scope \in Spans
         /\ Root \in Spans
<1> DEFINE ar == table.m_invtree
           ends == table.m_map
<1>1. /\ ar \in Seq(Item(Handles)) /\ ar \in Seq(Element) /\ Len(ar) \in Nat /\ DOMAIN ar = 1 .. Len(ar)
      /\ Own(table) = 1 .. Len(ar)
      /\ \A i \in 1 .. Len(ar) : ar[i].scope \in Scopes /\ ar[i].scope \in ProperScopes
  BY TableItems DEF Own
<1>2. /\ \A i \in 1 .. Len(ar) : ar[i].prev # NoLink =>
                      ar[i].prev \in 1 .. Len(ar) /\ StrictlyInside(ar[i].scope, ar[ar[i].prev].scope)
      /\ DOMAIN ends \subseteq Nat
      /\ \A e \in DOMAIN ends : ends[e] \in 1 .. Len(ar) /\ ar[ends[e]].scope.end = e
  BY <1>1 DEF Sound, Ordered, Ascending
<1>3. \A i \in 1 .. Len(ar) : ar[i] \in Element
  BY <1>1
<1>4. Element \subseteq Item(Shown)
  BY ScopesAssumption DEF Element, Item, ProperScopes, Shown
<1>5. ar \in Seq(Item(Shown))
  BY <1>1, <1>3, <1>4
<1>6. \A i \in 1 .. Len(ar) : ar[i].value \in Shown /\ ar[i].prev \in Nat
  BY <1>3 DEF Element, Shown
<1>7. \A i \in 1 .. Len(ar) : /\ ar[i].scope.end <= MaxStep /\ ar[i].scope \in Spans
                              /\ ar[i].scope.end \in Nat /\ ar[i].scope.end >= 1
  BY <1>1, ScopesAssumption DEF Spans
<1>8. MaxStep \in Nat /\ Root \in Spans
  BY MaxStepAssumption DEF Root, Spans
<1> HIDE DEF ar, ends
<1>9. Climbing(ar, Shown)
  BY <1>1, <1>2, <1>5, <1>6, <1>7, <1>8 DEF Climbing
<1>10. ListsEnd(ends, ar)
  BY <1>2, <1>7, <1>8 DEF ListsEnd
<1>11. QED
  BY <1>7, <1>8, <1>9, <1>10 DEF ar, ends

LEMMA TableBuilt ==
  ASSUME NEW table \in Table, Sound(table)
  PROVE  /\ IsBuilt(getTree(table), table.m_invtree, Spans, Shown)
         /\ Unique(table.m_invtree) =>
              \A e \in DOMAIN table.m_map : HasNode(getTree(table), table.m_invtree[table.m_map[e]])
<1>1. NullVal \in Shown
  BY DEF Shown
<1>2. QED
  BY <1>1, TableClimbs, GetTreeBuilds

(* It shows what is defined in the table.                                  *)
LEMMA TableShows ==
  ASSUME NEW table \in Table, Sound(table), NestedTable(table)
  PROVE  Shows(getTree(table), Contents(table.m_invtree, Own(table)))
<1> DEFINE ar == table.m_invtree
           ends == table.m_map
           b == getTree(table)
<1>1. Own(table) = 1 .. Len(ar)
  BY TableItems
<1>2. Linked(ar, 1 .. Len(ar)) /\ EndsLeadToInnermost(ar, ends, 1 .. Len(ar))
  BY <1>1, TableLinked
<1>3. Unique(ar)
  BY <1>2 DEF Linked, Unique
<1>4. Climbing(ar, Shown)
  BY TableClimbs
<1>5. PICK parent : Built(b, parent, ar, Spans, Shown)
  BY TableBuilt DEF IsBuilt
<1>6. Formed(b, parent, Spans, Shown) /\ Matches(b, parent, ar)
  BY <1>3, <1>5 DEF Built
<1>7. \A e \in DOMAIN ends : HasNode(b, ar[ends[e]])
  BY <1>3, TableBuilt
<1> HIDE DEF ar, ends, b
<1>8. \A i \in 1 .. Len(ar) : HasNode(b, ar[i])
  BY <1>2, <1>4, <1>6, <1>7, AllInTree
<1>9. Shows(b, Contents(ar, 1 .. Len(ar)))
  BY <1>2, <1>4, <1>6, <1>8, BuiltShows
<1>10. QED
  BY <1>1, <1>9 DEF ar, b

(* The first table is never given to a name: it is shown for the unknown.  *)
FirstEmpty == m_objAr[1] = EmptyTable

LEMMA FirstStaysEmpty ==
  /\ Init => FirstEmpty
  /\ IInv /\ FirstEmpty /\ [Next]_vars => FirstEmpty'
<1>1. ASSUME Init PROVE FirstEmpty
  BY <1>1 DEF Init, FirstEmpty
<1>2. ASSUME IInv, FirstEmpty, NEW name \in Names, NEW scope \in Scopes, NEW handle \in Handles,
             setObjectInstance(name, scope, handle)
      PROVE  FirstEmpty'
  <2>1. 1 \in DOMAIN m_objAr /\ 1 # TableOf(name) /\ 1 \in DOMAIN Tables(name)
    BY <1>2, TableOfName DEF IInv, NamesApart
  <2>2. m_objAr'[1] = Tables(name)[1]
    BY <1>2, <2>1, SetTables
  <2>3. Tables(name)[1] = m_objAr[1]
    BY <1>2, <2>1, TableOfName
  <2>4. QED
    BY <1>2, <2>2, <2>3 DEF FirstEmpty
<1>3. ASSUME IInv, FirstEmpty, NEW name \in Names, NEW scope \in Scopes, Refuse(name, scope)
      PROVE  FirstEmpty'
  BY <1>3, RefusedIsNamed DEF FirstEmpty
<1>4. ASSUME FirstEmpty, UNCHANGED vars PROVE FirstEmpty'
  BY <1>4 DEF FirstEmpty, vars
<1>5. QED
  BY <1>1, <1>2, <1>3, <1>4 DEF Next

LEMMA ShownTable ==
  ASSUME IInv, FirstEmpty, NEW name \in Names
  PROVE  getObjectInstanceTree(name) = getTree(Tables(name)[TableOf(name)])
<1>1. CASE name \in DOMAIN m_objidMap
  BY <1>1, TableOfName DEF getObjectInstanceTree
<1>2. CASE name \notin DOMAIN m_objidMap
  BY <1>2, TableOfName DEF getObjectInstanceTree, FirstEmpty
<1>3. QED
  BY <1>1, <1>2

(* For any number of names, scopes and instances: as long as the scopes of *)
(* a name nest, instance_tree has one node for each scope an instance is   *)
(* set for, with this instance, below the node of the smallest such scope  *)
(* around it, shows no instance of another name, and the depth first       *)
(* iterator passes every node once and ends.                               *)
THEOREM TreesAlwaysShow == Spec => []TreeShowsInstances
<1>1. ASSUME IInv, FirstEmpty PROVE TreeShowsInstances
  <2>1. ASSUME NEW name \in Names, Nested(name)
        PROVE  Shows(getObjectInstanceTree(name), Definitions[name])
    BY <1>1, <2>1, DefinitionsOf, ShownTable, TableShows
  <2>2. QED
    BY <2>1 DEF TreeShowsInstances
<1>2. (Init => IInv) /\ (IInv /\ [Next]_vars => IInv')
  BY Inductive
<1>3. (Init => FirstEmpty) /\ (IInv /\ FirstEmpty /\ [Next]_vars => FirstEmpty')
  BY FirstStaysEmpty
<1>4. QED
  BY <1>1, <1>2, <1>3, PTL DEF Spec

-----------------------------------------------------------------------------
(* The trees.  Lua on trees changes no instance: what holds of Spec holds  *)
(* of TreesSpec.                                                           *)
THEOREM TreesAreObjects == TreesSpec => Spec
<1>1. TreesInit => Init
  BY DEF TreesInit
<1>2. [TreesNext]_<<vars, treeVars>> => [Next]_vars
  BY DEF TreesNext, Define, instance_tree
<1>3. QED
  BY <1>1, <1>2, PTL DEF TreesSpec, Spec

(* The references that are counted: every userdata is of a tree that was   *)
(* made, and no closure holds a userdata that was collected.               *)
UsersOf(t) == {u \in DOMAIN userdata : userdata[u].tree = t}

TreesOK ==
  /\ Len(trees) \in Nat /\ DOMAIN trees = 1 .. Len(trees)
  /\ \A t \in DOMAIN trees : trees[t] = [tree |-> trees[t].tree, refcnt |-> trees[t].refcnt]
  /\ DOMAIN userdata \subseteq 1 .. MaxUserdata
  /\ \A u \in DOMAIN userdata :
       /\ userdata[u] = [tree |-> userdata[u].tree, nodeidx |-> userdata[u].nodeidx]
       /\ userdata[u].tree \in DOMAIN trees
  /\ TreesCounted

ClosuresHold == \A c \in DOMAIN closures : closures[c].ud \in DOMAIN userdata

LEMMA UsersFinite ==
  ASSUME DOMAIN userdata \subseteq 1 .. MaxUserdata, NEW t
  PROVE  IsFiniteSet(UsersOf(t)) /\ Cardinality(UsersOf(t)) \in Nat
<1>1. IsFiniteSet(1 .. MaxUserdata)
  BY TreeBoundsAssumption, FS_Interval
<1>2. UsersOf(t) \subseteq 1 .. MaxUserdata
  BY DEF UsersOf
<1>3. QED
  BY <1>1, <1>2, FS_Subset, FS_CardinalityType

(* The identifier of a new userdata or closure is free.                    *)
LEMMA NewIsFree ==
  ASSUME NEW ids, Free(ids) # {}
  PROVE  New(ids) \in 1 .. MaxUserdata /\ New(ids) \notin DOMAIN ids
<1>1. Free(ids) \in SUBSET Nat
  BY TreeBoundsAssumption DEF Free
<1>2. New(ids) \in Free(ids)
  BY <1>1, NatMin DEF New
<1>3. QED
  BY <1>2 DEF Free

(* A copy of a userdata counts for its tree and for no other.              *)
LEMMA CopyCounts ==
  ASSUME TreesOK, NEW ud, ud = [tree |-> ud.tree, nodeidx |-> ud.nodeidx], ud.tree \in DOMAIN trees,
         NEW nodeidx, createCopy(ud, nodeidx)
  PROVE  TreesOK' /\ DOMAIN userdata' = DOMAIN userdata \cup {New(userdata)}
<1> DEFINE new == New(userdata)
           copy == [ud EXCEPT !.nodeidx = nodeidx]
           k == ud.tree
           tree == trees[k].tree
           n == trees[k].refcnt
<1>1. new \in 1 .. MaxUserdata /\ new \notin DOMAIN userdata
  BY NewIsFree DEF createCopy
<1>2. copy = [tree |-> copy.tree, nodeidx |-> copy.nodeidx] /\ copy.tree = k
  <2>1. [ [tree |-> ud.tree, nodeidx |-> ud.nodeidx] EXCEPT !.nodeidx = nodeidx]
          = [tree |-> ud.tree, nodeidx |-> nodeidx]
    OBVIOUS
  <2>2. QED
    BY <2>1
<1>3. /\ DOMAIN userdata' = DOMAIN userdata \cup {new}
      /\ userdata'[new] = copy
      /\ \A u \in DOMAIN userdata : userdata'[u] = userdata[u]
  <2> HIDE DEF new, copy
  <2>1. userdata' = [u \in DOMAIN userdata \cup {new} |-> IF u = new THEN copy ELSE userdata[u]]
    BY DEF createCopy, With, new, copy
  <2>2. QED
    BY <1>1, <2>1
<1>4. \A t \in DOMAIN trees : IsFiniteSet(UsersOf(t)) /\ trees[t].refcnt = Cardinality(UsersOf(t))
                              /\ Cardinality(UsersOf(t)) \in Nat
  BY UsersFinite DEF TreesOK, TreesCounted, UsersOf
<1>5. /\ Len(trees') = Len(trees) /\ DOMAIN trees' = DOMAIN trees
      /\ trees'[k] = [tree |-> tree, refcnt |-> n + 1]
      /\ \A t \in DOMAIN trees : t # k => trees'[t] = trees[t]
  <2>1. trees' = [trees EXCEPT ![k] = [trees[k] EXCEPT !.refcnt = n + 1]]
    BY DEF createCopy
  <2>2. trees[k] = [tree |-> tree, refcnt |-> n]
    BY DEF TreesOK
  <2>3. [ [tree |-> tree, refcnt |-> n] EXCEPT !.refcnt = n + 1] = [tree |-> tree, refcnt |-> n + 1]
    OBVIOUS
  <2>4. trees' = [trees EXCEPT ![k] = [tree |-> tree, refcnt |-> n + 1]]
    BY <2>1, <2>2, <2>3
  <2>5. DOMAIN trees' = DOMAIN trees
    BY <2>4
  <2>6. Len(trees') = Len(trees)
    BY <2>5 DEF TreesOK
  <2>7. QED
    BY <2>4, <2>5, <2>6
<1>6. ASSUME NEW t \in DOMAIN trees
      PROVE  trees'[t].refcnt = Cardinality(UsersOf(t)')
  <2> DEFINE users == UsersOf(t)'
  <2>1. t = k => users = UsersOf(t) \cup {new}
    BY <1>2, <1>3 DEF UsersOf
  <2>2. t # k => users = UsersOf(t)
    BY <1>1, <1>2, <1>3 DEF UsersOf
  <2>3. new \notin UsersOf(t) /\ (t = k => n = trees[t].refcnt)
    BY <1>1 DEF UsersOf
  <2> HIDE DEF users, k, tree, n, new, copy
  <2>4. Cardinality(UsersOf(t) \cup {new}) = Cardinality(UsersOf(t)) + 1
    BY <1>4, <2>3, FS_AddElement
  <2>5. t = k => trees'[t].refcnt = Cardinality(users)
    <3>1. trees'[k].refcnt = n + 1
      BY <1>5
    <3>2. n = trees[t].refcnt /\ t = k => Cardinality(users) = n + 1
      BY <1>4, <2>1, <2>4
    <3>3. QED
      BY <2>3, <3>1, <3>2
  <2>6. t # k => trees'[t].refcnt = Cardinality(users)
    BY <1>4, <1>5, <2>2
  <2>7. trees'[t].refcnt = Cardinality(users)
    BY <2>5, <2>6
  <2>8. QED
    BY <2>7 DEF users
<1>7. \A t \in DOMAIN trees' : trees'[t] = [tree |-> trees'[t].tree, refcnt |-> trees'[t].refcnt]
  BY <1>5 DEF TreesOK
<1>8. \A u \in DOMAIN userdata' :
        /\ userdata'[u] = [tree |-> userdata'[u].tree, nodeidx |-> userdata'[u].nodeidx]
        /\ userdata'[u].tree \in DOMAIN trees'
  BY <1>2, <1>3, <1>5 DEF TreesOK
<1>9. DOMAIN userdata' \subseteq 1 .. MaxUserdata
  BY <1>1, <1>3 DEF TreesOK
<1>10. TreesCounted'
  BY <1>5, <1>6 DEF TreesCounted, UsersOf
<1>11. QED
  BY <1>3, <1>5, <1>7, <1>8, <1>9, <1>10 DEF TreesOK

LEMMA CollectCounts ==
  ASSUME TreesOK, NEW u \in DOMAIN userdata, gc(u)
  PROVE  TreesOK' /\ DOMAIN userdata' = DOMAIN userdata \ {u}
<1> DEFINE k == userdata[u].tree
           tree == trees[k].tree
           n == trees[k].refcnt
<1>1. k \in DOMAIN trees
  BY DEF TreesOK
<1>2. /\ DOMAIN userdata' = DOMAIN userdata \ {u}
      /\ \A v \in DOMAIN userdata' : userdata'[v] = userdata[v]
  BY DEF gc, Without
<1>3. \A t \in DOMAIN trees : IsFiniteSet(UsersOf(t)) /\ trees[t].refcnt = Cardinality(UsersOf(t))
                              /\ Cardinality(UsersOf(t)) \in Nat
  BY UsersFinite DEF TreesOK, TreesCounted, UsersOf
<1>4. /\ Len(trees') = Len(trees) /\ DOMAIN trees' = DOMAIN trees
      /\ trees'[k] = [tree |-> tree, refcnt |-> n - 1]
      /\ \A t \in DOMAIN trees : t # k => trees'[t] = trees[t]
  <2>1. trees' = [trees EXCEPT ![k] = [trees[k] EXCEPT !.refcnt = n - 1]]
    BY DEF gc, reset
  <2>2. trees[k] = [tree |-> tree, refcnt |-> n]
    BY <1>1 DEF TreesOK
  <2>3. [ [tree |-> tree, refcnt |-> n] EXCEPT !.refcnt = n - 1] = [tree |-> tree, refcnt |-> n - 1]
    OBVIOUS
  <2>4. trees' = [trees EXCEPT ![k] = [tree |-> tree, refcnt |-> n - 1]]
    BY <2>1, <2>2, <2>3
  <2>5. DOMAIN trees' = DOMAIN trees
    BY <2>4
  <2>6. Len(trees') = Len(trees)
    BY <2>5 DEF TreesOK
  <2>7. QED
    BY <1>1, <2>4, <2>5, <2>6
<1>5. ASSUME NEW t \in DOMAIN trees
      PROVE  trees'[t].refcnt = Cardinality(UsersOf(t)')
  <2> DEFINE users == UsersOf(t)'
  <2>1. t = k => users = UsersOf(t) \ {u} /\ u \in UsersOf(t) /\ n = trees[t].refcnt
    BY <1>2 DEF UsersOf
  <2>2. t # k => users = UsersOf(t)
    BY <1>2 DEF UsersOf
  <2> HIDE DEF users, k, tree, n
  <2>3. u \in UsersOf(t) => Cardinality(UsersOf(t) \ {u}) = Cardinality(UsersOf(t)) - 1
    BY <1>3, FS_RemoveElement
  <2>4. t = k => trees'[t].refcnt = Cardinality(users)
    <3>1. trees'[k].refcnt = n - 1
      BY <1>4
    <3>2. n = trees[t].refcnt /\ t = k => Cardinality(users) = n - 1
      BY <1>3, <2>1, <2>3
    <3>3. QED
      BY <2>1, <3>1, <3>2
  <2>5. t # k => trees'[t].refcnt = Cardinality(users)
    BY <1>3, <1>4, <2>2
  <2>6. trees'[t].refcnt = Cardinality(users)
    BY <2>4, <2>5
  <2>7. QED
    BY <2>6 DEF users
<1>6. \A t \in DOMAIN trees' : trees'[t] = [tree |-> trees'[t].tree, refcnt |-> trees'[t].refcnt]
  BY <1>4 DEF TreesOK
<1>7. TreesCounted'
  BY <1>4, <1>5 DEF TreesCounted, UsersOf
<1>8. \A v \in DOMAIN userdata' :
        /\ userdata'[v] = [tree |-> userdata'[v].tree, nodeidx |-> userdata'[v].nodeidx]
        /\ userdata'[v].tree \in DOMAIN trees'
  BY <1>2, <1>4 DEF TreesOK
<1>9. QED
  BY <1>2, <1>4, <1>6, <1>7, <1>8 DEF TreesOK

LEMMA TreesStart == TreesInit => TreesOK /\ ClosuresHold
<1> SUFFICES ASSUME TreesInit PROVE TreesOK /\ ClosuresHold
  OBVIOUS
<1>1. trees = <<>> /\ DOMAIN userdata = {} /\ DOMAIN closures = {}
  BY DEF TreesInit
<1>2. DOMAIN trees = {} /\ Len(trees) = 0
  BY <1>1
<1>3. QED
  BY <1>1, <1>2 DEF TreesOK, ClosuresHold, TreesCounted

(* The first node of the tree that is made is its only reference.          *)
LEMMA TreeMade ==
  ASSUME TreesOK, ClosuresHold, NEW name \in Names, instance_tree(name)
  PROVE  (TreesOK /\ ClosuresHold)'
<1> DEFINE new == New(userdata)
           made == [tree |-> getObjectInstanceTree(name).tree, refcnt |-> 1]
           node == [tree |-> 1, nodeidx |-> 1]
<1>1. trees = <<>> /\ Len(trees) = 0 /\ DOMAIN trees = {}
  BY DEF instance_tree
<1>2. DOMAIN userdata = {} /\ DOMAIN closures = {}
  BY <1>1 DEF TreesOK, ClosuresHold
<1>3. new \in 1 .. MaxUserdata
  BY NewIsFree DEF instance_tree
<1>4. trees' = <<made>> /\ closures' = closures
  BY <1>1 DEF instance_tree
<1>5. DOMAIN userdata' = {new} /\ userdata'[new] = node
  BY <1>1, <1>2 DEF instance_tree, With
<1>6. /\ made.refcnt = 1 /\ made = [tree |-> made.tree, refcnt |-> made.refcnt]
      /\ node.tree = 1 /\ node = [tree |-> node.tree, nodeidx |-> node.nodeidx]
  OBVIOUS
<1> HIDE DEF new, made, node
<1>7. Len(trees') = 1 /\ DOMAIN trees' = {1} /\ trees'[1] = made
  BY <1>4
<1>8. UsersOf(1)' = {new}
  BY <1>5, <1>6 DEF UsersOf
<1>9. Cardinality({new}) = 1
  BY FS_Singleton
<1>10. TreesCounted'
  BY <1>6, <1>7, <1>8, <1>9 DEF TreesCounted, UsersOf
<1>11. DOMAIN userdata' \subseteq 1 .. MaxUserdata
  BY <1>3, <1>5
<1>12. QED
  BY <1>2, <1>4, <1>5, <1>6, <1>7, <1>10, <1>11 DEF TreesOK, ClosuresHold

LEMMA ClosureAdded ==
  ASSUME NEW ud, NEW iter, NEW u, AddClosure(ud, iter, u), ClosuresHold,
         DOMAIN userdata \subseteq DOMAIN userdata', ud \in DOMAIN userdata'
  PROVE  ClosuresHold'
<1> DEFINE new == New(closures)
           closure == [ud |-> ud, iter |-> iter, parent |-> userdata[u], returned |-> {}, again |-> FALSE]
<1>1. closures' = [c \in DOMAIN closures \cup {new} |-> IF c = new THEN closure ELSE closures[c]]
  BY DEF AddClosure, With
<1>2. closure.ud = ud
  OBVIOUS
<1> HIDE DEF new, closure
<1>3. QED
  BY <1>1, <1>2 DEF ClosuresHold

(* Lua on trees keeps the counters right.                                  *)
LEMMA TreesInductive ==
  ASSUME TreesOK, ClosuresHold, [TreesNext]_<<vars, treeVars>>
  PROVE  (TreesOK /\ ClosuresHold)'
<1>1. CASE UNCHANGED treeVars
  BY <1>1 DEF treeVars, TreesOK, TreesCounted, ClosuresHold
<1>2. ASSUME NEW name \in Names, instance_tree(name)
      PROVE  (TreesOK /\ ClosuresHold)'
  BY <1>2, TreeMade
<1>3. \A u \in DOMAIN userdata :
        userdata[u] = [tree |-> userdata[u].tree, nodeidx |-> userdata[u].nodeidx]
        /\ userdata[u].tree \in DOMAIN trees
  BY DEF TreesOK
<1>4. ASSUME NEW u \in DOMAIN userdata, chld(u)
      PROVE  (TreesOK /\ ClosuresHold)'
  <2> DEFINE first_chld == NodeOf(userdata[u]).chld
  <2>1. CASE first_chld = NoNode
    <3>1. AddClosure(u, NoNode, u) /\ UNCHANGED <<trees, userdata>>
      BY <1>4, <2>1 DEF chld
    <3>2. ClosuresHold'
      BY <3>1, ClosureAdded
    <3>3. QED
      BY <3>1, <3>2 DEF TreesOK, TreesCounted
  <2>2. CASE first_chld # NoNode
    <3>1. createCopy(userdata[u], first_chld) /\ AddClosure(New(userdata), first_chld, u)
      BY <1>4, <2>2 DEF chld
    <3> HIDE DEF first_chld
    <3>2. TreesOK' /\ DOMAIN userdata' = DOMAIN userdata \cup {New(userdata)}
      BY <1>3, <3>1, CopyCounts
    <3>3. QED
      BY <3>1, <3>2, ClosureAdded
  <2>3. QED
    BY <2>1, <2>2
<1>5. ASSUME NEW u \in DOMAIN userdata, gc(u)
      PROVE  (TreesOK /\ ClosuresHold)'
  <2>1. TreesOK' /\ DOMAIN userdata' = DOMAIN userdata \ {u}
    BY <1>5, CollectCounts
  <2>2. closures' = closures /\ \A c \in DOMAIN closures : closures[c].ud # u
    BY <1>5 DEF gc
  <2>3. QED
    BY <2>1, <2>2 DEF ClosuresHold
<1>6. ASSUME NEW c \in DOMAIN closures, chld_iter(c)
      PROVE  (TreesOK /\ ClosuresHold)'
  <2> DEFINE ud == userdata[closures[c].ud]
             iter == closures[c].iter
  <2>1. createCopy(ud, iter)
    BY <1>6 DEF chld_iter
  <2>2. closures[c].ud \in DOMAIN userdata
    BY DEF ClosuresHold
  <2>3. TreesOK' /\ DOMAIN userdata' = DOMAIN userdata \cup {New(userdata)}
    <3> HIDE DEF iter
    <3>1. ud = [tree |-> ud.tree, nodeidx |-> ud.nodeidx] /\ ud.tree \in DOMAIN trees
      BY <1>3, <2>2
    <3>2. QED
      BY <2>1, <3>1, CopyCounts
  <2>4. /\ DOMAIN closures' = DOMAIN closures
        /\ \A d \in DOMAIN closures : closures'[d].ud = closures[d].ud
    BY <1>6 DEF chld_iter
  <2>5. QED
    BY <2>3, <2>4 DEF ClosuresHold
<1>7. ASSUME NEW c \in DOMAIN closures, DropClosure(c)
      PROVE  (TreesOK /\ ClosuresHold)'
  BY <1>7 DEF DropClosure, Without, TreesOK, TreesCounted, ClosuresHold
<1>8. CASE UNCHANGED <<vars, treeVars>>
  BY <1>1, <1>8
<1>9. QED
  BY <1>1, <1>2, <1>4, <1>5, <1>6, <1>7, <1>8 DEF TreesNext, Define

(* A tree is freed with the last userdata of it that Lua or an iterator    *)
(* holds: a copy of a userdata is counted, each that is collected gives    *)
(* its reference back once.                                                *)
THEOREM TreesAlwaysCounted == TreesSpec => []TreesCounted
<1>1. TreesInit => TreesOK /\ ClosuresHold
  BY TreesStart
<1>2. TreesOK /\ ClosuresHold /\ [TreesNext]_<<vars, treeVars>> => (TreesOK /\ ClosuresHold)'
  BY TreesInductive
<1>3. TreesOK => TreesCounted
  BY DEF TreesOK
<1>4. QED
  BY <1>1, <1>2, <1>3, PTL DEF TreesSpec

-----------------------------------------------------------------------------
(* What an iterator relies on: the links of the trees Lua has lead from a  *)
(* node to its children and from one child to the next.                    *)
ChildrenOf(tree, p) == Range(Children(tree, p))

(* Of the list of the children only the first one has no other before it,  *)
(* and only the second one is the next of the first.                       *)
ListStarts(list, first_, second) ==
  /\ Len(list) \in Nat /\ list # <<>> => list[1] = first_
  /\ \A n \in 2 .. Len(list) : list[n] # first_ /\ (list[n] = second => n = 2)

ChildrenLinked(tree) ==
  /\ Size(tree) \in Nat /\ Size(tree) >= 1
  /\ \A p \in 1 .. Size(tree) :
       /\ ChildrenOf(tree, p) \subseteq 1 .. Size(tree)
       /\ tree.ar[p].chld # NoNode => tree.ar[p].chld \in ChildrenOf(tree, p)
       /\ \A i \in ChildrenOf(tree, p) : tree.ar[i].next # NoNode => tree.ar[i].next \in ChildrenOf(tree, p)
       /\ ListStarts(Children(tree, p), tree.ar[p].chld, tree.ar[tree.ar[p].chld].next)

LEMMA ShapeLinksChildren ==
  ASSUME NEW tree, NEW parent, Shape(tree, parent)
  PROVE  ChildrenLinked(tree)
<1>1. /\ Size(tree) \in Nat /\ Size(tree) >= 1 /\ parent \in [2 .. Size(tree) -> 1 .. Size(tree)]
      /\ \A p \in 1 .. Size(tree) : IsLeast(Kids(parent, p), tree.ar[p].chld)
  BY DEF Shape
<1>2. ASSUME NEW p \in 1 .. Size(tree)
      PROVE  ChildrenOf(tree, p) = Kids(parent, p)
  <2>1. IsListOf(Children(tree, p), Kids(parent, p))
    BY ChildrenAreKids
  <2>2. QED
    BY <2>1 DEF IsListOf, ChildrenOf, Range
<1>3. ASSUME NEW p \in 1 .. Size(tree)
      PROVE  /\ ChildrenOf(tree, p) \subseteq 1 .. Size(tree)
             /\ tree.ar[p].chld # NoNode => tree.ar[p].chld \in ChildrenOf(tree, p)
  BY <1>1, <1>2 DEF Kids, IsLeast
<1>4. ASSUME NEW p \in 1 .. Size(tree), NEW i \in ChildrenOf(tree, p), tree.ar[i].next # NoNode
      PROVE  tree.ar[i].next \in ChildrenOf(tree, p)
  <2>1. i \in 1 .. Size(tree) /\ parent[i] = p
    BY <1>2, <1>3 DEF Kids
  <2>2. tree.ar[i].next \in 2 .. Size(tree) /\ parent[tree.ar[i].next] = p
    BY <1>4, <2>1, NextIsYounger
  <2>3. QED
    BY <1>1, <1>2, <2>2 DEF Kids
<1>5. ASSUME NEW p \in 1 .. Size(tree)
      PROVE  ListStarts(Children(tree, p), tree.ar[p].chld, tree.ar[tree.ar[p].chld].next)
  <2> DEFINE list == Children(tree, p)
             first_ == tree.ar[p].chld
             second == tree.ar[first_].next
  <2>1. IsListOf(list, Kids(parent, p)) /\ Kids(parent, p) \subseteq Nat
    BY <1>1, ChildrenAreKids DEF Kids
  <2>2. Len(list) \in Nat /\ \A i, j \in 1 .. Len(list) : i < j => list[i] < list[j]
    BY <2>1, ListAscends DEF IsListOf
  <2>3. \A i \in 1 .. Len(list) : list[i] \in Nat
    BY <2>1 DEF IsListOf
  <2>4. CASE first_ = NoNode
    <3>1. list = <<>>
      BY <2>4, SiblingsFollow DEF Children
    <3>2. QED
      BY <3>1 DEF ListStarts
  <2>5. CASE first_ # NoNode
    <3>1. first_ \in 1 .. Size(tree)
      BY <1>1, <2>5 DEF IsLeast, Kids
    <3>2. Follows(list, first_, Size(tree), NextLink(tree))
      BY <3>1, SiblingsFollow DEF Children
    <3> HIDE DEF list, first_
    <3>3. /\ list[1] = first_ /\ Len(list) >= 1
          /\ Len(list) >= 2 => list[2] = second
      <4>1. list[1] = first_ /\ \A k \in 1 .. Len(list) - 1 : list[k + 1] = NextLink(tree)[list[k]]
        BY <3>2 DEF Follows
      <4>2. NextLink(tree)[first_] = second
        BY <3>1 DEF NextLink
      <4>3. ASSUME Len(list) >= 2 PROVE list[2] = second
        <5>1. 1 \in 1 .. Len(list) - 1 /\ 1 + 1 = 2
          BY <2>2, <4>3
        <5>2. QED
          BY <4>1, <4>2, <5>1
      <4>4. QED
        BY <3>2, <4>1, <4>3 DEF Follows
    <3> HIDE DEF second
    <3>4. ASSUME NEW n \in 2 .. Len(list) PROVE list[n] # first_ /\ (list[n] = second => n = 2)
      <4>1. /\ 1 \in 1 .. Len(list) /\ 2 \in 1 .. Len(list) /\ n \in 1 .. Len(list)
            /\ Len(list) >= 2 /\ 1 < n /\ (n # 2 => 2 < n)
        BY <2>2
      <4>2. list[1] < list[n] /\ (n # 2 => list[2] < list[n])
        BY <2>2, <4>1
      <4>3. QED
        BY <2>3, <3>3, <4>1, <4>2
    <3>5. QED
      BY <2>2, <3>3, <3>4 DEF ListStarts, first_, second, list
  <2>6. QED
    BY <2>4, <2>5
<1>6. QED
  BY <1>1, <1>3, <1>4, <1>5 DEF ChildrenLinked

LEMMA ShownLinksChildren ==
  ASSUME IInv, NEW name \in Names
  PROVE  ChildrenLinked(getObjectInstanceTree(name).tree)
<1> DEFINE i == IF name \in DOMAIN m_objidMap THEN m_objidMap[name] ELSE 1
           table == m_objAr[i]
           b == getTree(table)
<1>1. i \in DOMAIN m_objAr
  BY DEF IInv, NamesApart
<1>2. table \in Table /\ Sound(table)
  BY <1>1 DEF IInv, NamesApart
<1>3. getObjectInstanceTree(name) = b
  BY DEF getObjectInstanceTree
<1>4. PICK parent : Built(b, parent, table.m_invtree, Spans, Shown)
  BY <1>2, TableBuilt DEF IsBuilt
<1>5. Shape(b.tree, parent)
  BY <1>4 DEF Built, Formed
<1>6. QED
  BY <1>3, <1>5, ShapeLinksChildren

-----------------------------------------------------------------------------
(* The trees of the userdata, without their counters.                      *)
Forest == [t \in DOMAIN trees |-> trees[t].tree]

OnNode(forest, ud) ==
  /\ ud = [tree |-> ud.tree, nodeidx |-> ud.nodeidx]
  /\ ud.tree \in DOMAIN forest /\ ud.nodeidx \in 1 .. Size(forest[ud.tree])

ChildNodes(forest, ud) == ChildrenOf(forest[ud.tree], ud.nodeidx)

FirstOf(forest, ud) == forest[ud.tree].ar[ud.nodeidx].chld

SecondOf(forest, ud) == forest[ud.tree].ar[FirstOf(forest, ud)].next

(* A closure that goes on holds a userdata of the first child: it returns  *)
(* this one and then, for ever, the next of it.                            *)
OnChildren(forest, closure, node) ==
  /\ closure = [ud |-> closure.ud, iter |-> closure.iter, parent |-> closure.parent,
                returned |-> closure.returned, again |-> closure.again]
  /\ OnNode(forest, closure.parent) /\ node.tree = closure.parent.tree
  /\ closure.returned \subseteq ChildNodes(forest, closure.parent)
  /\ closure.iter # NoNode =>
       /\ {closure.iter, node.nodeidx} \subseteq ChildNodes(forest, closure.parent)
       /\ node.nodeidx = FirstOf(forest, closure.parent)
  /\ closure.returned \subseteq {FirstOf(forest, closure.parent), SecondOf(forest, closure.parent)}
  /\ \/ closure.returned = {} /\ closure.iter = FirstOf(forest, closure.parent)
     \/ /\ FirstOf(forest, closure.parent) \in closure.returned
        /\ closure.iter = SecondOf(forest, closure.parent)

IteratorsHold ==
  /\ \A t \in DOMAIN Forest : ChildrenLinked(Forest[t])
  /\ \A u \in DOMAIN userdata : OnNode(Forest, userdata[u])
  /\ \A c \in DOMAIN closures : OnChildren(Forest, closures[c], userdata[closures[c].ud])

LEMMA IteratorsStart == TreesInit => IteratorsHold
<1> SUFFICES ASSUME TreesInit PROVE IteratorsHold
  OBVIOUS
<1>1. trees = <<>> /\ DOMAIN userdata = {} /\ DOMAIN closures = {}
  BY DEF TreesInit
<1>2. DOMAIN Forest = {}
  BY <1>1 DEF Forest
<1>3. QED
  BY <1>1, <1>2 DEF IteratorsHold

LEMMA CopyOfNode ==
  ASSUME TreesOK, NEW ud, OnNode(Forest, ud), NEW nodeidx, createCopy(ud, nodeidx)
  PROVE  /\ Forest' = Forest
         /\ DOMAIN userdata' = DOMAIN userdata \cup {New(userdata)} /\ New(userdata) \notin DOMAIN userdata
         /\ \A u \in DOMAIN userdata : userdata'[u] = userdata[u]
         /\ userdata'[New(userdata)] = [tree |-> ud.tree, nodeidx |-> nodeidx]
<1> DEFINE new == New(userdata)
           copy == [ud EXCEPT !.nodeidx = nodeidx]
           k == ud.tree
<1>1. new \notin DOMAIN userdata
  BY NewIsFree DEF createCopy
<1>2. ud = [tree |-> ud.tree, nodeidx |-> ud.nodeidx] /\ k \in DOMAIN trees
  BY DEF OnNode, Forest
<1>3. copy = [tree |-> k, nodeidx |-> nodeidx]
  <2>1. [ [tree |-> ud.tree, nodeidx |-> ud.nodeidx] EXCEPT !.nodeidx = nodeidx]
          = [tree |-> ud.tree, nodeidx |-> nodeidx]
    OBVIOUS
  <2>2. QED
    BY <1>2, <2>1
<1>4. userdata' = [n \in DOMAIN userdata \cup {new} |-> IF n = new THEN copy ELSE userdata[n]]
  BY DEF createCopy, With
<1>5. /\ DOMAIN userdata' = DOMAIN userdata \cup {new} /\ userdata'[new] = copy
      /\ \A u \in DOMAIN userdata : userdata'[u] = userdata[u]
  <2> HIDE DEF new, copy
  <2>1. QED
    BY <1>1, <1>4
<1>6. Forest' = Forest
  <2> DEFINE more == [trees[k] EXCEPT !.refcnt = trees[k].refcnt + 1]
  <2>1. trees' = [trees EXCEPT ![k] = more]
    BY DEF createCopy
  <2>2. trees[k] = [tree |-> trees[k].tree, refcnt |-> trees[k].refcnt]
    BY <1>2 DEF TreesOK
  <2>3. [ [tree |-> trees[k].tree, refcnt |-> trees[k].refcnt] EXCEPT !.refcnt = trees[k].refcnt + 1].tree
          = trees[k].tree
    OBVIOUS
  <2>4. more.tree = trees[k].tree
    BY <2>2, <2>3
  <2> HIDE DEF more
  <2>5. DOMAIN trees' = DOMAIN trees /\ \A t \in DOMAIN trees : trees'[t].tree = trees[t].tree
    BY <1>2, <2>1, <2>4
  <2>6. QED
    BY <2>5 DEF Forest
<1>7. QED
  BY <1>1, <1>3, <1>5, <1>6

LEMMA IteratorAdded ==
  ASSUME NEW ud, NEW iter, NEW u, AddClosure(ud, iter, u)
  PROVE  LET closure == [ud |-> ud, iter |-> iter, parent |-> userdata[u], returned |-> {}, again |-> FALSE]
         IN  /\ DOMAIN closures' = DOMAIN closures \cup {New(closures)} /\ New(closures) \notin DOMAIN closures
             /\ \A c \in DOMAIN closures : closures'[c] = closures[c]
             /\ closures'[New(closures)] = closure
<1> DEFINE new == New(closures)
           closure == [ud |-> ud, iter |-> iter, parent |-> userdata[u], returned |-> {}, again |-> FALSE]
<1>1. closures' = [c \in DOMAIN closures \cup {new} |-> IF c = new THEN closure ELSE closures[c]]
  BY DEF AddClosure, With
<1>2. new \notin DOMAIN closures
  BY NewIsFree DEF AddClosure
<1> HIDE DEF new, closure
<1>3. /\ DOMAIN closures' = DOMAIN closures \cup {new}
      /\ \A c \in DOMAIN closures : closures'[c] = closures[c]
      /\ closures'[new] = closure
  BY <1>1, <1>2
<1>4. QED
  BY <1>2, <1>3 DEF new, closure

(* The first iterators are of the first tree.                              *)
LEMMA MadeHolds ==
  ASSUME IInv, TreesOK, ClosuresHold, NEW name \in Names, instance_tree(name)
  PROVE  IteratorsHold'
<1> DEFINE new == New(userdata)
           tree == getObjectInstanceTree(name).tree
           made == [tree |-> tree, refcnt |-> 1]
           node == [tree |-> 1, nodeidx |-> 1]
<1>1. trees = <<>> /\ Len(trees) = 0 /\ DOMAIN trees = {}
  BY DEF instance_tree
<1>2. DOMAIN userdata = {} /\ DOMAIN closures = {}
  BY <1>1 DEF TreesOK, ClosuresHold
<1>3. trees' = <<made>> /\ closures' = closures
  BY <1>1 DEF instance_tree
<1>4. DOMAIN userdata' = {new} /\ userdata'[new] = node
  BY <1>1, <1>2 DEF instance_tree, With
<1>5. ChildrenLinked(tree)
  BY ShownLinksChildren
<1>6. made.tree = tree /\ node.tree = 1 /\ node.nodeidx = 1 /\ node = [tree |-> node.tree, nodeidx |-> node.nodeidx]
  OBVIOUS
<1> HIDE DEF new, tree, made, node
<1>7. DOMAIN trees' = {1} /\ trees'[1] = made
  BY <1>3
<1>8. DOMAIN Forest' = {1} /\ Forest'[1] = tree
  BY <1>6, <1>7 DEF Forest
<1>9. 1 \in 1 .. Size(tree)
  BY <1>5 DEF ChildrenLinked
<1>10. OnNode(Forest', node)
  BY <1>6, <1>8, <1>9 DEF OnNode
<1>11. QED
  BY <1>2, <1>3, <1>4, <1>5, <1>8, <1>10 DEF IteratorsHold

LEMMA ChldHolds ==
  ASSUME TreesOK, ClosuresHold, IteratorsHold, NEW u \in DOMAIN userdata, chld(u)
  PROVE  IteratorsHold'
<1> DEFINE ud == userdata[u]
           first_chld == NodeOf(ud).chld
           new == New(closures)
<1>1. /\ \A t \in DOMAIN Forest : ChildrenLinked(Forest[t])
      /\ \A v \in DOMAIN userdata : OnNode(Forest, userdata[v])
      /\ \A c \in DOMAIN closures : /\ closures[c].ud \in DOMAIN userdata
                                    /\ OnChildren(Forest, closures[c], userdata[closures[c].ud])
  BY DEF IteratorsHold, ClosuresHold
<1>2. OnNode(Forest, ud) /\ Forest[ud.tree] = trees[ud.tree].tree
  BY <1>1 DEF OnNode, Forest
<1>3. /\ first_chld = FirstOf(Forest, ud)
      /\ first_chld # NoNode => /\ first_chld \in ChildNodes(Forest, ud)
                                /\ first_chld \in 1 .. Size(Forest[ud.tree])
  <2>1. ChildrenLinked(Forest[ud.tree]) /\ ud.nodeidx \in 1 .. Size(Forest[ud.tree])
    BY <1>1, <1>2 DEF OnNode
  <2>2. first_chld = Forest[ud.tree].ar[ud.nodeidx].chld
    BY <1>2 DEF NodeOf, Nodes
  <2>3. QED
    BY <2>1, <2>2 DEF ChildrenLinked, ChildNodes, FirstOf
<1> HIDE DEF first_chld
<1>4. CASE first_chld = NoNode
  <2>1. AddClosure(u, NoNode, u) /\ UNCHANGED <<trees, userdata>>
    BY <1>4 DEF chld, first_chld
  <2> DEFINE closure == [ud |-> u, iter |-> NoNode, parent |-> ud, returned |-> {}, again |-> FALSE]
  <2>2. /\ DOMAIN closures' = DOMAIN closures \cup {new}
        /\ \A c \in DOMAIN closures : closures'[c] = closures[c]
        /\ closures'[new] = closure
    BY <2>1, IteratorAdded
  <2>3. OnChildren(Forest, closure, userdata[u]) /\ closure.ud = u
    BY <1>2, <1>3, <1>4 DEF OnChildren
  <2>4. Forest' = Forest /\ userdata' = userdata
    BY <2>1 DEF Forest
  <2> HIDE DEF closure, ud, new
  <2>5. \A c \in DOMAIN closures' : OnChildren(Forest, closures'[c], userdata[closures'[c].ud])
    BY <1>1, <2>2, <2>3
  <2>6. QED
    BY <1>1, <2>4, <2>5 DEF IteratorsHold
<1>5. CASE first_chld # NoNode
  <2> DEFINE id == New(userdata)
             closure == [ud |-> id, iter |-> first_chld, parent |-> ud, returned |-> {}, again |-> FALSE]
             node == [tree |-> ud.tree, nodeidx |-> first_chld]
  <2>1. createCopy(ud, first_chld) /\ AddClosure(id, first_chld, u)
    BY <1>5 DEF chld, first_chld
  <2>2. /\ Forest' = Forest
        /\ DOMAIN userdata' = DOMAIN userdata \cup {id} /\ id \notin DOMAIN userdata
        /\ \A v \in DOMAIN userdata : userdata'[v] = userdata[v]
        /\ userdata'[id] = node
    BY <1>2, <2>1, CopyOfNode
  <2>3. /\ DOMAIN closures' = DOMAIN closures \cup {new}
        /\ \A c \in DOMAIN closures : closures'[c] = closures[c]
        /\ closures'[new] = closure
    BY <2>1, IteratorAdded
  <2>4. node.tree = ud.tree /\ node.nodeidx = first_chld /\ node = [tree |-> node.tree, nodeidx |-> node.nodeidx]
    OBVIOUS
  <2>5. OnNode(Forest, node)
    BY <1>2, <1>3, <1>5, <2>4 DEF OnNode
  <2>6. OnChildren(Forest, closure, node) /\ closure.ud = id
    BY <1>2, <1>3, <1>5, <2>4 DEF OnChildren
  <2> HIDE DEF closure, ud, new, id, node
  <2>7. \A c \in DOMAIN closures' : OnChildren(Forest, closures'[c], userdata'[closures'[c].ud])
    BY <1>1, <2>2, <2>3, <2>6
  <2>8. \A v \in DOMAIN userdata' : OnNode(Forest, userdata'[v])
    BY <1>1, <2>2, <2>5
  <2>9. QED
    BY <1>1, <2>2, <2>7, <2>8 DEF IteratorsHold
<1>6. QED
  BY <1>4, <1>5

Moved(closure, iter, returned, again) ==
  [closure EXCEPT !.iter = iter, !.returned = returned, !.again = again]

LEMMA IteratorMoved ==
  ASSUME NEW closure, NEW iter, NEW returned, NEW again,
         closure = [ud |-> closure.ud, iter |-> closure.iter, parent |-> closure.parent,
                    returned |-> closure.returned, again |-> closure.again]
  PROVE  Moved(closure, iter, returned, again)
           = [ud |-> closure.ud, iter |-> iter, parent |-> closure.parent, returned |-> returned, again |-> again]
<1> DEFINE u == closure.ud
           p == closure.parent
           new == Moved(closure, iter, returned, again)
<1>1. DOMAIN closure = {"ud", "iter", "parent", "returned", "again"}
  BY DEF Moved
<1>2. DOMAIN new = DOMAIN closure /\ new = [field \in DOMAIN new |-> new[field]]
  BY DEF Moved
<1>3. new.ud = u /\ new.parent = p
  BY <1>1 DEF Moved
<1>4. new.iter = iter
  BY <1>1 DEF Moved
<1>5. new.returned = returned
  BY <1>1 DEF Moved
<1>6. new.again = again
  BY <1>1 DEF Moved
<1> HIDE DEF new
<1>7. new = [ud |-> u, iter |-> iter, parent |-> p, returned |-> returned, again |-> again]
  BY <1>1, <1>2, <1>3, <1>4, <1>5, <1>6
<1>8. QED
  BY <1>7 DEF new

(* The index of the next child is read from the userdata the closure has.  *)
LEMMA ChldIterHolds ==
  ASSUME TreesOK, ClosuresHold, IteratorsHold, NEW c \in DOMAIN closures, chld_iter(c)
  PROVE  IteratorsHold'
<1> DEFINE closure == closures[c]
           ud == userdata[closure.ud]
           iter == closure.iter
           id == New(userdata)
           next == NodeOf(ud).next
           new == [ud |-> closure.ud, iter |-> next, parent |-> closure.parent,
                   returned |-> closure.returned \cup {iter}, again |-> closure.again \/ iter \in closure.returned]
           node == [tree |-> ud.tree, nodeidx |-> iter]
<1>1. /\ \A t \in DOMAIN Forest : ChildrenLinked(Forest[t])
      /\ \A v \in DOMAIN userdata : OnNode(Forest, userdata[v])
      /\ \A d \in DOMAIN closures : /\ closures[d].ud \in DOMAIN userdata
                                    /\ OnChildren(Forest, closures[d], userdata[closures[d].ud])
  BY DEF IteratorsHold, ClosuresHold
<1>2. /\ OnNode(Forest, ud) /\ OnChildren(Forest, closure, ud) /\ Forest[ud.tree] = trees[ud.tree].tree
      /\ closure.ud \in DOMAIN userdata
  BY <1>1 DEF OnNode, Forest
<1>3. iter # NoNode /\ createCopy(ud, iter)
  BY DEF chld_iter
<1>4. /\ closure = [ud |-> closure.ud, iter |-> closure.iter, parent |-> closure.parent,
                    returned |-> closure.returned, again |-> closure.again]
      /\ OnNode(Forest, closure.parent) /\ ud.tree = closure.parent.tree
      /\ closure.returned \subseteq ChildNodes(Forest, closure.parent)
      /\ iter \in ChildNodes(Forest, closure.parent)
      /\ ud.nodeidx \in ChildNodes(Forest, closure.parent)
      /\ ud.nodeidx = FirstOf(Forest, closure.parent)
      /\ closure.returned \cup {iter} \subseteq {FirstOf(Forest, closure.parent), SecondOf(Forest, closure.parent)}
      /\ FirstOf(Forest, closure.parent) \in closure.returned \cup {iter}
  BY <1>2, <1>3 DEF OnChildren
<1>5. /\ next = SecondOf(Forest, closure.parent)
      /\ iter \in 1 .. Size(Forest[ud.tree])
      /\ next # NoNode => next \in ChildNodes(Forest, closure.parent)
  <2>1. ChildrenLinked(Forest[ud.tree]) /\ closure.parent.nodeidx \in 1 .. Size(Forest[ud.tree])
    BY <1>1, <1>4 DEF OnNode
  <2>2. next = Forest[ud.tree].ar[ud.nodeidx].next
    BY <1>2 DEF NodeOf, Nodes
  <2>3. next = SecondOf(Forest, closure.parent)
    BY <1>4, <2>2 DEF SecondOf
  <2>4. QED
    BY <1>4, <2>1, <2>2, <2>3 DEF ChildrenLinked, ChildNodes
<1>6. /\ Forest' = Forest
      /\ DOMAIN userdata' = DOMAIN userdata \cup {id} /\ id \notin DOMAIN userdata
      /\ \A v \in DOMAIN userdata : userdata'[v] = userdata[v]
      /\ userdata'[id] = node
  <2> HIDE DEF ud, iter, next
  <2>1. QED
    BY <1>2, <1>3, CopyOfNode
<1>7. /\ DOMAIN closures' = DOMAIN closures /\ closures'[c] = new
      /\ \A d \in DOMAIN closures : d # c => closures'[d] = closures[d]
  <2> DEFINE returned == closure.returned \cup {iter}
             again == closure.again \/ iter \in closure.returned
  <2>1. closures' = [closures EXCEPT ![c] = Moved(closure, next, returned, again)]
    BY DEF chld_iter, Moved
  <2>2. new = [ud |-> closure.ud, iter |-> next, parent |-> closure.parent, returned |-> returned, again |-> again]
    OBVIOUS
  <2>3. closure = [ud |-> closure.ud, iter |-> closure.iter, parent |-> closure.parent,
                   returned |-> closure.returned, again |-> closure.again]
    BY <1>4
  <2> HIDE DEF returned, again, next, new, closure, iter
  <2>4. Moved(closure, next, returned, again) = new
    BY <2>2, <2>3, IteratorMoved
  <2>5. QED
    BY <2>1, <2>4
<1>8. node.tree = ud.tree /\ node.nodeidx = iter /\ node = [tree |-> node.tree, nodeidx |-> node.nodeidx]
  OBVIOUS
<1>9. OnNode(Forest, node)
  BY <1>2, <1>5, <1>8 DEF OnNode
<1>10. new.ud = closure.ud /\ OnChildren(Forest, new, ud)
  <2>1. /\ new.ud = closure.ud /\ new.iter = next /\ new.parent = closure.parent
        /\ new.returned = closure.returned \cup {iter}
        /\ new = [ud |-> new.ud, iter |-> new.iter, parent |-> new.parent,
                  returned |-> new.returned, again |-> new.again]
    OBVIOUS
  <2> HIDE DEF new, next, iter, closure
  <2>2. QED
    BY <1>4, <1>5, <2>1 DEF OnChildren
<1> HIDE DEF closure, ud, iter, id, next, new, node
<1>11. \A v \in DOMAIN userdata' : OnNode(Forest, userdata'[v])
  BY <1>1, <1>6, <1>9
<1>12. ASSUME NEW d \in DOMAIN closures'
       PROVE  OnChildren(Forest, closures'[d], userdata'[closures'[d].ud])
  <2>1. CASE d = c
    BY <1>2, <1>6, <1>7, <1>10, <2>1 DEF ud
  <2>2. CASE d # c
    BY <1>1, <1>6, <1>7, <2>2
  <2>3. QED
    BY <2>1, <2>2
<1>13. QED
  BY <1>1, <1>6, <1>11, <1>12 DEF IteratorsHold

LEMMA CollectHolds ==
  ASSUME TreesOK, ClosuresHold, IteratorsHold, NEW u \in DOMAIN userdata, gc(u)
  PROVE  IteratorsHold'
<1> DEFINE k == userdata[u].tree
           more == [trees[k] EXCEPT !.refcnt = trees[k].refcnt - 1]
<1>1. /\ closures' = closures /\ \A c \in DOMAIN closures : closures[c].ud # u
      /\ DOMAIN userdata' = DOMAIN userdata \ {u}
      /\ \A v \in DOMAIN userdata' : userdata'[v] = userdata[v]
  BY DEF gc, Without
<1>2. Forest' = Forest
  <2>1. trees' = [trees EXCEPT ![k] = more]
    BY DEF gc, reset
  <2>2. k \in DOMAIN trees /\ trees[k] = [tree |-> trees[k].tree, refcnt |-> trees[k].refcnt]
    BY DEF TreesOK
  <2>3. [ [tree |-> trees[k].tree, refcnt |-> trees[k].refcnt] EXCEPT !.refcnt = trees[k].refcnt - 1].tree
          = trees[k].tree
    OBVIOUS
  <2>4. more.tree = trees[k].tree
    BY <2>2, <2>3
  <2> HIDE DEF more, k
  <2>5. DOMAIN trees' = DOMAIN trees /\ \A t \in DOMAIN trees : trees'[t].tree = trees[t].tree
    BY <2>1, <2>2, <2>4
  <2>6. QED
    BY <2>5 DEF Forest
<1>3. QED
  BY <1>1, <1>2 DEF IteratorsHold, ClosuresHold

LEMMA IteratorsInductive ==
  IInv /\ TreesOK /\ ClosuresHold /\ IteratorsHold /\ [TreesNext]_<<vars, treeVars>> => IteratorsHold'
<1> SUFFICES ASSUME IInv, TreesOK, ClosuresHold, IteratorsHold, [TreesNext]_<<vars, treeVars>>
    PROVE  IteratorsHold'
  OBVIOUS
<1>1. CASE UNCHANGED treeVars
  <2>1. Forest' = Forest /\ userdata' = userdata /\ closures' = closures
    BY <1>1 DEF treeVars, Forest
  <2>2. QED
    BY <2>1 DEF IteratorsHold
<1>2. ASSUME NEW name \in Names, instance_tree(name) PROVE IteratorsHold'
  BY <1>2, MadeHolds
<1>3. ASSUME NEW u \in DOMAIN userdata, chld(u) PROVE IteratorsHold'
  BY <1>3, ChldHolds
<1>4. ASSUME NEW u \in DOMAIN userdata, gc(u) PROVE IteratorsHold'
  BY <1>4, CollectHolds
<1>5. ASSUME NEW c \in DOMAIN closures, chld_iter(c) PROVE IteratorsHold'
  BY <1>5, ChldIterHolds
<1>6. ASSUME NEW c \in DOMAIN closures, DropClosure(c) PROVE IteratorsHold'
  <2>1. /\ Forest' = Forest /\ userdata' = userdata /\ DOMAIN closures' \subseteq DOMAIN closures
        /\ \A d \in DOMAIN closures' : closures'[d] = closures[d]
    BY <1>6 DEF DropClosure, Without, Forest
  <2>2. QED
    BY <2>1 DEF IteratorsHold
<1>7. CASE UNCHANGED <<vars, treeVars>>
  BY <1>1, <1>7
<1>8. QED
  BY <1>1, <1>2, <1>3, <1>4, <1>5, <1>6, <1>7 DEF TreesNext, Define

(* Whatever Lua drops and collects in between, an iterator starts at the   *)
(* first child of the node it was made for, returns only children of this  *)
(* node and none before the one left of it.                                *)
THEOREM IteratorsAlwaysOnChildren == TreesSpec => []IteratorOnChildren
<1>1. ASSUME IteratorsHold PROVE IteratorOnChildren
  <2> SUFFICES ASSUME NEW c \in DOMAIN closures
      PROVE  LET parent   == closures[c].parent
                 returned == closures[c].returned
                 children == Children(trees[parent.tree].tree, parent.nodeidx)
             IN  /\ returned \cup ({closures[c].iter} \ {NoNode}) \subseteq Range(children)
                 /\ returned = {} /\ children # <<>> => closures[c].iter = children[1]
                 /\ \A n \in 2 .. Len(children) : children[n] \in returned => children[n - 1] \in returned
    BY DEF IteratorOnChildren
  <2> DEFINE parent   == closures[c].parent
             returned == closures[c].returned
             tree     == trees[parent.tree].tree
             children == Children(tree, parent.nodeidx)
             first_   == tree.ar[parent.nodeidx].chld
             second   == tree.ar[first_].next
  <2>1. OnChildren(Forest, closures[c], userdata[closures[c].ud])
    BY <1>1 DEF IteratorsHold
  <2>2. Forest[parent.tree] = tree /\ parent.tree \in DOMAIN Forest /\ parent.nodeidx \in 1 .. Size(tree)
    BY <2>1 DEF OnChildren, OnNode, Forest
  <2>3. ListStarts(children, first_, second)
    BY <1>1, <2>2 DEF IteratorsHold, ChildrenLinked
  <2>4. /\ returned \subseteq {first_, second}
        /\ returned = {} => closures[c].iter = first_
        /\ returned # {} => first_ \in returned
        /\ returned \cup ({closures[c].iter} \ {NoNode}) \subseteq Range(children)
    BY <2>1, <2>2 DEF OnChildren, ChildNodes, ChildrenOf, FirstOf, SecondOf
  <2> HIDE DEF parent, returned, children, first_, second, tree
  <2>5. returned = {} /\ children # <<>> => closures[c].iter = children[1]
    BY <2>3, <2>4 DEF ListStarts
  <2>6. ASSUME NEW n \in 2 .. Len(children), children[n] \in returned PROVE children[n - 1] \in returned
    <3>1. n = 2 /\ children # <<>>
      <4>1. children[n] # first_ /\ (children[n] = second => n = 2) /\ Len(children) \in Nat
        BY <2>3 DEF ListStarts
      <4>2. Len(children) >= 2
        BY <4>1
      <4>3. children # <<>>
        BY <4>2
      <4>4. QED
        BY <2>4, <2>6, <4>1, <4>3
    <3>2. children[1] = first_ /\ first_ \in returned
      BY <2>3, <2>4, <2>6, <3>1 DEF ListStarts
    <3>3. QED
      BY <3>1, <3>2
  <2>7. QED
    BY <2>4, <2>5, <2>6 DEF parent, returned, children, tree
<1>2. TreesInit => IInv /\ TreesOK /\ ClosuresHold /\ IteratorsHold
  BY Inductive, TreesStart, IteratorsStart DEF TreesInit
<1>3. [TreesNext]_<<vars, treeVars>> => [Next]_vars
  BY DEF TreesNext, Define, instance_tree
<1>4. TreesOK /\ ClosuresHold /\ [TreesNext]_<<vars, treeVars>> => (TreesOK /\ ClosuresHold)'
  BY TreesInductive
<1>5. IInv /\ [Next]_vars => IInv'
  BY Inductive
<1>6. IInv /\ TreesOK /\ ClosuresHold /\ IteratorsHold /\ [TreesNext]_<<vars, treeVars>> => IteratorsHold'
  BY IteratorsInductive
<1>7. QED
  BY <1>1, <1>2, <1>3, <1>4, <1>5, <1>6, PTL DEF TreesSpec
=============================================================================
