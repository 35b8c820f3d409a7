----------------------------- MODULE TypeTable -----------------------------
(***************************************************************************)
(* The types of typedb.cpp: defineType, defineTypeAs, getType, getTypes and*)
(* what the functions of typedb (lualib_mewa.cpp) show of a type.          *)
(* Types of one scope, context and name that differ in their parameters    *)
(* are linked to a list; m_typeTable, a ScopedMap with the variables       *)
(* m_invtree, m_map and owner, leads to the head of the list.  The         *)
(* parameters of all types are in one array m_parameterMap.                *)
(***************************************************************************)
EXTENDS Integers, Sequences

CONSTANTS
  Names,
  ContextArgs, AliasArgs,   \* the type handles passed by callers, valid or not
  Overloads,                \* the parameters and the constructor passed
  Scopes,
  MaxNofParameter,          \* the limit of the number of parameters
  MaxTypes,                 \* bound of the number of type records
  MaxElements,              \* bound of the number of lists in m_typeTable
  MaxStep                   \* the end of the outermost scope

ASSUME ArgsAssumption ==
  /\ ContextArgs \cup AliasArgs \subseteq Int
  /\ \A o \in Overloads : /\ o.constructor \in Nat
                          /\ o.parameter \in Seq([type : Nat, constructor : Nat])

ASSUME ScopesAssumption ==
  Scopes \subseteq {s \in [start : Nat, end : Nat] : s.start < s.end /\ s.end <= MaxStep}

ASSUME BoundsAssumption ==
  MaxNofParameter \in Nat /\ MaxTypes \in Nat /\ MaxElements \in Nat /\ MaxStep \in Nat

NoType == 0
Duplicate == -1
Failed == -2     \* stands for the errors thrown

VARIABLES
  m_typerecMap,     \* the type records, a type handle is an index
  m_parameterMap,   \* the parameters of all records
  m_invtree, m_map, owner,  \* m_typeTable: context and name, scope -> head of the list
  reply             \* the result of the last call

m_typeTable == <<m_invtree, m_map, owner>>

vars == <<m_typerecMap, m_parameterMap, m_typeTable, reply>>

Keys == [contextType : 0 .. MaxTypes, name : Names]

TypeRecord ==
  [scope : Scopes, key : Keys, constructor : Nat, parameter : Nat, parameterlen : Nat, next : Nat]

TypeMap == INSTANCE ScopedMap WITH Values <- Nat \ {0}, NullVal <- NoType, Steps <- {}

TypeOK ==
  /\ m_typerecMap \in Seq(TypeRecord)
  /\ m_parameterMap \in Seq([type : Nat, constructor : Nat])
  /\ \A i \in DOMAIN m_typerecMap :
       LET rec == m_typerecMap[i]
       IN  /\ rec.next \in {NoType} \cup DOMAIN m_typerecMap
           /\ rec.parameterlen > 0 =>
                /\ rec.parameter >= 1
                /\ rec.parameter + rec.parameterlen - 1 <= Len(m_parameterMap)
  /\ TypeMap!TypeOK
  /\ \A i \in DOMAIN m_invtree : m_invtree[i].value \in DOMAIN m_typerecMap

-----------------------------------------------------------------------------
(* The loops "while (tri) {... tri = tr.next;}": the records passed.       *)
List(head) ==
  LET closed == {C \in SUBSET DOMAIN m_typerecMap :
                   /\ head \in C \cup {NoType}
                   /\ \A i \in C : m_typerecMap[i].next \in C \cup {NoType}}
  IN  {i \in DOMAIN m_typerecMap : \A C \in closed : i \in C}

Last(head) == CHOOSE i \in List(head) : m_typerecMap[i].next = NoType

(* typedb:type_parameters and the others show the record of a handle.      *)
type_parameters(type) ==
  LET rec == m_typerecMap[type]
  IN  SubSeq(m_parameterMap, rec.parameter, rec.parameter + rec.parameterlen - 1)

type_nof_parameters(type) == Len(type_parameters(type))

type_constructor(type) == m_typerecMap[type].constructor

type_scope(type) == m_typerecMap[type].scope

type_name(type) == m_typerecMap[type].key.name

type_context(type) == m_typerecMap[type].key.contextType

(* The types of parameters are compared, not their constructors.           *)
Signature(parameter) == [n \in DOMAIN parameter |-> parameter[n].type]

(* Mutant: only the head of the list is compared.                          *)
HeadWithSignature(list, types) ==
  LET same == {i \in list : list \subseteq List(i) /\ Signature(type_parameters(i)) = types}
  IN  IF same = {} THEN NoType ELSE CHOOSE i \in same : TRUE

(* findTypeWithSignature: the first of the list with these parameters.     *)
findTypeWithSignature(list, types) ==
  LET same == {i \in list : Signature(type_parameters(i)) = types}
  IN  IF same = {} THEN NoType ELSE CHOOSE i \in same : same \subseteq List(i)

(* The list of the head that is found, if one is found.                    *)
getTypes(scope, key) == UNION {List(head) : head \in {TypeMap!Def(key, scope)} \ {NoType}}

getType(scope, key, types) == findTypeWithSignature(getTypes(scope, key), types)

(* getTypeDefinitionTree: the tree of the scopes of all contexts and names *)
(* with the types that are the first of their list (ScopeListMap).         *)
Trees == INSTANCE ScopedInstance WITH NullVal <- {}

HeadsAt == [scope \in TypeMap!ListedScopes |-> {item.value : item \in TypeMap!ListedIn(scope)}]

getTypeDefinitionTree ==
  LET heads == Trees!TreeOfAll(HeadsAt)
  IN  [heads EXCEPT !.tree = Trees!translate(@)]

-----------------------------------------------------------------------------
Init ==
  /\ m_typerecMap = <<>>
  /\ m_parameterMap = <<>>
  /\ m_invtree = <<>>
  /\ m_map = [key \in Keys |-> [e \in {} |-> 0]]
  /\ owner = <<>>
  /\ reply = NoType

IsContext(contextType) == contextType \in 0 .. Len(m_typerecMap)

Key(contextType, name) == [contextType |-> contextType, name |-> name]

(* The record is stored before the table is asked for the type, and stays  *)
(* there, in no list, if the definition fails.                             *)
Record(scope, key, overload) ==
  [scope |-> scope, key |-> key, constructor |-> overload.constructor,
   parameter |-> IF overload.parameter = <<>> THEN 0 ELSE Len(m_parameterMap) + 1,
   parameterlen |-> Len(overload.parameter), next |-> NoType]

Stored(scope, key, overload) == Append(m_typerecMap, Record(scope, key, overload))

(* getOrSet inserts the scope: the record is the head of a list.           *)
DefineFirst(scope, key, overload) ==
  /\ m_typerecMap' = Stored(scope, key, overload)
  /\ TypeMap!Insert(key, scope, Len(m_typerecMap) + 1)
  /\ reply' = Len(m_typerecMap) + 1

(* Mutant: the record is not linked to the list.                           *)
DefineUnlinked(scope, key, overload) ==
  /\ TypeMap!IsKnown(key, scope)
  /\ findTypeWithSignature(List(TypeMap!OldValue(key, scope)), Signature(overload.parameter)) = NoType
  /\ m_typerecMap' = Stored(scope, key, overload)
  /\ reply' = Len(m_typerecMap) + 1
  /\ UNCHANGED m_typeTable

(* There are types with other parameters: it becomes the last of the list. *)
DefineNext(scope, key, overload) ==
  LET head == TypeMap!OldValue(key, scope)
      new  == Len(m_typerecMap) + 1
  IN  /\ TypeMap!IsKnown(key, scope)
      /\ findTypeWithSignature(List(head), Signature(overload.parameter)) = NoType
      /\ m_typerecMap' = [Stored(scope, key, overload) EXCEPT ![Last(head)].next = new]
      /\ reply' = new
      /\ UNCHANGED m_typeTable

DefineDuplicate(scope, key, overload) ==
  /\ TypeMap!IsKnown(key, scope)
  /\ findTypeWithSignature(List(TypeMap!OldValue(key, scope)), Signature(overload.parameter)) # NoType
  /\ m_typerecMap' = Stored(scope, key, overload)
  /\ reply' = Duplicate
  /\ UNCHANGED m_typeTable

(* The ScopedMap refuses the scope, as it overlaps another one.            *)
DefineRefused(scope, key, overload) ==
  /\ TypeMap!IsRefused(key, scope)
  /\ m_typerecMap' = Stored(scope, key, overload)
  /\ reply' = Failed
  /\ UNCHANGED m_typeTable

defineType(scope, contextType, name, overload) ==
  /\ Len(overload.parameter) < MaxNofParameter /\ IsContext(contextType)
  /\ Len(m_typerecMap) < MaxTypes
  /\ m_parameterMap' = m_parameterMap \o overload.parameter
  /\ LET key == Key(contextType, name)
     IN  \/ DefineFirst(scope, key, overload)
         \/ DefineNext(scope, key, overload)
         \/ DefineDuplicate(scope, key, overload)
         \/ DefineRefused(scope, key, overload)

(* Mutant: a synonym replaces what is defined.                             *)
defineTypeAsReplacing(scope, contextType, name, type) ==
  /\ IsContext(contextType) /\ type \in DOMAIN m_typerecMap
  /\ LET key == Key(contextType, name)
     IN  IF TypeMap!IsKnown(key, scope)
         THEN /\ \E i \in DOMAIN m_invtree :
                   /\ owner[i] = key /\ m_invtree[i].scope = scope
                   /\ m_invtree' = [m_invtree EXCEPT ![i].value = type]
              /\ UNCHANGED <<m_map, owner>>
         ELSE TypeMap!Insert(key, scope, type)
  /\ reply' = type
  /\ UNCHANGED <<m_typerecMap, m_parameterMap>>

(* A name for a type that is there: its list is entered at this type.      *)
defineTypeAs(scope, contextType, name, type) ==
  /\ IsContext(contextType) /\ type \in DOMAIN m_typerecMap
  /\ LET key == Key(contextType, name)
     IN  \/ /\ TypeMap!Insert(key, scope, type)
            /\ reply' = type
         \/ /\ TypeMap!IsKnown(key, scope)
            /\ reply' = NoType
            /\ UNCHANGED m_typeTable
         \/ /\ TypeMap!IsRefused(key, scope)
            /\ reply' = Failed
            /\ UNCHANGED m_typeTable
  /\ UNCHANGED <<m_typerecMap, m_parameterMap>>

(* typedb:def_type and typedb:def_type_as convert their arguments first:   *)
(* a context is not negative, a type is positive.                          *)
def_type(scope, contextType, name, overload) ==
  contextType >= 0 /\ defineType(scope, contextType, name, overload)

def_type_as(scope, contextType, name, type) ==
  contextType >= 0 /\ type > 0 /\ defineTypeAs(scope, contextType, name, type)

(* The errors of the arguments, InvalidHandle and TooManyTypeArguments come*)
(* before any change.                                                      *)
Reject ==
  /\ \/ \E contextType \in ContextArgs : ~IsContext(contextType)
     \/ \E type \in AliasArgs : type \notin DOMAIN m_typerecMap
     \/ \E overload \in Overloads : Len(overload.parameter) >= MaxNofParameter
  /\ reply' = Failed
  /\ UNCHANGED <<m_typerecMap, m_parameterMap, m_typeTable>>

Next ==
  \/ \E scope \in Scopes, contextType \in ContextArgs, name \in Names :
       \/ \E overload \in Overloads : def_type(scope, contextType, name, overload)
       \/ \E type \in AliasArgs : def_type_as(scope, contextType, name, type)
  \/ Reject

Spec == Init /\ [][Next]_vars

-----------------------------------------------------------------------------
Nested(key) == TypeMap!Nested(key)

Overlaps(scope, key) ==
  \E i \in TypeMap!Elements(key) : TypeMap!Crossing(m_invtree[i].scope, scope)

NoSynonyms ==
  \A i \in DOMAIN m_invtree :
    LET head == m_typerecMap[m_invtree[i].value]
    IN  head.scope = m_invtree[i].scope /\ head.key = owner[i]

(* As long as the scopes of a context and name nest and there are no       *)
(* synonyms, getTypes has exactly the types defined in a scope, each       *)
(* parameter list once, in the order of their definition: a duplicate, or  *)
(* a definition refused because its scope overlaps another, leaves its     *)
(* record behind and no trace in the list, and no list leads to the types  *)
(* of another.                                                             *)
ListsExact ==
  NoSynonyms => \A scope \in Scopes, key \in Keys :
    LET defined == {i \in DOMAIN m_typerecMap :
                      m_typerecMap[i].scope = scope /\ m_typerecMap[i].key = key}
    IN  Nested(key) =>
          /\ getTypes(scope, key) =
               IF Overlaps(scope, key) THEN {}
               ELSE {i \in defined :
                       ~\E j \in defined : j < i /\ Signature(type_parameters(j)) = Signature(type_parameters(i))}
          /\ \A i, j \in getTypes(scope, key) : j \in List(i) <=> i <= j

(* typedb:type_tree shows, as long as the scopes of all types nest and     *)
(* there are no synonyms, every scope once, in its place, with the first   *)
(* type of each context and name defined in it.                            *)
TypeTreeShows ==
  LET scopes   == {m_invtree[i].scope : i \in DOMAIN m_invtree}
      first(s) == {i \in DOMAIN m_typerecMap :
                     /\ m_typerecMap[i].scope = s
                     /\ ~\E j \in 1 .. i - 1 : /\ m_typerecMap[j].scope = s
                                               /\ m_typerecMap[j].key = m_typerecMap[i].key}
  IN  NoSynonyms /\ (\A s, t \in scopes : ~TypeMap!Crossing(s, t)) =>
        Trees!Shows(getTypeDefinitionTree, [s \in scopes |-> first(s)])

Signatures == {Signature(overload.parameter) : overload \in Overloads}

Shown(type) ==
  [scope |-> type_scope(type), context |-> type_context(type), name |-> type_name(type),
   constructor |-> type_constructor(type), parameters |-> type_parameters(type),
   nof |-> type_nof_parameters(type)]

(* The list found for a scope, context and name is found for as long as    *)
(* the scopes of this context and name nest, whatever else is defined,     *)
(* synonyms included, and this_type finds in it for parameters what it     *)
(* found before.  A handle shows the same forever.                         *)
HandlesStable ==
  [][/\ \A scope \in Scopes, key \in Keys :
          \A head \in {TypeMap!Def(key, scope)} \ {NoType} : Nested(key)' =>
            /\ TypeMap!Def(key, scope)' = head
            /\ \A types \in Signatures :
                 LET found == findTypeWithSignature(List(head), types)
                 IN  found # NoType => findTypeWithSignature(List(head), types)' = found
     /\ \A type \in DOMAIN m_typerecMap : Shown(type)' = Shown(type)]_vars

(* The handle def_type returns is the one this_type finds next, and it     *)
(* shows what was passed, also where scopes overlap.  -1 is returned only  *)
(* if there is such a type, and with it and with an error every list stays *)
(* as it is, though the record of the type is stored.                      *)
DefinedIsFound ==
  [][\A scope \in Scopes, contextType \in ContextArgs, name \in Names, overload \in Overloads :
       defineType(scope, contextType, name, overload) =>
         LET key   == Key(contextType, name)
             types == Signature(overload.parameter)
         IN  IF reply' \in {Duplicate, Failed}
             THEN /\ reply' = Duplicate => getType(scope, key, types) # NoType
                  /\ \A s \in Scopes, k \in Keys : getTypes(s, k)' = getTypes(s, k)
             ELSE /\ getType(scope, key, types)' = reply'
                  /\ Shown(reply)' = [scope |-> scope, context |-> contextType, name |-> name,
                                      constructor |-> overload.constructor, parameters |-> overload.parameter,
                                      nof |-> Len(overload.parameter)]]_vars
=============================================================================
