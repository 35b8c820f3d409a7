----------------------------- MODULE CallTable -----------------------------
(***************************************************************************)
(* The calls of productions in the table of a compiler: written by         *)
(* printCallTable (automaton_tostring.cpp) as the name, the function and   *)
(* the argument as members of the type system, which is another table of   *)
(* Lua, and read again by parseCallList (lua_load_automaton.cpp) when Lua  *)
(* has evaluated them.                                                     *)
(***************************************************************************)
EXTENDS Sequences

CONSTANTS
  TypeSystem,        \* what is there in the type system: name -> type of the value
  ConstantValues     \* beginnings of arguments that are values, not names

ASSUME TypeSystemAssumption == \A name \in DOMAIN TypeSystem : TypeSystem[name] \in {"function", "string", "table"}

Nil == "nil"

Member(name) == IF name \in DOMAIN TypeSystem THEN TypeSystem[name] ELSE Nil

IsConstantArgument(arg) == Head(arg) \in ConstantValues

\* What the argument of a row is for Lua
ObjectOf(call) ==
    CASE call.argtype = "NoArg"        -> Nil
      [] call.argtype = "StringArg"    -> "string"
      [] call.argtype = "ReferenceArg" -> IF IsConstantArgument(call.arg) THEN "constant" ELSE Member(Head(call.arg))

CallTable(calls) ==
    [k \in DOMAIN calls |->
        [name |-> <<calls[k].function>> \o calls[k].arg, proc |-> Member(calls[k].function), obj |-> ObjectOf(calls[k])]]

\* The name is cut at its first blank
ArgOf(row) == Tail(row.name)

CallError(row) ==
    IF row.proc = Nil THEN "UnresolvableFunction"
    ELSE IF row.proc # "function" THEN "BadValue"
    ELSE IF ArgOf(row) # <<>> /\ row.obj = Nil THEN "UnresolvableFunctionArg"
    ELSE "none"

IsLoadable(rows) == \A k \in DOMAIN rows : CallError(rows[k]) = "none"

parseCall(row) ==
    [function |-> Head(row.name),
     arg      |-> ArgOf(row),
     argtype  |-> IF row.obj = "string" THEN "StringArg" ELSE IF row.obj = Nil THEN "NoArg" ELSE "ReferenceArg"]

parseCallList(rows) == [k \in DOMAIN rows |-> parseCall(rows[k])]
============================================================================
