----------------------------- MODULE PackedTable -----------------------------
(***************************************************************************)
(* The numbers the tables of the automaton are written with (automaton.hpp)*)
(* A key packs a state and a terminal or nonterminal, an action its type,  *)
(* scope flag, follow state or nonterminal, call and number of elements.   *)
(* The widths of the fields are parameters: with small ones small grammars *)
(* reach the limits.                                                       *)
(***************************************************************************)
EXTENDS Integers, Sequences, Bitwise

CONSTANTS
  ShiftState, ShiftTerminal, ShiftCall, ShiftProductionLength,
  ShiftNofProductions,   \* no field: the limit of the number of productions
  ShiftPriority          \* no field: the limit of the priorities

ShiftScopeFlag == 2
ShiftActionType == 2

(* The static_asserts, and that calls and nonterminals, whose number is    *)
(* bounded by the one of the productions only, have room.                  *)
ASSUME WidthsAssumption ==
  /\ {ShiftState, ShiftTerminal, ShiftCall, ShiftProductionLength, ShiftNofProductions, ShiftPriority} \subseteq Nat
  /\ ShiftState + ShiftTerminal <= 31
  /\ ShiftProductionLength + ShiftCall + ShiftState + ShiftScopeFlag + ShiftActionType <= 31
  /\ ShiftNofProductions <= ShiftCall /\ ShiftNofProductions <= ShiftTerminal /\ ShiftNofProductions <= ShiftState

MaxState == 2^ShiftState
MaxTerminal == 2^ShiftTerminal
MaxProductionLength == 2^ShiftProductionLength
MaxNofProductions == 2^ShiftNofProductions
MaxPriority == 2^ShiftPriority

-----------------------------------------------------------------------------
Shifted(value, width) == value * 2^width

Field(pkg, shift, width) == (pkg \div 2^shift) % 2^width

PackedKey(key) == Shifted(key.state, ShiftTerminal) | key.symbol

UnpackedKey(pkg) == [state |-> pkg \div 2^ShiftTerminal, symbol |-> pkg % MaxTerminal]

ActionTypes == <<"Shift", "Reduce", "Accept">>

ScopeFlags == <<"NoScope", "Step", "Scope">>

Code(names, name) == CHOOSE n \in 0 .. Len(names) - 1 : names[n + 1] = name

AboveCount == ShiftProductionLength
AboveCall  == AboveCount + ShiftCall
AboveValue == AboveCall + ShiftState
AboveFlag  == AboveValue + ShiftScopeFlag

PackedAction(a) ==
  Shifted(Code(ActionTypes, a.type), AboveFlag) | (Shifted(Code(ScopeFlags, a.scopeflag), AboveValue)
    | (Shifted(a.value, AboveCall) | (Shifted(a.call, AboveCount) | a.count)))

UnpackedAction(pkg) ==
  [type      |-> ActionTypes[Field(pkg, AboveFlag, ShiftActionType) + 1],
   scopeflag |-> ScopeFlags[Field(pkg, AboveValue, ShiftScopeFlag) + 1],
   value     |-> Field(pkg, AboveCall, ShiftState),
   call      |-> Field(pkg, AboveCount, ShiftCall),
   count     |-> Field(pkg, 0, ShiftProductionLength)]

PackedGoto(state) == state

UnpackedGoto(pkg) == pkg

-----------------------------------------------------------------------------
(* printTable writes the entries in the order of their keys to a table of  *)
(* Lua, where of two with one number the last counts.                      *)
Behind(k, l) == k.state > l.state \/ (k.state = l.state /\ k.symbol > l.symbol)

LastOf(keys) == CHOOSE k \in keys : \A l \in keys \ {k} : Behind(k, l)

printed(keys, packed) ==
  LET number == [k \in keys |-> PackedKey(k)]
  IN  [pkg \in {number[k] : k \in keys} |-> packed[LastOf({k \in keys : number[k] = pkg})]]

(* parsePackedTable refuses rows whose key or value is not above 0, and    *)
(* keys that are the same when unpacked.                                   *)
IsBadTable(table) ==
  \/ \E pkg \in DOMAIN table : pkg <= 0 \/ table[pkg] <= 0
  \/ \E pkg, other \in DOMAIN table : pkg # other /\ UnpackedKey(pkg) = UnpackedKey(other)

parsed(table) ==
  [key \in {UnpackedKey(pkg) : pkg \in DOMAIN table} |->
     table[CHOOSE pkg \in DOMAIN table : UnpackedKey(pkg) = key]]
=============================================================================
