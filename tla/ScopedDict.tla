----------------------------- MODULE ScopedDict -----------------------------
(***************************************************************************)
(* What a scope-bound table promises: a dictionary that keeps for every    *)
(* key at most one definition per scope, and answers a lookup at a         *)
(* scope-step with the definition of the innermost scope that covers it.   *)
(* ScopedMap and ScopedInstance of scope.hpp are shown to implement it.    *)
(***************************************************************************)
EXTENDS Naturals

CONSTANTS Keys, Values, Scopes, NullVal

VARIABLES
  defs,     \* key -> scope -> value of the definitions made so far
  reply     \* the last call and its result

Rules == INSTANCE InvTree

vars == <<defs, reply>>

Visible(key, step) == {s \in DOMAIN defs[key] : Rules!Covers(s, step)}

Innermost(S) == CHOOSE s \in S : \A t \in S : Rules!Contains(t, s)

Lookup(key, step) ==
  IF Visible(key, step) = {} THEN NullVal
  ELSE defs[key][Innermost(Visible(key, step))]

LookupDef(key, scope) ==
  IF scope \in DOMAIN defs[key] THEN defs[key][scope] ELSE NullVal

Put(key, scope, value) ==
  defs' = [defs EXCEPT ![key] = [s \in DOMAIN defs[key] \cup {scope} |->
                                   IF s = scope THEN value ELSE defs[key][s]]]

Init == defs = [k \in Keys |-> [s \in {} |-> NullVal]] /\ reply = [op |-> "none", result |-> NullVal]

(* The first definition of a scope stays; a later one reports the old one. *)
Set(key, scope, value) ==
  \/ /\ scope \notin DOMAIN defs[key]
     /\ Put(key, scope, value)
     /\ reply' = [op |-> "set", result |-> TRUE]
  \/ /\ scope \in DOMAIN defs[key]
     /\ reply' = [op |-> "set", result |-> FALSE]
     /\ UNCHANGED defs

GetOrSet(key, scope, value) ==
  \/ /\ scope \notin DOMAIN defs[key]
     /\ Put(key, scope, value)
     /\ reply' = [op |-> "getOrSet", result |-> NullVal]
  \/ /\ scope \in DOMAIN defs[key]
     /\ reply' = [op |-> "getOrSet", result |-> LookupDef(key, scope)]
     /\ UNCHANGED defs

(* ScopedInstance: the last definition of a scope wins.                    *)
Overwrite(key, scope, value) ==
  /\ Put(key, scope, value)
  /\ reply' = [op |-> "overwrite", result |-> value]

(* Only a scope that overlaps a defined one may be refused.                *)
Refuse(key, scope) ==
  /\ \E s \in DOMAIN defs[key] : Rules!Crossing(s, scope)
  /\ reply' = [op |-> "refuse", result |-> FALSE]
  /\ UNCHANGED defs

Next ==
  \E key \in Keys, scope \in Scopes :
    \/ \E value \in Values : \/ Set(key, scope, value)
                             \/ GetOrSet(key, scope, value)
                             \/ Overwrite(key, scope, value)
    \/ Refuse(key, scope)

Spec == Init /\ [][Next]_vars
=============================================================================
