-------------------------- MODULE ScopedRelations --------------------------
(***************************************************************************)
(* What the table of reductions promises: it keeps, in the order they are  *)
(* defined, relations bound to a scope, at most one per scope, left, right *)
(* and tag.  A query at a scope-step finds for every right the relation of *)
(* the innermost scope, and of these the one defined first.                *)
(***************************************************************************)
EXTENDS Naturals, Sequences

CONSTANTS Types, Constructors, Tags, Weights, Scopes

VARIABLES
  rels,     \* the relations in the order of their definition
  reply     \* the last call and its result

vars == <<rels, reply>>

Rules == INSTANCE InvTree WITH NullVal <- 0

Relation == [scope : Scopes, left : Types, right : Types,
             value : Constructors, tag : Tags, weight : Weights]

SameKey(r, s) == /\ r.scope = s.scope /\ r.left = s.left
                 /\ r.right = s.right /\ r.tag = s.tag

(* The relations a query with a set of tags selects at a scope-step.       *)
Selected(step, left, right, tags) ==
  {i \in DOMAIN rels : /\ rels[i].left = left /\ rels[i].right = right
                       /\ rels[i].tag \in tags
                       /\ Rules!Covers(rels[i].scope, step)}

(* Relations not shadowed by one of an inner scope.                        *)
Unshadowed(S) ==
  {i \in S : \A j \in S : Rules!Contains(rels[j].scope, rels[i].scope)}

Found(step, left, right, tags) ==
  LET best == Unshadowed(Selected(step, left, right, tags))
  IN  {rels[i] : i \in {j \in best : \A k \in best : j <= k}}

Lookup(step, left, tags) == UNION {Found(step, left, right, tags) : right \in Types}

Init == rels = <<>> /\ reply = "none"

Define(r) ==
  /\ ~\E i \in DOMAIN rels : SameKey(rels[i], r)
  /\ rels' = Append(rels, r)
  /\ reply' = "defined"

(* A relation with the same constructor is there already.                  *)
Ignore(r) ==
  /\ \E i \in DOMAIN rels : SameKey(rels[i], r) /\ rels[i].value = r.value
  /\ reply' = "ignored"
  /\ UNCHANGED rels

Conflict(r) ==
  /\ \E i \in DOMAIN rels : SameKey(rels[i], r) /\ rels[i].value # r.value
  /\ reply' = "duplicate"
  /\ UNCHANGED rels

Reject ==
  /\ reply' = "rejected"
  /\ UNCHANGED rels

(* A query answers and changes nothing.                                    *)
Query ==
  /\ reply' = "none"
  /\ UNCHANGED rels

Next ==
  \/ Reject
  \/ Query
  \/ \E r \in Relation : Define(r) \/ Ignore(r) \/ Conflict(r)

Spec == Init /\ [][Next]_vars
=============================================================================
