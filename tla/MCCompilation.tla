--------------------------- MODULE MCCompilation ---------------------------
(***************************************************************************)
(* Productions with and without a call, with a step and a scope, with and  *)
(* without elements, as they occur in the grammars of the examples.        *)
(***************************************************************************)
EXTENDS Compilation

Prod(count, call, scopeflag) == [count |-> count, call |-> call, scopeflag |-> scopeflag]

Called ==
  {Prod(2, FALSE, "NoScope"), Prod(1, TRUE, "NoScope"), Prod(1, TRUE, "Step"),
   Prod(0, TRUE, "Scope"), Prod(2, TRUE, "Scope"), Prod(0, FALSE, "NoScope")}
=============================================================================
