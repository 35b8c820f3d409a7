----------------------------- MODULE ParserRun -----------------------------
(***************************************************************************)
(* The run of the compiler in lua_run_compiler.cpp: feedLexem on the stack *)
(* of automaton states, beside it the Lua stack with the nodes of the AST  *)
(* and the counter that numbers the scope-steps.                           *)
(*                                                                         *)
(* Which action is next is decided by the tables of the automaton, here it *)
(* is any: what holds, holds for every grammar with these productions.  A  *)
(* node is what the properties tell of it: its scope, its arguments, the   *)
(* tokens below it in their order, and the scopes of the nodes below it.   *)
(* A node with a step has the scope from the step to the next one, a token *)
(* that of the step it was shifted in.                                     *)
(***************************************************************************)
EXTENDS Integers, Sequences, SequencesExt

CONSTANTS
  Productions,      \* what is reduced: [count, call, scopeflag]
  MaxFeeds          \* bound of the number of actions

ScopeFlags == {"NoScope", "Step", "Scope"}

ASSUME ProductionsAssumption ==
  Productions \subseteq [count : Nat, call : BOOLEAN, scopeflag : ScopeFlags]

ASSUME MaxFeedsAssumption == MaxFeeds \in Nat

VARIABLES
  stateStack,   \* [luastki, luastkn, scopecnt], the first for the start state
  luaStack,     \* the nodes above the call table
  scopestep,    \* the counter of scope-steps
  phase,        \* "run", "accepted", or "error" for an exception
  tokens,       \* auxiliary: the number of tokens that are not keywords
  scopes,       \* auxiliary: the scopes attached to nodes so far
  feeds         \* number of actions taken

vars == <<stateStack, luaStack, scopestep, phase, tokens, scopes, feeds>>

State == [luastki : Nat, luastkn : Nat, scopecnt : Nat]

Scope == [start : Nat, end : Nat]

NewState(luastki, luastkn, scopecnt) ==
  [luastki |-> luastki, luastkn |-> luastkn, scopecnt |-> scopecnt]

TypeOK ==
  /\ stateStack \in Seq(State) /\ Len(stateStack) >= 1
  /\ scopestep \in Nat /\ tokens \in Nat /\ feeds \in 0 .. MaxFeeds
  /\ phase \in {"run", "accepted", "error"}
  /\ scopes \subseteq Scope
  /\ \A i \in DOMAIN luaStack : luaStack[i].scope \in Scope

-----------------------------------------------------------------------------
(* A new CompilerContext; only the count of the actions goes on.           *)
Fresh ==
  /\ stateStack = <<NewState(0, 0, 0)>>
  /\ luaStack = <<>>
  /\ scopestep = 0
  /\ phase = "run"
  /\ tokens = 0
  /\ scopes = {}

Init == Fresh /\ feeds = 0

(* The top n states.                                                       *)
Popped(n) == SubSeq(stateStack, Len(stateStack) - n + 1, Len(stateStack))

Rest(n) == SubSeq(stateStack, 1, Len(stateStack) - n)

(* Mutant: only the last state is looked at, whether it has elements or not.*)
IndexBehindLast(stack) ==
  LET last == stack[Len(stack)]
  IN  IF last.luastkn = 0 THEN 1 ELSE last.luastki + last.luastkn

(* getNextLuaStackIndex: behind the elements of the last state with any.   *)
NextLuaStackIndex(stack) ==
  LET used == {i \in DOMAIN stack : stack[i].luastkn # 0}
  IN  IF used = {} THEN 1
      ELSE LET i == Max(used) IN stack[i].luastki + stack[i].luastkn

(* luaReduceStruct and getLuaStackReductionSize: how many elements of the  *)
(* Lua stack belong to the states reduced.                                 *)
ReductionSize(n) ==
  LET top  == Popped(n)
      used == {i \in DOMAIN top : top[i].luastki # 0}
  IN  IF used = {} THEN 0
      ELSE top[Max(used)].luastki + top[Max(used)].luastkn - top[Min(used)].luastki

(* Mutant: an empty production starts its scope at 0.                    *)
ScopeStartAtZero(n) == IF n = 0 THEN 0 ELSE Popped(n)[1].scopecnt

(* Mutant: the scope starts where the last symbol was started.           *)
ScopeStartOfLast(n) == IF n = 0 THEN scopestep ELSE Popped(n)[n].scopecnt

(* The scope of a production starts where its first symbol was started.    *)
ScopeStart(n) == IF n = 0 THEN scopestep ELSE Popped(n)[1].scopecnt

Step(prod) ==
  IF prod.call /\ prod.scopeflag # "NoScope" THEN scopestep + 1 ELSE scopestep

NodeScope(prod) ==
  IF prod.scopeflag = "Scope" THEN [start |-> ScopeStart(prod.count), end |-> Step(prod)]
  ELSE [start |-> Step(prod), end |-> Step(prod) + 1]

Arguments(nof) == SubSeq(luaStack, Len(luaStack) - nof + 1, Len(luaStack))

Node(prod, args) ==
  [scope |-> NodeScope(prod),
   isScope |-> prod.scopeflag = "Scope",
   args |-> args,
   tokens |-> FlattenSeq([i \in DOMAIN args |-> args[i].tokens]),
   below |-> UNION {{args[i].scope} \cup args[i].below : i \in DOMAIN args}]

(* luaPushLexem: a token with a value becomes a node of its own.           *)
Leaf(token) ==
  [scope |-> [start |-> scopestep, end |-> scopestep + 1],
   isScope |-> FALSE, args |-> <<>>, tokens |-> <<token>>, below |-> {}]

(* Mutant: the arguments are taken from the top downwards.               *)
ReducedFromTop(prod) ==
  LET nof == ReductionSize(prod.count)
  IN  Append(SubSeq(luaStack, 1, Len(luaStack) - nof), Node(prod, Reverse(Arguments(nof))))

(* luaReduceStruct takes the arguments from the top of the Lua stack.      *)
Reduced(prod) ==
  LET nof == ReductionSize(prod.count)
  IN  Append(SubSeq(luaStack, 1, Len(luaStack) - nof), Node(prod, Arguments(nof)))

-----------------------------------------------------------------------------
(* A keyword leaves nothing on the Lua stack.                              *)
ShiftToken ==
  /\ stateStack' = Append(stateStack, NewState(NextLuaStackIndex(stateStack), 1, scopestep))
  /\ tokens' = tokens + 1
  /\ luaStack' = Append(luaStack, Leaf(tokens + 1))
  /\ UNCHANGED <<scopestep, phase, scopes>>

ShiftKeyword ==
  /\ stateStack' = Append(stateStack, NewState(0, 0, scopestep))
  /\ UNCHANGED <<luaStack, scopestep, phase, tokens, scopes>>

(* What Reduce and Accept do alike, before they pop the states.            *)
CallOf(prod) ==
  /\ Len(stateStack) > prod.count
  /\ IF prod.call
     THEN /\ luaStack' = Reduced(prod)
          /\ scopestep' = Step(prod)
          /\ scopes' = IF prod.scopeflag = "Scope" THEN scopes \cup {NodeScope(prod)}
                       ELSE scopes
     ELSE UNCHANGED <<luaStack, scopestep, scopes>>
  /\ UNCHANGED tokens

NofElements(prod) == IF prod.call THEN 1 ELSE ReductionSize(prod.count)

Reduce(prod) ==
  LET nof  == NofElements(prod)
      rest == Rest(prod.count)
  IN  /\ CallOf(prod)
      /\ stateStack' =
           Append(rest, NewState(IF nof = 0 THEN 0 ELSE NextLuaStackIndex(rest),
                                 nof, ScopeStart(prod.count)))
      /\ UNCHANGED phase

(* At the end of input, with the start production on the stack.            *)
Accept(prod) ==
  /\ Len(stateStack) = prod.count + 1
  /\ stateStack[1].luastki = 0 /\ stateStack[1].luastkn = 0
  /\ CallOf(prod)
  /\ stateStack' = <<NewState(1, NofElements(prod) + 1, stateStack[1].scopecnt)>>
  /\ phase' = "accepted"

(* The function is called and the states are popped, then there is no goto *)
(* for the nonterminal, or the accept is not at the end of the input or of *)
(* the stack.                                                              *)
ThrowReduced(prod) ==
  /\ CallOf(prod)
  /\ stateStack' = Rest(prod.count)
  /\ phase' = "error"

(* No action for the token, or one that does not fit the stack.            *)
Throw ==
  /\ phase' = "error"
  /\ UNCHANGED <<stateStack, luaStack, scopestep, tokens, scopes>>

Feed ==
  /\ phase = "run"
  /\ feeds < MaxFeeds
  /\ feeds' = feeds + 1
  /\ \/ ShiftToken
     \/ ShiftKeyword
     \/ \E prod \in Productions : Reduce(prod) \/ Accept(prod) \/ ThrowReduced(prod)
     \/ Throw

Next == Feed

Spec == Init /\ [][Next]_vars

-----------------------------------------------------------------------------
Used(stack, i) == stack[i].luastkn # 0

EndOf(stack, i) == stack[i].luastki + stack[i].luastkn

(* Where the part of the next state begins if only the first k are there.  *)
IsBehindLast(stack, k, x) ==
  \/ \E h \in 1 .. k :
       /\ Used(stack, h) /\ x = EndOf(stack, h)
       /\ \A j \in h + 1 .. k : ~Used(stack, j)
  \/ /\ \A j \in 1 .. k : ~Used(stack, j)
     /\ x = 1

(* The states tell which elements of the Lua stack are theirs: those that  *)
(* have any have one part each, one after the other from the bottom to the *)
(* top.  The runtime check of the stack indices in luaRunCompiler, of the  *)
(* top only, can therefore not fail, and a node takes as arguments what    *)
(* the symbols of its production pushed.                                   *)
StackAgrees ==
  phase = "run" =>
    /\ \A i \in DOMAIN stateStack :
         /\ stateStack[i].luastki = 0 <=> ~Used(stateStack, i)
         /\ Used(stateStack, i) => IsBehindLast(stateStack, i - 1, stateStack[i].luastki)
    /\ IsBehindLast(stateStack, Len(stateStack), Len(luaStack) + 1)

(* No token is lost, none twice in the tree, and they stay in the order of *)
(* the source.                                                             *)
TokensInOrder ==
  FlattenSeq([i \in DOMAIN luaStack |-> luaStack[i].tokens]) = [i \in 1 .. tokens |-> i]

Crossing(s, t) ==
  /\ s.start < t.end /\ t.start < s.end
  /\ ~(t.start >= s.start /\ t.end <= s.end)
  /\ ~(s.start >= t.start /\ s.end <= t.end)

(* The scopes attached to the nodes are not empty and no two overlap       *)
(* without one including the other, as the type database expects.          *)
ScopesNested ==
  /\ \A s \in scopes : s.start < s.end
  /\ \A s, t \in scopes : ~Crossing(s, t)

(* The scope of a node includes the scopes and the steps of all nodes      *)
(* below it, so that its definitions are visible to them.                  *)
ScopeCoversSubtree ==
  \A i \in DOMAIN luaStack :
    luaStack[i].isScope =>
      \A s \in luaStack[i].below :
        luaStack[i].scope.start <= s.start /\ s.end <= luaStack[i].scope.end
=============================================================================
