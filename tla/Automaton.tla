----------------------------- MODULE Automaton -----------------------------
(***************************************************************************)
(* Automaton::build of automaton.cpp: from a grammar to the action and     *)
(* goto tables of its LALR(1) automaton.  A pass of a loop is a step.      *)
(*                                                                         *)
(* A follow handle stands for a set of terminals and is modelled as this   *)
(* set; the handle 0 is {$}.  The numbers of states are the order in which *)
(* the LR(0) states are found.  States are joined in the order of their    *)
(* numbers, in the code in that of a hash map; the unions on the way, that *)
(* count as follow sets too, may therefore be others.                      *)
(***************************************************************************)
EXTENDS Grammar, PackedTable

VARIABLES
  grammar,      \* the list of productions
  phase,
  nullable,     \* nullableNonterminalSet
  first,        \* nonTerminalFirstSetMap
  follows,      \* FollowMap: the follow sets that have a handle
  lr0, lr1,     \* the states found so far, in their order
  stkidx,       \* how many of them are expanded
  lalr,         \* lalr1States
  current,      \* the state the actions are made for
  reduFollows,  \* the follow sets whose reductions are not inserted yet
  actions,      \* state -> terminal -> [action, priority]
  gotos,        \* state -> nonterminal -> state
  solved,       \* solvedConflictMap, with the production reduced
  warnings

locals == <<nullable, first, follows, lr0, lr1, stkidx, lalr, current, reduFollows>>

buildVars == <<grammar, phase, locals, actions, gotos, solved, warnings>>

-----------------------------------------------------------------------------
Item(prod, pos, follow) == [prod |-> prod, pos |-> pos, follow |-> follow]

Left(it) == grammar[it.prod].left

Right(it) == grammar[it.prod].right

AtEnd(it) == it.pos = Len(Right(it))

(* The symbols after the dot, none or one, and after that one.             *)
NextSymbols(state) == {Right(it)[it.pos + 1] : it \in {it \in state : ~AtEnd(it)}}

ItemsBefore(state, x) == {it \in state : x \in NextSymbols({it})}

Rest(it) == SubSeq(Right(it), it.pos + 2, Len(Right(it)))

(* The elements up to the first one that does not derive the empty word.   *)
Looked(symbols) == {j \in DOMAIN symbols : \A k \in 1 .. j - 1 : symbols[k] \in nullable}

FirstOf(symbols) ==
  UNION {IF symbols[j] \in DOMAIN first THEN first[symbols[j]] ELSE {symbols[j]} : j \in Looked(symbols)}

IsNullable(symbols) == Range(symbols) \subseteq nullable

-----------------------------------------------------------------------------
RECURSIVE Reached(_, _)
Reached(edges, from) ==
  LET more == from \cup {e[2] : e \in {e \in edges : e[1] \in from}}
  IN  IF more = from THEN from ELSE Reached(edges, more)

LeftCorners ==
  {<<grammar[p].left, grammar[p].right[1]>> : p \in {p \in DOMAIN grammar : grammar[p].right # <<>>}}

ClosureLr0(state) ==
  LET nonterminals == Reached(LeftCorners, NextSymbols(state))
  IN  state \cup {Item(p, 0, {Eof}) : p \in {p \in DOMAIN grammar : grammar[p].left \in nonterminals}}

(* FollowMap.  A join looks at the number of sets before anything else,    *)
(* full tells that there were too many.                                    *)
Joining(known) == [set |-> <<>>, known |-> known, full |-> FALSE]

IsFull(known) == Cardinality(known) >= MaxTerminal - 1

WithFollow(acc, key, follow) ==
  IF key \notin DOMAIN acc.set THEN [acc EXCEPT !.set = @ @@ (key :> follow)]
  ELSE LET union == acc.set[key] \cup follow
       IN  [set   |-> [acc.set EXCEPT ![key] = union],
            known |-> acc.known \cup {union},
            full  |-> acc.full \/ IsFull(acc.known)]

InOrder(items) ==
  FlattenSeq([p \in DOMAIN grammar |->
    FlattenSeq([n \in 1 .. Len(grammar[p].right) + 1 |->
      SetToSeq({it \in items : it.prod = p /\ it.pos = n - 1})])])

Expecting(items) == {it \in items : NextSymbols({it}) \cap Nonterminals(grammar) # {}}

Expected(it) == Right(it)[it.pos + 1]

(* Mutant: only the last symbol of a production is the end of it.          *)
EndsAtLast(closure) == {it \in Expecting(closure) : Rest(it) = <<>>}

Ends(closure) == {it \in Expecting(closure) : IsNullable(Rest(it))}

RECURSIVE Inheriting(_, _)
Inheriting(acc, closure) ==
  LET more == FoldLeft(LAMBDA a, it : WithFollow(a, Expected(it), a.set[Left(it)]), acc, InOrder(Ends(closure)))
  IN  IF more.set = acc.set THEN more ELSE Inheriting(more, closure)

(* Every nonterminal of the state has one follow set, the one of all its   *)
(* items: the sets of the kernel items [1], FIRST of what comes behind it  *)
(* [2], and the sets of the left sides it may be the end of [3].           *)
ClosureLr1(state, known) ==
  LET closure   == ClosureLr0(state)
      kernel    == FoldLeft(LAMBDA a, it : WithFollow(a, Left(it), it.follow), Joining(known), InOrder(state))
      predicted == FoldLeft(LAMBDA a, it : WithFollow(a, Expected(it), FirstOf(Rest(it))),
                            kernel, InOrder(Expecting(closure)))
      all       == Inheriting(predicted, closure)
  IN  [all EXCEPT !.set = {[it EXCEPT !.follow = all.set[Left(it)]] : it \in closure}]

GotoItems(state, x) == {[it EXCEPT !.pos = @ + 1] : it \in ItemsBefore(state, x)}

StartItems == {Item(1, 0, {Eof})}

AllItems == UNION {{Item(p, pos, {Eof}) : pos \in 0 .. Len(grammar[p].right)} : p \in DOMAIN grammar}

WithNew(states, found) == states \o SetToSeq(found \ Range(states))

(* getLr0TransitionStateFromLr1State                                       *)
CoreOf(state) == {[it EXCEPT !.follow = {Eof}] : it \in state}

(* Equal items of two states are one, there is nothing to join.            *)
JoinedWith(acc, state) ==
  FoldLeft(LAMBDA a, it :
             LET key == <<CoreOf(state), it.prod, it.pos>>
             IN  IF key \in DOMAIN a.set /\ a.set[key] = it.follow THEN a ELSE WithFollow(a, key, it.follow),
           acc, InOrder(state))

calculateLalr1StateMap ==
  LET all == FoldLeft(JoinedWith, Joining(follows), lr1)
  IN  [all EXCEPT !.set = [k \in DOMAIN lr0 |->
         {Item(it.prod, it.pos, all.set[<<lr0[k], it.prod, it.pos>>]) : it \in lr0[k]}]]

(* calculateLalr1TransitionItemGotoMap: a state by its items with the dot  *)
(* behind a symbol.                                                        *)
Kernel(state) == {<<it.prod, it.pos>> : it \in {it \in state : it.pos > 0}}

StateAfter(state, x) ==
  CHOOSE k \in DOMAIN lalr : Kernel(lalr[k]) = {<<it.prod, it.pos + 1>> : it \in ItemsBefore(state, x)}

-----------------------------------------------------------------------------
NoAction == [type |-> "none"]

(* Every production has a call of its own, with or without a step or scope *)
(* flag: the number of the call tells the productions apart.               *)
ScopeOf(p) == ScopeFlags[(p % 3) + 1]

Shift(k) == [type |-> "Shift", state |-> k]

Reduce(p) == [type |-> "Reduce", left |-> grammar[p].left, scope |-> ScopeOf(p), call |-> p,
              count |-> Len(grammar[p].right)]

Accept == [Reduce(1) EXCEPT !.type = "Accept"]

NoPriority == [value |-> -1, assoc |-> "Undefined"]

Cell(action, priority) == [action |-> action, priority |-> priority]

IsDefined(priority) == priority.value # 0 \/ priority.assoc # "Undefined"

(* Mutant: an action of a production without a priority has no entry.      *)
ComparedIfDefined(cell, new) ==
  cell.action # NoAction /\ cell.priority # NoPriority /\ IsDefined(cell.priority)

(* insertAction.  The accept action is there without an entry for its      *)
(* priority: the first action after it only leaves its priority.           *)
Compared(cell, new) == cell.action # NoAction /\ cell.priority # NoPriority

OfOneType(cell, new) == cell.action.type = new.action.type

ConflictUnsolved(cell, new) ==
  /\ Compared(cell, new)
  /\ IF OfOneType(cell, new) THEN cell.action # new.action
     ELSE \/ IsDefined(cell.priority) # IsDefined(new.priority)
          \/ /\ cell.priority.value = new.priority.value
             /\ \/ cell.priority.assoc # new.priority.assoc
                \/ new.priority.assoc = "Undefined"

(* Mutant: left and right are swapped.                                     *)
PreferredSwapped(cell, new) ==
  \/ new.priority.value > cell.priority.value
  \/ /\ new.priority.value = cell.priority.value
     /\ new.priority.assoc = IF new.action.type = "Reduce" THEN "Right" ELSE "Left"

Preferred(cell, new) ==
  \/ new.priority.value > cell.priority.value
  \/ /\ new.priority.value = cell.priority.value
     /\ new.priority.assoc = IF new.action.type = "Reduce" THEN "Left" ELSE "Right"

(* A conflict of a shift with a reduction that the priorities decide.      *)
ConflictSolved(cell, new) ==
  Compared(cell, new) /\ ~OfOneType(cell, new) /\ ~ConflictUnsolved(cell, new)

insertAction(cell, new) ==
  IF cell.action = NoAction THEN new
  ELSE IF ~Compared(cell, new) THEN [cell EXCEPT !.priority = new.priority]
  ELSE IF ConflictSolved(cell, new) /\ Preferred(cell, new) THEN new
  ELSE cell

-----------------------------------------------------------------------------
BuildInit ==
  /\ grammar \in Grammars
  /\ phase = "complexity"
  /\ nullable = {}
  /\ first = [A \in Nonterminals(grammar) |-> {}]
  /\ follows = {{Eof}}
  /\ lr0 = <<>> /\ lr1 = <<>> /\ stkidx = 0
  /\ lalr = <<>> /\ current = 0 /\ reduFollows = {}
  /\ actions = <<>> /\ gotos = <<>> /\ solved = {} /\ warnings = {}

(* Mutant: a production may have one element more than fits.               *)
TooComplexBehind ==
  \/ Len(grammar) >= MaxNofProductions
  \/ Cardinality(Terminals(grammar)) >= MaxTerminal
  \/ \E p \in DOMAIN grammar :
       Len(grammar[p].right) > MaxProductionLength \/ grammar[p].priority.value >= MaxPriority

TooComplex ==
  \/ Len(grammar) >= MaxNofProductions
  \/ Cardinality(Terminals(grammar)) >= MaxTerminal
  \/ \E p \in DOMAIN grammar :
       Len(grammar[p].right) >= MaxProductionLength \/ grammar[p].priority.value >= MaxPriority

CheckComplexity ==
  /\ phase = "complexity"
  /\ phase' = IF TooComplex THEN "refused" ELSE "nullable"
  /\ UNCHANGED <<grammar, locals, actions, gotos, solved, warnings>>

(* A pass of getNullableNonterminalSet, the last one changes nothing.      *)
NullablePass ==
  /\ phase = "nullable"
  /\ nullable' = nullable \cup {grammar[p].left : p \in {p \in DOMAIN grammar : IsNullable(grammar[p].right)}}
  /\ phase' = IF nullable' = nullable THEN "first" ELSE phase
  /\ UNCHANGED <<grammar, first, follows, lr0, lr1, stkidx, lalr, current, reduFollows, actions, gotos, solved, warnings>>

(* A pass of getNonTerminalFirstSetMap.  The set of a nonterminal that may *)
(* be empty has $ as well, and so have the sets it is inserted in.         *)
FirstPass ==
  /\ phase = "first"
  /\ first' = [A \in DOMAIN first |->
                 first[A] \cup UNION {FirstOf(grammar[p].right) : p \in {p \in DOMAIN grammar : grammar[p].left = A}}
                          \cup {Eof : B \in {A} \cap nullable}]
  /\ IF first' # first THEN UNCHANGED <<phase, follows, lr0>>
     ELSE /\ phase' = "lr0"
          /\ follows' = follows \cup {FirstOf(Rest(it)) : it \in Expecting(AllItems)}
          /\ lr0' = <<ClosureLr0(StartItems)>>
  /\ UNCHANGED <<grammar, nullable, lr1, stkidx, lalr, current, reduFollows, actions, gotos, solved, warnings>>

(* One turn of the loop of getAutomatonStateAssignments.                   *)
ExpandLr0 ==
  /\ phase = "lr0"
  /\ LET state == lr0[stkidx + 1]
     IN  lr0' = WithNew(lr0, {ClosureLr0(GotoItems(state, x)) : x \in NextSymbols(state)})
  /\ IF stkidx + 1 = Len(lr0') THEN phase' = "start" /\ stkidx' = 0
     ELSE stkidx' = stkidx + 1 /\ UNCHANGED phase
  /\ UNCHANGED <<grammar, nullable, first, follows, lr1, lalr, current, reduFollows, actions, gotos, solved, warnings>>

(* A join that finds too many follow sets throws.                          *)
WithClosure(found, items) ==
  LET closure == ClosureLr1(items, found.known)
  IN  [set |-> found.set \cup {closure.set}, known |-> closure.known, full |-> found.full \/ closure.full]

FoundFrom(sets) == FoldLeft(WithClosure, [Joining(follows) EXCEPT !.set = {}], sets)

StartLr1 ==
  LET found == FoundFrom(<<StartItems>>)
  IN  /\ phase = "start"
      /\ follows' = found.known
      /\ lr1' = WithNew(<<>>, found.set)
      /\ phase' = IF found.full THEN "refused" ELSE "lr1"
      /\ UNCHANGED <<grammar, nullable, first, lr0, stkidx, lalr, current, reduFollows, actions, gotos, solved, warnings>>

ExpandLr1 ==
  LET state   == lr1[stkidx + 1]
      symbols == SetToSeq(NextSymbols(state))
      found   == FoundFrom([n \in DOMAIN symbols |-> GotoItems(state, symbols[n])])
  IN  /\ phase = "lr1"
      /\ follows' = found.known
      /\ lr1' = WithNew(lr1, found.set)
      /\ IF found.full THEN phase' = "refused" /\ UNCHANGED stkidx
         ELSE IF stkidx + 1 = Len(lr1') THEN phase' = "join" /\ stkidx' = 0
         ELSE stkidx' = stkidx + 1 /\ UNCHANGED phase
      /\ UNCHANGED <<grammar, nullable, first, lr0, lalr, current, reduFollows, actions, gotos, solved, warnings>>

(* The number of the states is the last limit.                             *)
JoinStates ==
  LET joined == calculateLalr1StateMap
  IN  /\ phase = "join"
      /\ follows' = joined.known
      /\ lalr' = joined.set
      /\ phase' = IF joined.full \/ Len(lr0) >= MaxState THEN "refused" ELSE "actions"
      /\ UNCHANGED <<grammar, nullable, first, lr0, lr1, stkidx, current, reduFollows, actions, gotos, solved, warnings>>

(* isAcceptState, getShiftNodes: a shift has the priority of the first     *)
(* production, the others of a state should have the same.                 *)
PriorityOfShift(state, t) ==
  LET p == Min({it.prod : it \in ItemsBefore(state, t)}) IN grammar[p].priority

PriorityConflicts(state) ==
  {t \in NextSymbols(state) \ Nonterminals(grammar) :
     \E it \in ItemsBefore(state, t) : grammar[it.prod].priority # PriorityOfShift(state, t)}

Shifts(state) ==
  [t \in Terminals(grammar) \cup {Eof} |->
     IF t \in NextSymbols(state) THEN Cell(Shift(StateAfter(state, t)), PriorityOfShift(state, t))
     ELSE IF t = Eof /\ \E it \in state : it.prod = 1 /\ AtEnd(it) /\ it.follow = {Eof}
     THEN Cell(Accept, NoPriority)
     ELSE Cell(NoAction, NoPriority)]

InsertShifts ==
  LET state == lalr[current + 1]
  IN  /\ phase = "actions" /\ reduFollows = {} /\ current < Len(lalr)
      /\ current' = current + 1
      /\ actions' = Append(actions, Shifts(state))
      /\ gotos' = Append(gotos, [A \in NextSymbols(state) \cap Nonterminals(grammar) |-> StateAfter(state, A)])
      /\ reduFollows' = {it.follow : it \in {it \in state : AtEnd(it)}}
      /\ warnings' = warnings \cup {<<"PriorityConflict", current', t>> : t \in PriorityConflicts(state)}
      /\ UNCHANGED <<grammar, phase, nullable, first, follows, lr0, lr1, stkidx, lalr, solved>>

(* getReductionDef: the first of the productions that end with this follow *)
(* set; another one is a conflict.  The order of the follow sets is the    *)
(* one of their handles: 0 is the first, the others were numbered in the   *)
(* order of their joins.                                                   *)
InsertReductions(follow) ==
  LET ending == {it \in lalr[current] : AtEnd(it) /\ it.follow = follow}
      p      == Min({it.prod : it \in ending})
      new    == Cell(Reduce(p), grammar[p].priority)
      row    == actions[current]
  IN  /\ follow \in reduFollows
      /\ {Eof} \in reduFollows => follow = {Eof}
      /\ reduFollows' = reduFollows \ {follow}
      /\ actions' = [actions EXCEPT ![current] =
                       [t \in DOMAIN row |-> IF t \in follow THEN insertAction(row[t], new) ELSE row[t]]]
      /\ solved' = solved \cup {<<current, t, p>> : t \in {t \in follow : ConflictSolved(row[t], new)}}
      /\ warnings' = warnings
           \cup {<<"Conflict", current, t>> : t \in {t \in follow : ConflictUnsolved(row[t], new)}}
           \cup {<<"ReduceReduceConflict", current, it.prod>> :
                   it \in {it \in ending : Reduce(it.prod) # new.action}}
      /\ UNCHANGED <<grammar, phase, nullable, first, follows, lr0, lr1, stkidx, lalr, current, gotos>>

(* The generator stops if there are any conflicts reported.                *)
Finish ==
  /\ phase = "actions" /\ reduFollows = {} /\ current = Len(lalr)
  /\ phase' = IF warnings = {} THEN "load" ELSE "refused"
  /\ nullable' = {} /\ first' = <<>> /\ follows' = {} /\ lr0' = <<>> /\ lr1' = <<>> /\ lalr' = <<>> /\ current' = 0
  /\ UNCHANGED <<grammar, stkidx, reduFollows, actions, gotos, solved, warnings>>

Build ==
  \/ CheckComplexity
  \/ NullablePass \/ FirstPass
  \/ ExpandLr0 \/ StartLr1 \/ ExpandLr1 \/ JoinStates
  \/ InsertShifts
  \/ \E follow \in reduFollows : InsertReductions(follow)
  \/ Finish
=============================================================================
