---------------------------- MODULE AutomatonRun ----------------------------
(***************************************************************************)
(* The tables of Automaton at work: feedLexem of lua_run_compiler.cpp fed  *)
(* with any tokens.  What ParserRun has of feedLexem, the AST and the      *)
(* scopes, is not here: a node is its production and those of its          *)
(* children, 0 for a token.                                                *)
(***************************************************************************)
EXTENDS Automaton

CONSTANTS
  MaxTokens(_), \* bound of the length of the input
  MaxStack      \* bound of the stack, more than an input of this length needs

ASSUME BoundsAssumption == MaxStack \in Nat /\ \A G \in Grammars : MaxTokens(G) \in Nat

VARIABLES
  stateStack,
  nodes,        \* auxiliary: what the states but the first stand for
  tokens,       \* auxiliary: the tokens shifted
  lexem         \* the token to feed, NoLexem if it was consumed

runVars == <<stateStack, nodes, tokens, lexem>>

vars == <<buildVars, runVars>>

NoLexem == "none"

Token == [prod |-> 0, children |-> <<>>]

TypeOK ==
  /\ grammar \in DOMAIN Sentences
  /\ phase \in {"complexity", "nullable", "first", "lr0", "start", "lr1", "join", "actions", "load", "parse", "refused", "accepted", "error"}
  /\ nullable \subseteq Nonterminals(grammar)
  /\ \A A \in DOMAIN first : first[A] \subseteq Terminals(grammar) \cup {Eof}
  /\ \A k \in DOMAIN lalr : \A it \in lalr[k] : it.follow \subseteq Terminals(grammar) \cup {Eof}
  /\ \A k \in DOMAIN gotos : \A A \in DOMAIN gotos[k] : gotos[k][A] \in Nat
  /\ stateStack \in Seq(1 .. Len(actions) + 1) /\ Len(stateStack) >= 1
  /\ Len(nodes) = Len(stateStack) - 1
  /\ tokens \in Seq(Terminals(grammar)) /\ Len(tokens) <= MaxTokens(grammar)
  /\ lexem \in Terminals(grammar) \cup {Eof, NoLexem}

-----------------------------------------------------------------------------
Init ==
  /\ BuildInit
  /\ stateStack = <<1>>
  /\ nodes = <<>> /\ tokens = <<>> /\ lexem = NoLexem

BuildStep == Build /\ UNCHANGED runVars

-----------------------------------------------------------------------------
(* The tables refer to symbols by numbers: the lexer numbers the terminals *)
(* and the grammar parser the nonterminals as they come, $ is 0.           *)
FirstOnes(names) ==
  LET new == SelectSeq([i \in DOMAIN names |-> i], LAMBDA i : \A j \in 1 .. i - 1 : names[j] # names[i])
  IN  [n \in DOMAIN new |-> names[new[n]]]

TerminalNames ==
  FirstOnes(SelectSeq(FlattenSeq([p \in DOMAIN grammar |-> grammar[p].right]),
                      LAMBDA x : x \in Terminals(grammar)))

NonterminalNames == FirstOnes([p \in DOMAIN grammar |-> grammar[p].left])

NumberOf(names, x) == IF x = Eof THEN 0 ELSE CHOOSE n \in DOMAIN names : names[n] = x

Key(names, k, x) == [state |-> k, symbol |-> NumberOf(names, x)]

(* The tables of Automaton with numbers in place of names.                 *)
Numbered(a) ==
  IF a.type = "Shift"
  THEN [type |-> "Shift", scopeflag |-> "NoScope", value |-> a.state, call |-> 0, count |-> 0]
  ELSE [type |-> a.type, scopeflag |-> a.scope, value |-> NumberOf(NonterminalNames, a.left),
        call |-> a.call, count |-> a.count]

ActionMap ==
  LET cells == {<<k, t>> \in (DOMAIN actions) \X (Terminals(grammar) \cup {Eof}) : actions[k][t].action # NoAction}
      names == TerminalNames
      key   == [c \in cells |-> Key(names, c[1], c[2])]
  IN  [k \in Range(key) |-> LET c == CHOOSE c \in cells : key[c] = k IN Numbered(actions[c[1]][c[2]].action)]

GotoMap ==
  LET cells == UNION {{<<k, A>> : A \in DOMAIN gotos[k]} : k \in DOMAIN gotos}
      names == NonterminalNames
      key   == [c \in cells |-> Key(names, c[1], c[2])]
  IN  [k \in Range(key) |-> LET c == CHOOSE c \in cells : key[c] = k IN gotos[c[1]][c[2]]]

(* Automaton::tostring and luaLoadAutomaton.                               *)
ActionTable == LET map == ActionMap IN printed(DOMAIN map, [k \in DOMAIN map |-> PackedAction(map[k])])

GotoTable == LET map == GotoMap IN printed(DOMAIN map, [k \in DOMAIN map |-> PackedGoto(map[k])])

ActionsRead == LET table == parsed(ActionTable) IN [k \in DOMAIN table |-> UnpackedAction(table[k])]

GotosRead == LET table == parsed(GotoTable) IN [k \in DOMAIN table |-> UnpackedGoto(table[k])]

(* What the parser does with an action of the table.                       *)
Named(a) ==
  IF a.type = "Shift" THEN Shift(a.value)
  ELSE [type |-> a.type, left |-> NonterminalNames[a.value], scope |-> a.scopeflag,
        call |-> a.call, count |-> a.count]

luaLoadAutomaton ==
  /\ phase = "load"
  /\ IF IsBadTable(ActionTable) \/ IsBadTable(GotoTable)
     THEN phase' = "refused" /\ UNCHANGED <<actions, gotos>>
     ELSE /\ phase' = "parse"
          /\ LET read == ActionsRead
                 names == TerminalNames
             IN  actions' = [k \in DOMAIN actions |->
                   [t \in DOMAIN actions[k] |->
                      Cell(IF Key(names, k, t) \in DOMAIN read THEN Named(read[Key(names, k, t)]) ELSE NoAction,
                           NoPriority)]]
          /\ LET read == GotosRead
                 names == NonterminalNames
             IN  gotos' = [k \in DOMAIN gotos |->
                   [A \in {A \in Nonterminals(grammar) : Key(names, k, A) \in DOMAIN read} |-> read[Key(names, k, A)]]]
  /\ UNCHANGED <<grammar, locals, solved, warnings, runVars>>

-----------------------------------------------------------------------------

ReadLexem ==
  /\ phase = "parse" /\ lexem = NoLexem
  /\ lexem' \in {Eof} \cup IF Len(tokens) < MaxTokens(grammar) THEN Terminals(grammar) ELSE {}
  /\ UNCHANGED <<buildVars, stateStack, nodes, tokens>>

NextAction == actions[Last(stateStack)][lexem].action

FeedShift ==
  /\ NextAction.type = "Shift"
  /\ stateStack' = Append(stateStack, NextAction.state)
  /\ nodes' = Append(nodes, Token)
  /\ tokens' = Append(tokens, lexem)
  /\ lexem' = NoLexem
  /\ UNCHANGED phase

Below(count) == SubSeq(stateStack, 1, Len(stateStack) - count)

Children(count) == [i \in 1 .. count |-> nodes[Len(nodes) - count + i].prod]

HasGoto == NextAction.left \in DOMAIN gotos[Last(Below(NextAction.count))]

FeedReduce ==
  LET below == Below(NextAction.count)
  IN  /\ NextAction.type = "Reduce"
      /\ Len(stateStack) > NextAction.count /\ HasGoto
      /\ Len(stateStack) < MaxStack
      /\ stateStack' = Append(below, gotos[Last(below)][NextAction.left])
      /\ nodes' = Append(SubSeq(nodes, 1, Len(nodes) - NextAction.count),
                         [prod |-> NextAction.call, children |-> Children(NextAction.count)])
      /\ UNCHANGED <<phase, tokens, lexem>>

FeedAccept ==
  /\ NextAction.type = "Accept"
  /\ lexem = Eof /\ Len(stateStack) = NextAction.count + 1
  /\ stateStack' = <<1>> /\ nodes' = <<>>
  /\ phase' = "accepted"
  /\ UNCHANGED <<tokens, lexem>>

(* No action for the token, or one that does not fit the stack.            *)
IsRefused ==
  \/ NextAction = NoAction
  \/ NextAction.type = "Reduce" /\ (Len(stateStack) <= NextAction.count \/ ~HasGoto)
  \/ NextAction.type = "Accept" /\ (lexem # Eof \/ Len(stateStack) # NextAction.count + 1)

FeedError ==
  /\ IsRefused
  /\ phase' = "error"
  /\ UNCHANGED runVars

Feed ==
  /\ phase = "parse" /\ lexem # NoLexem
  /\ FeedShift \/ FeedReduce \/ FeedAccept \/ FeedError
  /\ UNCHANGED <<grammar, locals, actions, gotos, solved, warnings>>

(* A run of the compiler is over.                                          *)
IsOver == phase \in {"refused", "accepted", "error"}

Run == ReadLexem \/ Feed

Next == BuildStep \/ luaLoadAutomaton \/ Run

Spec == Init /\ [][Next]_vars /\ WF_vars(Run)

-----------------------------------------------------------------------------
(* The follow sets of the joined states have every lookahead that the      *)
(* LALR(1) automaton of the grammar needs, for a set that misses one makes *)
(* the parser refuse a sentence, and none but $ that can not follow the    *)
(* nonterminal anywhere.  All follow sets have a handle with room in an    *)
(* item: those above were refused at a join, in the items or the states.   *)
LookaheadsCover ==
  phase = "actions" /\ current = 0 /\ IsProductive(grammar) =>
    /\ Cardinality(follows) < MaxTerminal
    /\ \A k \in DOMAIN lalr :
         LET core == Core(lalr[k])
         IN  /\ core \in DOMAIN Lalr[grammar]
             /\ \A needed \in Lalr[grammar][core] :
                  \E it \in lalr[k] :
                    it.prod = needed.prod /\ it.pos = needed.pos /\ needed.follow \in it.follow
             /\ \A it \in lalr[k] : it.follow \subseteq FollowOf(grammar, Left(it)) \cup {Eof}

(* The tables read by the compiler are those the generator has written:    *)
(* what the generator does not refuse has room in the numbers, and no two  *)
(* entries have the same.                                                  *)
TablesRead ==
  phase = "load" =>
    /\ ~IsBadTable(ActionTable) /\ ~IsBadTable(GotoTable)
    /\ ActionsRead = ActionMap
    /\ GotosRead = GotoMap

IsSentence(word) == word \in Sentences[grammar]

IsViable(word) == \E sentence \in Sentences[grammar] : IsPrefix(word, sentence)

(* The priorities solved the conflict of a reduction of p with a shift of  *)
(* t, and both make trees of the same words: p ends with its left side A,  *)
(* and t is nowhere but behind an A that begins productions of A, as an    *)
(* operator, or is shifted, and nowhere but behind the elements of p in    *)
(* longer productions of A, as an else.                                    *)
ChoosesTree(k, t, p) ==
  LET A == grammar[p].left
      IsBehind(begin) ==
        \A q \in DOMAIN grammar : \A i \in DOMAIN grammar[q].right :
          grammar[q].right[i] = t => grammar[q].left = A /\ SubSeq(grammar[q].right, 1, i - 1) = begin
  IN  /\ grammar[p].right # <<>> /\ Last(grammar[p].right) = A
      /\ \/ IsBehind(<<A>>)
         \/ IsBehind(grammar[p].right) /\ actions[k][t].action.type = "Shift"

(* What is accepted is a sentence of the grammar, and no token is shifted  *)
(* that no sentence has there, unless the grammar has nonterminals that    *)
(* derive no word at all.  An error is only reported if no sentence begins *)
(* this way, if the priorities solved no conflict or only chose between    *)
(* trees; else they may take sentences out of the language.                *)
ParsesLanguage ==
  /\ IsProductive(grammar) => IsViable(tokens)
  /\ phase = "accepted" => IsSentence(tokens)
  /\ phase = "error" /\ (\A <<k, t, p>> \in solved : ChoosesTree(k, t, p)) =>
       IF lexem = Eof THEN ~IsSentence(tokens) ELSE ~IsViable(Append(tokens, lexem))

IsInfix(p) ==
  /\ p # 0
  /\ Len(grammar[p].right) = 3
  /\ grammar[p].right[1] = grammar[p].left /\ grammar[p].right[3] = grammar[p].left

(* "L defines the rule to be left-handed, R right-handed, the production   *)
(* with the higher of two numbers is preferred": in the tree an operator   *)
(* is never above one that binds weaker, and above one of its own kind     *)
(* only to the right or only to the left.                                  *)
PriorityRespected ==
  \A i \in DOMAIN nodes :
    LET p     == nodes[i].prod
        left  == nodes[i].children[1]
        right == nodes[i].children[3]
        Binds(q, assoc) == \/ grammar[q].priority.value > grammar[p].priority.value
                           \/ grammar[q].priority = grammar[p].priority /\ grammar[p].priority.assoc = assoc
    IN  IsInfix(p) => /\ IsInfix(left) => Binds(left, "Left")
                      /\ IsInfix(right) => Binds(right, "Right")

(* A derives A in one step or more.                                        *)
Renamings ==
  UNION {{<<grammar[p].left, grammar[p].right[i]>> :
            i \in {i \in DOMAIN grammar[p].right :
                    \A j \in DOMAIN grammar[p].right \ {i} : CanVanish(grammar, grammar[p].right[j])}} :
         p \in DOMAIN grammar}

IsCyclic(A) == A \in Reached(Renamings, {e[2] : e \in {e \in Renamings : e[1] = A}})

(* The priorities chose between a shift and a reduction of what may be     *)
(* nothing.  Even if the shift is preferred, the reduction may be left for *)
(* a lookahead $ that FIRST sets have from nonterminals that may be empty. *)
SolvesEmpty ==
  \E <<k, t, p>> \in solved : CanVanish(grammar, grammar[p].left) \/ IsCyclic(grammar[p].left)

(* The parser ends: it reduces only a finite number of times between two   *)
(* tokens.  Two cases are left out, where tables made without a conflict   *)
(* reported can push empty words forever: nonterminals that derive no word *)
(* at all, and a conflict about a reduction of nothing solved by priority. *)
Terminates == phase = "parse" /\ IsProductive(grammar) /\ ~SolvesEmpty ~> IsOver

(* "The class of language covered by Mewa" is LALR(1): a grammar without a *)
(* conflict in its LALR(1) automaton is compiled.                          *)
CoversLalr == phase = "refused" => HasConflict(grammar)
=============================================================================
