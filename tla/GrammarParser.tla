--------------------------- MODULE GrammarParser ---------------------------
(***************************************************************************)
(* Reading a grammar (parseLanguageDef, src/automaton_parser.cpp): one     *)
(* step for every token, then the tests that follow the loop.  What is     *)
(* read is kept in three places: the state, the variables of the rule or   *)
(* command that is read (cur) and the language definition (def).  The      *)
(* variables of a call survive from one production to the next where the   *)
(* code does not clear them.                                               *)
(*                                                                         *)
(* A token has its type, its value and, if the value can be read as a      *)
(* number or a priority, the number written and the associativity.         *)
(***************************************************************************)
EXTENDS LexerDefs

CONSTANTS MaxPriority, MaxNonterminal, MaxNofProductions, MaxTerminal, MaxProductionLength

VARIABLES tokens, next,   \* the grammar and the index of the next token
          state,          \* state of the parser, result: the error or "ok" when it has ended
          cur, def, result

grammarVars == <<tokens, next, state, cur, def, result>>

TokenTypes == {"IDENT", "NUMBER", "PRIORITY", "DQSTRING", "SQSTRING", "PERCENT", "SLASH", "EQUAL", "ARROW",
               "DDOT", "SEMICOLON", "EPSILON", "CALL", "OPENCURLYBRK", "CLOSECURLYBRK", "COMMA",
               "OPENBRK", "CLOSEBRK", "OR", "STEP", "SCOPE", "ERROR"}
Tokens == [t : TokenTypes, v : DOMAIN Spelling, num : Int, assoc : {"none", "left", "right"}]
Strings == {"DQSTRING", "SQSTRING"}
Flags == [STEP |-> "step", SCOPE |-> "scope"]

NoPriority == [value |-> 0, assoc |-> "none"]
NoCall == [function |-> Empty, arg |-> <<>>, argtype |-> "NoArg"]
NoRule == [rulename |-> Empty, pattern |-> Empty, select |-> 0, cmdname |-> Empty, cmdargs |-> <<>>,
           priority |-> NoPriority, call |-> NoCall]
EmptyDef == [language |-> Empty, typesystem |-> Empty, cmdline |-> Empty, lexer |-> EmptyLexer,
             prodlist |-> <<>>, nonterminals |-> <<>>, calls |-> <<>>]

\* The states that accept a token of a type, and the state that follows
Moves ==
    {<<"IDENT", "Init", "ProductionAttributes">>, <<"IDENT", "ProductionElement", "ProductionElement">>,
     <<"IDENT", "CallName", "CallArg">>, <<"IDENT", "CallArg", "CallClose">>,
     <<"IDENT", "MemberValue", "MemberDelim">>, <<"IDENT", "MemberName", "MemberEquals">>,
     <<"IDENT", "LexerCommand", "LexerCommandArg">>, <<"IDENT", "LexerCommandArg", "LexerCommandArg">>,
     <<"IDENT", "Priority", "Assign">>,
     <<"CALL", "CallName", "CallArg">>, <<"CALL", "CallArg", "CallClose">>,
     <<"OPENBRK", "ProductionElement", "CallName">>, <<"OPENBRK", "Call", "CallName">>,
     <<"CLOSEBRK", "CallArg", "EndOfProduction">>, <<"CLOSEBRK", "CallClose", "EndOfProduction">>,
     <<"CLOSEBRK", "CallName", "EndOfProduction">>,
     <<"STEP", "CallName", "CallName">>, <<"SCOPE", "CallName", "CallName">>,
     <<"PRIORITY", "Priority", "Assign">>, <<"NUMBER", "Priority", "Assign">>,
     <<"NUMBER", "PatternSelect", "EndOfLexemDef">>, <<"NUMBER", "CallArg", "CallClose">>,
     <<"NUMBER", "MemberValue", "MemberDelim">>, <<"NUMBER", "LexerCommandArg", "LexerCommandArg">>,
     <<"OPENCURLYBRK", "CallArg", "MemberName">>, <<"CLOSECURLYBRK", "MemberDelim", "CallClose">>,
     <<"COMMA", "MemberDelim", "MemberName">>, <<"EQUAL", "MemberEquals", "MemberValue">>,
     <<"EPSILON", "ProductionElement", "Call">>, <<"PERCENT", "Init", "LexerCommand">>,
     <<"SLASH", "ProductionAttributes", "Priority">>, <<"DDOT", "ProductionAttributes", "Pattern">>}
    \cup {<<s, "Pattern", "PatternSelect">> : s \in Strings}
    \cup {<<s, "LexerCommandArg", "LexerCommandArg">> : s \in Strings}
    \cup {<<s, "ProductionElement", "ProductionElement">> : s \in Strings}
    \cup {<<s, "CallArg", "CallClose">> : s \in Strings}
    \cup {<<s, "MemberValue", "MemberDelim">> : s \in Strings}
    \cup {<<a, s, "ProductionElement">> : a \in {"EQUAL", "ARROW"}, s \in {"ProductionAttributes", "Assign"}}
    \cup {<<"OR", s, "ProductionElement">> : s \in {"ProductionElement", "EndOfProduction", "Call"}}
    \cup {<<"SEMICOLON", s, "Init">> : s \in {"LexerCommandArg", "PatternSelect", "EndOfLexemDef",
                                             "ProductionElement", "EndOfProduction", "Call"}}

Tok == tokens[next]
Reading == result = "none" /\ next <= Len(tokens)

\* The token is one of these, in this state, and is taken
Takes(types, from) ==
    /\ Reading
    /\ Tok.t \in types
    /\ state \in from
    /\ \E m \in Moves : m[1] = Tok.t /\ m[2] = state /\ state' = m[3]
    /\ next' = next + 1
    /\ UNCHANGED <<tokens, result>>

Throw(reason) ==
    /\ result' = reason
    /\ UNCHANGED <<tokens, next, state, cur, def>>

\* Changes of the production read last
LastProduction == Last(def.prodlist)
WithField(production, field, value) == [production EXCEPT ![field] = value]
SetLast(field, value) == [def EXCEPT !.prodlist[Len(def.prodlist)] = WithField(@, field, value)]

-----------------------------------------------------------------------------
(* Rules *)

StartRule ==
    /\ Takes({"IDENT"}, {"Init"})
    /\ cur' = [cur EXCEPT !.rulename = Tok.v, !.pattern = Empty, !.select = 0,
                          !.priority = NoPriority, !.call = NoCall]
    /\ UNCHANGED def

Slash == Takes({"SLASH"}, {"ProductionAttributes"}) /\ UNCHANGED <<cur, def>>

\* The value of a priority is stored in 16 bits before it is compared with its maximum
Short(n) == ((n + 32768) % 65536) - 32768
IsNumber == Tok.num >= 0
PriorityTokens == {"IDENT", "PRIORITY", "NUMBER"}

SetPriority ==
    /\ Takes(PriorityTokens, {"Priority"})
    /\ IsNumber
    /\ Short(Tok.num) < MaxPriority
    /\ cur' = [cur EXCEPT !.priority = [value |-> Short(Tok.num), assoc |-> Tok.assoc]]
    /\ UNCHANGED def

BadPriority ==
    /\ Reading
    /\ Tok.t \in PriorityTokens
    /\ state = "Priority"
    /\ \/ ~ IsNumber /\ Throw("UnexpectedToken")
       \/ IsNumber /\ Short(Tok.num) >= MaxPriority /\ Throw("ComplexityMaxProductionPriority")

NewProduction ==
    [left |-> cur.rulename, right |-> <<>>, priority |-> cur.priority, callidx |-> 0, scope |-> "none"]

StartProduction ==
    /\ Takes({"EQUAL", "ARROW"}, {"ProductionAttributes", "Assign"})
    /\ def' = [def EXCEPT !.prodlist = Append(@, NewProduction),
                          !.nonterminals = IF Contains(@, cur.rulename) THEN @ ELSE Append(@, cur.rulename)]
    /\ UNCHANGED cur

(* Mutant: the variables of the call are not cleared.                      *)
AlternativeKeepsCall ==
    /\ Takes({"OR"}, {"ProductionElement", "EndOfProduction", "Call"})
    /\ def' = [def EXCEPT !.prodlist = Append(@, NewProduction)]
    /\ UNCHANGED cur

\* "|" begins another production with the same head and priority
Alternative ==
    /\ Takes({"OR"}, {"ProductionElement", "EndOfProduction", "Call"})
    /\ def' = [def EXCEPT !.prodlist = Append(@, NewProduction)]
    /\ cur' = [cur EXCEPT !.call = NoCall]

Element(name, symbol) == [name |-> name, symbol |-> symbol]
AddElement(d, e) == [d EXCEPT !.prodlist[Len(d.prodlist)].right = Append(@, e)]

AddSymbol ==
    /\ Takes({"IDENT"}, {"ProductionElement"})
    /\ def' = AddElement(def, Element(Tok.v, TRUE))
    /\ UNCHANGED cur

\* A string is a keyword from here on, unless there is a lexem with this name
AddString ==
    /\ Takes(Strings, {"ProductionElement"})
    /\ def' = AddElement([def EXCEPT !.lexer = IF LexemId(@, Tok.v) = 0 THEN defineKeyword(@, Tok.v) ELSE @],
                         Element(Tok.v, FALSE))
    /\ UNCHANGED cur

Epsilon ==
    /\ Takes({"EPSILON"}, {"ProductionElement"})
    /\ LastProduction.right = <<>>
    /\ UNCHANGED <<cur, def>>

EndProduction ==
    /\ Takes({"SEMICOLON"}, {"ProductionElement", "EndOfProduction", "Call"})
    /\ UNCHANGED <<cur, def>>

-----------------------------------------------------------------------------
(* Attributes of a production: scope or step, function and argument *)

OpenCall == Takes({"OPENBRK"}, {"ProductionElement", "Call"}) /\ UNCHANGED <<cur, def>>

SetScope ==
    /\ Takes({"STEP", "SCOPE"}, {"CallName"})
    /\ LastProduction.scope = "none"
    /\ def' = SetLast("scope", Flags[Tok.t])
    /\ UNCHANGED cur

DuplicateScope ==
    /\ Reading
    /\ Tok.t \in {"STEP", "SCOPE"}
    /\ state = "CallName"
    /\ LastProduction.scope # "none"
    /\ Throw("DuplicateScope")

CallName ==
    /\ Takes({"IDENT", "CALL"}, {"CallName"})
    /\ cur' = [cur EXCEPT !.call.function = Tok.v]
    /\ UNCHANGED def

CallArg ==
    /\ Takes({"IDENT", "CALL", "NUMBER", "OPENCURLYBRK"} \cup Strings, {"CallArg"})
    /\ cur' = [cur EXCEPT !.call.arg = <<Tok.v>>,
                          !.call.argtype = IF Tok.t \in Strings THEN "StringArg" ELSE "ReferenceArg"]
    /\ UNCHANGED def

\* A structure is put together from its names and values; strings keep their quotes
Piece(token) == IF token.t \in Strings THEN <<token.t, token.v>> ELSE <<token.v>>
CallArgMember ==
    /\ \/ Takes({"IDENT"}, {"MemberName"})
       \/ Takes({"EQUAL"}, {"MemberEquals"})
       \/ Takes({"IDENT", "NUMBER"} \cup Strings, {"MemberValue"})
       \/ Takes({"COMMA", "CLOSECURLYBRK"}, {"MemberDelim"})
    /\ cur' = [cur EXCEPT !.call.arg = @ \o Piece(Tok)]
    /\ UNCHANGED def

CloseCall ==
    /\ Takes({"CLOSEBRK"}, {"CallArg", "CallClose"})
    /\ def' = LET calls == IF Contains(def.calls, cur.call) THEN def.calls ELSE Append(def.calls, cur.call)
              IN  [SetLast("callidx", CHOOSE k \in DOMAIN calls : calls[k] = cur.call)
                      EXCEPT !.calls = calls]
    /\ UNCHANGED cur

CloseNoCall == Takes({"CLOSEBRK"}, {"CallName"}) /\ UNCHANGED <<cur, def>>

-----------------------------------------------------------------------------
(* Lexems and commands *)

StartPattern == Takes({"DDOT"}, {"ProductionAttributes"}) /\ UNCHANGED <<cur, def>>

SetPattern ==
    /\ Takes(Strings, {"Pattern"})
    /\ cur' = [cur EXCEPT !.pattern = Tok.v]
    /\ UNCHANGED def

SetPatternSelect ==
    /\ Takes({"NUMBER"}, {"PatternSelect"})
    /\ cur' = [cur EXCEPT !.select = Tok.num]
    /\ UNCHANGED def

StartCommand ==
    /\ Takes({"PERCENT"}, {"Init"})
    /\ cur' = [cur EXCEPT !.cmdname = Empty, !.cmdargs = <<>>]
    /\ UNCHANGED def

CommandName ==
    /\ Takes({"IDENT"}, {"LexerCommand"})
    /\ cur' = [cur EXCEPT !.cmdname = Tok.v]
    /\ UNCHANGED def

CommandArg ==
    /\ Takes({"IDENT", "NUMBER"} \cup Strings, {"LexerCommandArg"})
    /\ cur' = [cur EXCEPT !.cmdargs = Append(@, Tok)]
    /\ UNCHANGED def

CommandArity == [LANGUAGE |-> {1}, TYPESYSTEM |-> {1}, CMDLINE |-> {1}, IGNORE |-> {1}, BAD |-> {1},
                 COMMENT |-> {1, 2}, INDENTL |-> {4}]

Args(k) == cur.cmdargs[k].v
CommandDef ==
    LET lx == def.lexer
    IN  CASE cur.cmdname = "LANGUAGE"   -> [def EXCEPT !.language = Args(1)]
          [] cur.cmdname = "TYPESYSTEM" -> [def EXCEPT !.typesystem = Args(1)]
          [] cur.cmdname = "CMDLINE"    -> [def EXCEPT !.cmdline = Args(1)]
          [] cur.cmdname = "IGNORE"     -> [def EXCEPT !.lexer = defineIgnore(lx, Args(1))]
          [] cur.cmdname = "BAD"        -> [def EXCEPT !.lexer = defineBadLexem(lx, Args(1))]
          [] cur.cmdname = "COMMENT"    -> [def EXCEPT !.lexer =
                IF Len(cur.cmdargs) = 1 THEN defineEolnComment(lx, Args(1))
                                        ELSE defineBracketComment(lx, Args(1), Args(2))]
          [] cur.cmdname = "INDENTL"    -> [def EXCEPT !.lexer =
                defineIndentLexems(lx, Args(1), Args(2), Args(3), cur.cmdargs[4].num)]

CommandError ==
    CASE cur.cmdname \notin DOMAIN CommandArity                      -> "CommandNameUnknown"
      [] Len(cur.cmdargs) \notin CommandArity[cur.cmdname]           -> "CommandNumberOfArguments"
      [] cur.cmdname = "INDENTL" /\ cur.cmdargs[4].num < 0           -> "UnexpectedToken"
      [] OTHER                                                       -> CommandDef.lexer.error

LexemDef ==
    [def EXCEPT !.lexer = defineLexem(@, cur.rulename, cur.pattern, IF state = "EndOfLexemDef" THEN cur.select ELSE 0)]

EndCommand ==
    /\ Takes({"SEMICOLON"}, {"LexerCommandArg"})
    /\ CommandError = "none"
    /\ def' = CommandDef
    /\ UNCHANGED cur

EndLexem ==
    /\ Takes({"SEMICOLON"}, {"PatternSelect", "EndOfLexemDef"})
    /\ LexemDef.lexer.error = "none"
    /\ def' = LexemDef
    /\ UNCHANGED cur

BadCommandOrLexem ==
    /\ Reading
    /\ Tok.t = "SEMICOLON"
    /\ \/ state = "LexerCommandArg" /\ CommandError # "none" /\ Throw(CommandError)
       \/ state \in {"PatternSelect", "EndOfLexemDef"} /\ LexemDef.lexer.error # "none"
          /\ Throw(LexemDef.lexer.error)

-----------------------------------------------------------------------------
(* Tokens that are not accepted, and the end *)

TokenError ==
    CASE Tok.t = "ERROR"                                       -> "BadCharacter"
      [] Tok.t = "OPENCURLYBRK" /\ state = "MemberValue"       -> "NestedCallArgumentStructure"
      [] Tok.t = "DDOT" /\ state = "Assign"                    -> "PriorityDefNotForLexems"
      [] Tok.t = "SEMICOLON"                                   -> "UnexpectedEndOfRule"
      [] OTHER                                                 -> "UnexpectedToken"

UnexpectedToken ==
    /\ Reading
    /\ \/ ~ \E m \in Moves : m[1] = Tok.t /\ m[2] = state
       \/ Tok.t = "EPSILON" /\ state = "ProductionElement" /\ LastProduction.right # <<>>
    /\ Throw(TokenError)

\* What the labelling finds for an element, in the order of the tests
NonterminalId(name) ==
    IF Contains(def.nonterminals, name)
    THEN CHOOSE k \in DOMAIN def.nonterminals : def.nonterminals[k] = name ELSE 0

ElementErrors(prod) ==
    LET errorOf(name) ==
            CASE NonterminalId(name) = 0 /\ LexemId(def.lexer, name) = 0 -> <<"UnresolvedIdentifier">>
              [] NonterminalId(name) # 0 /\ LexemId(def.lexer, name) # 0 -> <<"DefinedAsTerminalAndNonterminal">>
              [] OTHER                                                   -> <<>>
    IN  (IF LexemId(def.lexer, prod.left) # 0 THEN <<"DefinedAsTerminalAndNonterminal">> ELSE <<>>)
        \o Concat([k \in DOMAIN prod.right |-> errorOf(prod.right[k].name)])

LabelErrors == Concat([k \in DOMAIN def.prodlist |-> ElementErrors(def.prodlist[k])])

Used(name) == \E p \in ToSet(def.prodlist) : \E e \in ToSet(p.right) : e.name = name
Start == def.nonterminals[1]
Heads == {p.left : p \in ToSet(def.prodlist)}
\* Productions are compared as they are printed: with the priority, and strings are not names
Printed(p) == <<p.left, p.priority, p.right>>

StartDefinedTwice ==
    \E i, j \in DOMAIN def.prodlist : i # j /\ def.prodlist[i].left = Start /\ def.prodlist[j].left = Start
PrintedTwice ==
    \E i, j \in DOMAIN def.prodlist : i # j /\ Printed(def.prodlist[i]) = Printed(def.prodlist[j])

\* The tests at the end of parseLanguageDef
LanguageError ==
    CASE state # "Init"                                    -> "UnexpectedEof"
      [] LabelErrors # <<>>                                -> LabelErrors[1]
      [] def.prodlist = <<>>                               -> "EmptyGrammar"
      [] Used(Start)                                       -> "StartSymbolReferenced"
      [] \E n \in Heads \ {Start} : ~ Used(n)              -> "UnreachableNonTerminal"
      [] StartDefinedTwice                                 -> "StartSymbolDefinedTwice"
      [] Len(def.nonterminals) >= MaxNonterminal           -> "ComplexityMaxNonterminal"
      [] PrintedTwice                                      -> "DuplicateProduction"
      [] OTHER                                             -> "ok"

\* The limits of the tables, before Automaton::build begins
ComplexityError ==
    CASE Len(def.prodlist) >= MaxNofProductions            -> "ComplexityMaxState"
      [] Len(def.lexer.names) >= MaxTerminal               -> "ComplexityMaxTerminal"
      [] \E p \in ToSet(def.prodlist) : Len(p.right) >= MaxProductionLength
                                                           -> "ComplexityMaxProductionLength"
      [] \E p \in ToSet(def.prodlist) : p.priority.value < 0 \/ p.priority.value >= MaxPriority
                                                           -> "ComplexityMaxProductionPriority"
      [] OTHER                                             -> "ok"

GrammarError == IF LanguageError = "ok" THEN ComplexityError ELSE LanguageError

EndOfGrammar ==
    /\ result = "none"
    /\ next > Len(tokens)
    /\ Throw(GrammarError)

-----------------------------------------------------------------------------
GrammarInit(sources) ==
    /\ tokens \in sources
    /\ next = 1
    /\ state = "Init"
    /\ cur = NoRule
    /\ def = EmptyDef
    /\ result = "none"

ReadToken ==
    \/ StartRule \/ Slash \/ SetPriority \/ BadPriority \/ StartProduction \/ Alternative
    \/ AddSymbol \/ AddString \/ Epsilon \/ EndProduction
    \/ OpenCall \/ SetScope \/ DuplicateScope \/ CallName \/ CallArg \/ CallArgMember \/ CloseCall \/ CloseNoCall
    \/ StartPattern \/ SetPattern \/ SetPatternSelect \/ StartCommand \/ CommandName \/ CommandArg
    \/ EndCommand \/ EndLexem \/ BadCommandOrLexem \/ UnexpectedToken

GrammarNext == ReadToken \/ EndOfGrammar
============================================================================
