----------------------------- MODULE LexerDefs -----------------------------
(***************************************************************************)
(* The definitions of a lexer (src/lexer.cpp): patterns and the characters *)
(* that activate them, names and their numbers, and the form in which the  *)
(* definitions are written to the table of a compiler and read from it     *)
(* (src/automaton_tostring.cpp, src/lua_load_automaton.cpp).               *)
(*                                                                         *)
(* A text is a sequence of characters.  A name is a value; Spelling gives  *)
(* the characters of names that occur in a text.  RegexOf gives what a     *)
(* pattern is after parsing: a sequence of alternatives, each a sequence   *)
(* of parts.  A part is a set of characters (negated or not), a single     *)
(* character, the end of the text or a group of alternatives, with a       *)
(* multiplicator.  How it is matched and by what it is activated is in     *)
(* Patterns.                                                               *)
(***************************************************************************)
EXTENDS Integers, Sequences, FiniteSets, SequencesExt

CONSTANTS Chars, Spelling, RegexOf,
          MatchEnds(_, _, _),   \* where the matches of a regex in a text end that begin at a place
          Activation(_)         \* the characters that activate a regex

Blanks == {" ", "\t", "\n"}

ASSUME CharsAssumption ==
    /\ Blanks \subseteq Chars
    /\ \A n \in DOMAIN Spelling : Spelling[n] \in Seq(Chars)

Empty == ""              \* the empty string
EolnEntry == -1         \* entries of firstmap that are no index of a lexem
BracketEntry == -2
NoIndent == [open |-> 0, close |-> 0, newLine |-> 0, tabSize |-> 0]

Char(c) == [kind |-> "char", chars |-> {c}, neg |-> FALSE, alts |-> <<>>, mult |-> "one"]
EndPart == [Char("$") EXCEPT !.kind = "end"]

(***************************************************************************)
(* The pattern of an operator is its characters (stringToRegex).  All that *)
(* have a meaning in a pattern are escaped except "$", which is the end of *)
(* the text there.  In the generator a name is a part of the grammar and   *)
(* the pattern runs on to the end of the grammar; no text is scanned with  *)
(* it, and what activates it is the same.                                  *)
(***************************************************************************)
Literal(name) ==
    << [k \in DOMAIN Spelling[name] |-> IF Spelling[name][k] = "$" THEN EndPart ELSE Char(Spelling[name][k])] >>

Concat(seqs) == FlattenSeq(seqs)

\* A definition that selects a group the pattern has not never matches
Groups(regex) ==
    Len(Concat([a \in DOMAIN regex |-> SelectSeq(regex[a], LAMBDA part : part.kind = "group")]))

\* How many characters a definition matches at p, 0 for no match (match_continuous, match_not_null)
MatchLength(def, text, p) ==
    IF Groups(def.regex) < def.select THEN 0
    ELSE Max({p} \cup {q \in p..(Len(text) + 1) : q \in MatchEnds(def.regex, text, p)}) - p

-----------------------------------------------------------------------------
(* Definitions.  An operation that throws leaves the reason in error.      *)

EmptyLexer ==
    [defs |-> <<>>, firstmap |-> [c \in Chars |-> <<>>], names |-> <<>>, keywords |-> {},
     eolnComments |-> <<>>, bracketComments |-> <<>>, errorLexem |-> "?", indentLexems |-> NoIndent,
     error |-> "none"]

LexemId(lx, name) ==
    IF \E k \in DOMAIN lx.names : lx.names[k] = name
    THEN CHOOSE k \in DOMAIN lx.names : lx.names[k] = name ELSE 0

Failed(lx, reason) == [lx EXCEPT !.error = reason]

EnterFirst(firstmap, chars, idx) ==
    [c \in Chars |-> IF c \in chars THEN Append(firstmap[c], idx) ELSE firstmap[c]]

\* The number of a new lexem: names that are there already share theirs
NumberOf(lx, name) ==
    IF name = Empty THEN 0
    ELSE IF LexemId(lx, name) # 0 THEN LexemId(lx, name) ELSE Len(lx.names) + 1

defineLexem_(lx, name, source, regex, keyword, select) ==
    LET id  == NumberOf(lx, name)
        def == [name |-> name, source |-> source, regex |-> regex, id |-> id,
                keyword |-> keyword /\ name # Empty, select |-> select]
        new == [lx EXCEPT !.defs = Append(@, def),
                          !.names = IF id > Len(@) THEN Append(@, name) ELSE @,
                          !.keywords = IF keyword /\ id > 0 THEN @ \cup {id} ELSE @,
                          !.firstmap = IF regex = <<>> THEN @
                                       ELSE EnterFirst(@, Activation(regex), Len(lx.defs) + 1)]
    IN  IF keyword /\ id \in 1..Len(lx.names) THEN Failed(lx, "KeywordDefinedTwice")
        ELSE IF regex # <<>> /\ Activation(regex) = {} THEN Failed(new, "SyntaxErrorInLexer")
        ELSE new

\* <<>> is the pattern of the empty string
Regex(source) == IF source = Empty THEN <<>> ELSE RegexOf[source]

defineLexem(lx, name, source, select) ==
    IF source # Empty /\ source \notin DOMAIN RegexOf THEN Failed(lx, "InvalidRegexInLexer")
    ELSE defineLexem_(lx, name, source, Regex(source), FALSE, select)

defineKeyword(lx, opr) ==
    defineLexem_(lx, opr, Empty, IF opr = Empty THEN <<>> ELSE Literal(opr), TRUE, 0)

defineIgnore(lx, source) == defineLexem(lx, Empty, source, 0)

\* A lexem that only has a number: the tokens of the indentation
defineLexemId(lx, name) ==
    IF LexemId(lx, name) # 0 THEN Failed(lx, "KeywordDefinedTwice")
    ELSE [lx EXCEPT !.names = Append(@, name),
                    !.defs = Append(@, [name |-> name, source |-> Empty, regex |-> <<>>,
                                        id |-> Len(lx.names) + 1, keyword |-> FALSE, select |-> 0])]

defineIndentLexems(lx, open, close, newLine, tabSize) ==
    LET l1 == defineLexemId(lx, open)
        l2 == defineLexemId(l1, close)
        l3 == defineLexemId(l2, newLine)
    IN  IF lx.indentLexems.open # 0 THEN Failed(lx, "ConflictingCommand")
        ELSE IF l1.error # "none" THEN l1
        ELSE IF l2.error # "none" THEN l2
        ELSE IF l3.error # "none" THEN l3
        ELSE [l3 EXCEPT !.indentLexems =
                 [open |-> LexemId(l3, open), close |-> LexemId(l3, close),
                  newLine |-> LexemId(l3, newLine), tabSize |-> tabSize]]

defineBadLexem(lx, name) == [lx EXCEPT !.errorLexem = name]

defineEolnComment(lx, open) ==
    LET new == [lx EXCEPT !.eolnComments = Append(@, open)]
    IN  IF Spelling[open] = <<>> THEN Failed(new, "SyntaxErrorInLexer")
        ELSE [new EXCEPT !.firstmap = EnterFirst(@, {Spelling[open][1]}, EolnEntry)]

defineBracketComment(lx, open, close) ==
    LET new == [lx EXCEPT !.bracketComments = Append(@, [open |-> open, close |-> close])]
    IN  IF Spelling[open] = <<>> \/ Spelling[close] = <<>> THEN Failed(new, "SyntaxErrorInLexer")
        ELSE [new EXCEPT !.firstmap = EnterFirst(@, {Spelling[open][1]}, BracketEntry)]

-----------------------------------------------------------------------------
(* The table of a generated compiler has one list for every class of       *)
(* definitions (getDefinitions, printLexer).  The tokens of the            *)
(* indentation are among the named patterns, with an empty pattern.        *)

IsIgnored(def) == def.name = Empty
IsNamedPattern(def) == ~ IsIgnored(def) /\ ~ def.keyword

\* The elements of a set of numbers in ascending order
Ordered(S) == [k \in 1..Cardinality(S) |-> CHOOSE i \in S : Cardinality({j \in S : j < i}) = k - 1]

LexerTable(lx) ==
    LET select(S, f) == [k \in DOMAIN Ordered(S) |-> lx.defs[Ordered(S)[k]][f]]
        named == {k \in DOMAIN lx.defs : IsNamedPattern(lx.defs[k])}
    IN  [bad     |-> IF lx.errorLexem = "?" THEN <<>> ELSE <<lx.errorLexem>>,
         token   |-> [k \in DOMAIN Ordered(named) |->
                         LET def == lx.defs[Ordered(named)[k]]
                         IN  [name |-> def.name, source |-> def.source, select |-> def.select]],
         keyword |-> select({k \in DOMAIN lx.defs : lx.defs[k].keyword}, "name"),
         ignore  |-> select({k \in DOMAIN lx.defs : IsIgnored(lx.defs[k])}, "source"),
         bracket |-> lx.bracketComments,
         eoln    |-> lx.eolnComments,
         indentl |-> IF lx.indentLexems.open = 0 THEN <<>>
                     ELSE << [open |-> lx.indentLexems.open, tabSize |-> lx.indentLexems.tabSize] >>]

\* The lists of the table in the order lua_next has them
Classes == {"bad", "token", "ignore", "comment", "indentl"}
ClassOrders == {o \in [1..5 -> Classes] : \A i, j \in 1..5 : i # j => o[i] # o[j]}

Entries(table, list) == [k \in DOMAIN table[list] |-> [list |-> list, value |-> table[list][k]]]
ClassEntries(table, class) ==
    IF class = "comment" THEN Entries(table, "bracket") \o Entries(table, "eoln") ELSE Entries(table, class)
OfClasses(table, o) ==
    ClassEntries(table, o[1]) \o ClassEntries(table, o[2]) \o ClassEntries(table, o[3])
    \o ClassEntries(table, o[4]) \o ClassEntries(table, o[5])

LoadIndent(lx, first, tabSize) ==
    [lx EXCEPT !.indentLexems = [open |-> first, close |-> first + 1, newLine |-> first + 2, tabSize |-> tabSize]]

Define(lx, e) ==
    CASE e.list = "bad"     -> defineBadLexem(lx, e.value)
      [] e.list = "token"   -> defineLexem(lx, e.value.name, e.value.source, e.value.select)
      [] e.list = "ignore"  -> defineIgnore(lx, e.value)
      [] e.list = "bracket" -> defineBracketComment(lx, e.value.open, e.value.close)
      [] e.list = "eoln"    -> defineEolnComment(lx, e.value)
      [] e.list = "indentl" -> LoadIndent(lx, e.value.open, e.value.tabSize)
      [] e.list = "keyword" -> defineKeyword(lx, e.value)

DefineAll(entries) ==
    LET after[k \in 0..Len(entries)] == IF k = 0 THEN EmptyLexer ELSE Define(after[k - 1], entries[k])
    IN  after[Len(entries)]

(* Mutant: the keywords are defined first.                                 *)
LoadLexerKeywordsFirst(table, order) == DefineAll(Entries(table, "keyword") \o OfClasses(table, order))

\* parseLexerDefinitions: the keywords come last wherever their list was
LoadLexer(table, order) == DefineAll(OfClasses(table, order) \o Entries(table, "keyword"))
============================================================================
