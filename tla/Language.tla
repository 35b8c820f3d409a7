------------------------------ MODULE Language ------------------------------
(***************************************************************************)
(* From a grammar to the lexems of a text: parseLanguageDef defines the    *)
(* lexer while it reads the grammar, the definitions are written to the    *)
(* table of the compiler next to an action table that knows terminals and  *)
(* calls by their numbers only, the compiler defines its lexer and list of *)
(* calls again from the table and scans a text with it.                    *)
(***************************************************************************)
EXTENDS GrammarParser, Lexer, CallTable

CONSTANTS Sources,      \* grammars, as sequences of tokens
          Texts,        \* what a compiler is run with
          LoadOrders,   \* orders of the lists of a table when it is read
          MaxSpans      \* bound for lexers that return lexems for ever

ASSUME LoadOrdersAssumption == LoadOrders \subseteq ClassOrders
ASSUME SourcesAssumption == Sources \subseteq Seq(Tokens)
ASSUME TextsAssumption == Texts \subseteq Seq(Chars)
\* The pattern of a keyword is its characters: the first of them activates it
ASSUME KeywordsAssumption ==
    \A t \in Texts, name \in DOMAIN Spelling : \A p \in 1..Len(t) :
        MatchEnds(Literal(name), t, p) \subseteq {p} \/ t[p] \in Activation(Literal(name))

\* Sets that may be left out, then a set or a character that may not; only the first can be negated
BeginsPlain(regex) ==
    /\ Len(regex) = 1
    /\ \E k \in DOMAIN regex[1] :
          /\ regex[1][k].kind \in {"set", "char"} /\ regex[1][k].mult \in {"one", "some"}
          /\ \A j \in 1..(k - 1) : regex[1][j].kind = "set" /\ regex[1][j].mult = "many"
          /\ \A j \in 2..k : ~ regex[1][j].neg

\* Such a pattern is activated by all characters its matches begin with, blanks aside
ASSUME ActivationAssumption ==
    \A t \in Texts, regex \in {RegexOf[s] : s \in DOMAIN RegexOf} \cup {Literal(name) : name \in DOMAIN Spelling} :
      \A p \in 1..Len(t) :
        BeginsPlain(regex) /\ t[p] \notin Blanks =>
            MatchEnds(regex, t, p) \subseteq {p} \/ t[p] \in Activation(regex)

VARIABLES phase,        \* "grammar", "compiler", or "refused" when the table could not be loaded
          calls         \* the calls of the compiler

vars == <<grammarVars, lexerVars, phase, calls>>

ReadGrammar ==
    /\ phase = "grammar"
    /\ GrammarNext
    /\ UNCHANGED <<lexerVars, phase, calls>>

LoadCompiler ==
    /\ phase = "grammar"
    /\ result = "ok"
    /\ \E order \in LoadOrders : lexer' = LoadLexer(LexerTable(def.lexer), order)
    /\ \E t \in Texts :
          /\ text' = t
          /\ pos' = SkipBlanks(t, 1)
    /\ LET rows == CallTable(def.calls)
       IN  /\ phase' = IF lexer'.error = "none" /\ IsLoadable(rows) THEN "compiler" ELSE "refused"
           /\ calls' = IF phase' = "compiler" THEN parseCallList(rows) ELSE <<>>
    /\ UNCHANGED <<grammarVars, indentstk, indentConsumed, spans, scanned>>

ScanText ==
    /\ phase = "compiler"
    /\ Len(spans) < MaxSpans
    /\ NextLexem
    /\ UNCHANGED <<grammarVars, phase, calls>>

Init ==
    /\ GrammarInit(Sources)
    /\ lexer = EmptyLexer
    /\ ScanFrom(<<>>)
    /\ phase = "grammar"
    /\ calls = <<>>

Next == ReadGrammar \/ LoadCompiler \/ ScanText

\* The scanner is called until the end of the text
Spec == Init /\ [][Next]_vars /\ WF_vars(ScanText)

-----------------------------------------------------------------------------
(* What is accepted, read off the tokens without a state                   *)

Bracketed(i) ==
    \E j \in 1..(i - 1) : /\ tokens[j].t = "OPENBRK"
                          /\ \A k \in j..(i - 1) : tokens[k].t # "CLOSEBRK"
StartsProduction(i) ==
    tokens[i].t = "OR" \/ (tokens[i].t \in {"EQUAL", "ARROW"} /\ ~ Bracketed(i))

Least(S) == CHOOSE i \in S : \A j \in S : i <= j
Greatest(S) == CHOOSE i \in S : \A j \in S : i >= j
TokensAt(S) == LET at == Ordered(S) IN [k \in DOMAIN at |-> tokens[at[k]]]

RuleStart(i) == Greatest({j \in 1..i : j = 1 \/ tokens[j - 1].t = "SEMICOLON"})
WrittenPriority(i) ==
    LET r == RuleStart(i)
    IN  IF tokens[r + 1].t = "SLASH" THEN [value |-> tokens[r + 2].num, assoc |-> tokens[r + 2].assoc]
                                     ELSE NoPriority

\* The tokens of the production that starts at i, without those in brackets or only those
Body(i) ==
    LET end == Least({j \in (i + 1)..Len(tokens) : tokens[j].t \in {"OR", "SEMICOLON"}})
    IN  (i + 1)..(end - 1)
Elements(i) == TokensAt({j \in Body(i) : ~ Bracketed(j) /\ tokens[j].t \in {"IDENT"} \cup Strings})
Attributes(i) == TokensAt({j \in Body(i) : Bracketed(j) /\ tokens[j].t \notin {"STEP", "SCOPE", "CLOSEBRK"}})
FlagsAt(i) == TokensAt({j \in Body(i) : tokens[j].t \in {"STEP", "SCOPE"}})

Written(i) ==
    [left     |-> tokens[RuleStart(i)].v,
     right    |-> [k \in DOMAIN Elements(i) |-> Element(Elements(i)[k].v, Elements(i)[k].t = "IDENT")],
     priority |-> WrittenPriority(i),
     scope    |-> IF FlagsAt(i) = <<>> THEN "none" ELSE Flags[FlagsAt(i)[1].t],
     call     |-> LET a == Attributes(i)
                  IN  IF a = <<>> THEN NoCall
                      ELSE [function |-> a[1].v,
                            arg      |-> IF Len(a) = 2 THEN <<a[2].v>> ELSE Concat([k \in DOMAIN Tail(a) |-> Piece(a[k + 1])]),
                            argtype  |-> CASE Len(a) = 1 -> "NoArg"
                                           [] Len(a) = 2 /\ a[2].t \in Strings -> "StringArg"
                                           [] OTHER -> "ReferenceArg"]]

Read(p) ==
    [left |-> p.left, right |-> p.right, priority |-> p.priority, scope |-> p.scope,
     call |-> IF p.callidx = 0 THEN NoCall ELSE def.calls[p.callidx]]

Patterns == {i \in DOMAIN tokens : tokens[i].t = "DDOT"}
WrittenPattern(i) ==
    [name |-> tokens[i - 1].v, source |-> tokens[i + 1].v,
     select |-> IF tokens[i + 2].t = "NUMBER" THEN tokens[i + 2].num ELSE 0]
ReadPatterns(lx) == SelectSeq(lx.defs, LAMBDA d : d.source # Empty /\ d.name # Empty)

\* Bigger numbers lose their upper bits (see README)
PrioritiesInRange == \A i \in DOMAIN tokens : tokens[i].num < 32768

(***************************************************************************)
(* An accepted grammar is read as it is written: every production has its  *)
(* own head, elements, priority, scope flag and call, whatever came before *)
(* it in the loop; calls are shared between productions only if they are   *)
(* the same, and every lexem has its own pattern and selection.            *)
(***************************************************************************)
AcceptedAsWritten ==
    phase = "grammar" /\ result = "ok" /\ PrioritiesInRange =>
        LET starts == Ordered({i \in DOMAIN tokens : StartsProduction(i)})
            lexems == Ordered(Patterns)
        IN  /\ [k \in DOMAIN def.prodlist |-> Read(def.prodlist[k])] = [k \in DOMAIN starts |-> Written(starts[k])]
            /\ IsInjective(def.calls)
            /\ LET read == ReadPatterns(def.lexer)
               IN  [k \in DOMAIN read |-> [name |-> read[k].name, source |-> read[k].source, select |-> read[k].select]]
                      = [k \in DOMAIN lexems |-> WrittenPattern(lexems[k])]

(***************************************************************************)
(* The action table refers to terminals and calls by number.  The compiler *)
(* has the same numbers for the same names, and it can be loaded exactly   *)
(* if the type system has the functions and the arguments of the calls, if *)
(* in the grammar no lexem and no indentation is defined after the first   *)
(* string of a production (keywords are loaded last).  Only a reference to *)
(* a string has become a string.  The patterns of the lexems are the same, *)
(* in the same order and with the same selection.                          *)
(***************************************************************************)
KeywordsLast ==
    \A i, j \in DOMAIN def.lexer.defs :
        i < j /\ def.lexer.defs[i].keyword => def.lexer.defs[j].keyword \/ IsIgnored(def.lexer.defs[j])

Defined(i) == tokens[i].v \in DOMAIN TypeSystem
TypeSystemComplete ==
    \A i \in DOMAIN tokens :
        /\ tokens[i].t \in {"IDENT", "CALL"} /\ Bracketed(i) =>
              \/ Defined(i)
              \/ \E j \in 1..i : tokens[j].t = "OPENCURLYBRK" /\ \A k \in j..i : tokens[k].t # "CLOSECURLYBRK"
        /\ tokens[i].t \in {"IDENT", "CALL"} /\ Bracketed(i) /\ tokens[i - 1].t \in {"OPENBRK", "STEP", "SCOPE"} =>
              TypeSystem[tokens[i].v] = "function"

LoadedNumbersAgree ==
    phase # "grammar" /\ KeywordsLast =>
        /\ phase = "compiler" <=> TypeSystemComplete
        /\ phase = "compiler" =>
              /\ lexer.names = def.lexer.names
              /\ lexer.indentLexems = def.lexer.indentLexems
              /\ ReadPatterns(lexer) = ReadPatterns(def.lexer)
              /\ [k \in DOMAIN calls |-> <<calls[k].function, calls[k].arg>>]
                    = [k \in DOMAIN def.calls |-> <<def.calls[k].function, def.calls[k].arg>>]
              /\ \A k \in DOMAIN calls :
                    calls[k].argtype # def.calls[k].argtype =>
                        def.calls[k].argtype = "ReferenceArg" /\ TypeSystem[Head(calls[k].arg)] = "string"

-----------------------------------------------------------------------------
(* What is returned for a text                                             *)

CommentAt(p) ==
    \/ \E o \in ToSet(lexer.eolnComments) : Matches(text, p, Spelling[o])
    \/ \E b \in ToSet(lexer.bracketComments) : Matches(text, p, Spelling[b.open])

LastSpan == IF spans = <<>> THEN {} ELSE {Last(spans)}

MatchingAt(p) == {i \in DOMAIN lexer.defs : lexer.defs[i].regex # <<>> /\ MatchLength(lexer.defs[i], text, p) > 0}
\* Definitions that match, but the character is not among those found for their patterns (see README)
Missed(p) ==
    {i \in MatchingAt(p) : ~ lexer.defs[i].keyword /\ text[p] \notin Activation(lexer.defs[i].regex)}
TriedAt(p) == MatchingAt(p) \ Missed(p)

\* Of two matches as long the keyword is taken, else the one declared first
Precedes(i, j) ==
    IF lexer.defs[j].keyword THEN lexer.defs[i].keyword /\ j <= i ELSE lexer.defs[i].keyword \/ i <= j

(***************************************************************************)
(* A lexem returned is that of a match at its place, the longest of those  *)
(* that are tried: all that match, without those whose pattern is not      *)
(* known to begin with the character found there.  No pattern that begins  *)
(* plainly is passed over like this, and no keyword.  Among the longest    *)
(* the keyword is taken, else the one declared first.  A comment wins over *)
(* any lexem, and an error is returned where nothing that is tried matches *)
(* or where a comment has no end.  (Keywords returned without a match: see *)
(* TextIsRead.)                                                            *)
(***************************************************************************)
LexemChosen ==
    \A s \in LastSpan :
        LET length(i) == MatchLength(lexer.defs[i], text, s.from)
        IN  /\ s.kind = "lexem" /\ s.to > s.from =>
                  /\ ~ CommentAt(s.from)
                  /\ \A i \in TriedAt(s.from) : length(i) <= s.to - s.from
                  /\ \E i \in DOMAIN lexer.defs :
                        /\ lexer.defs[i].id = s.id
                        /\ length(i) = s.to - s.from
                        /\ \A j \in TriedAt(s.from) : length(j) = length(i) => Precedes(i, j)
            /\ s.kind = "error" => CommentAt(s.from) \/ TriedAt(s.from) = {}
            /\ s.kind \in {"lexem", "error"} =>
                  \A i \in Missed(s.from) : ~ BeginsPlain(lexer.defs[i].regex)

SpansEnd(k) == IF k = 0 THEN 1 ELSE spans[k].to
OnlyBlanks(p, q) == p <= q /\ \A j \in p..(q - 1) : text[j] \in Blanks

\* An end of line comment without an end of line hides the rest of the text
LastLineComment ==
    /\ scanned
    /\ \E o \in ToSet(lexer.eolnComments) :
          LET q == pos - Len(Spelling[o])
          IN  q >= SpansEnd(Len(spans)) /\ OnlyBlanks(SpansEnd(Len(spans)), q) /\ Matches(text, q, Spelling[o])

(***************************************************************************)
(* Nothing is lost or read twice: what was returned or skipped follows in  *)
(* the order of the text, and only blanks are between.                     *)
(***************************************************************************)
NothingLost ==
    phase = "compiler" =>
        /\ spans # <<>> => OnlyBlanks(SpansEnd(Len(spans) - 1), Last(spans).from)
        /\ OnlyBlanks(SpansEnd(Len(spans)), pos) \/ LastLineComment

(***************************************************************************)
(* Indentation: the first lexem of a line follows a newLine.  Lines with   *)
(* the same column are at the same depth of open blocks as long as no line *)
(* between them has a smaller column.  All blocks are closed at the end of *)
(* a text that does not end in a line comment.  A line begins with its     *)
(* first lexem if nothing but blanks is before it: what stands behind a    *)
(* bracket comment is not the beginning of a line for getIndentToken.      *)
(***************************************************************************)
Column(k) == indentCount(text, spans[k].from, lexer.indentLexems.tabSize)
Depth(k) ==
    LET count(kind) == Cardinality({j \in 1..(k - 1) : spans[j].kind = kind})
    IN  count("open") - count("close")
FirstOfLine == {k \in DOMAIN spans : spans[k].kind = "lexem" /\ Column(k) >= 0}

IndentationBlocks ==
    lexer.indentLexems.open # 0 =>
        /\ \A k \in FirstOfLine : k > 1 /\ spans[k - 1].kind = "newLine" /\ spans[k - 1].from = spans[k].from
        /\ \A j, k \in FirstOfLine :
              j < k /\ Column(j) = Column(k) /\ (\A i \in FirstOfLine : i \in j..k => Column(i) >= Column(j))
                 => Depth(j) = Depth(k)
        /\ \A k \in FirstOfLine : Depth(k) >= 0 /\ (Depth(k) = 0 <=> Column(k) = 0)
        /\ scanned /\ ~ LastLineComment => Depth(Len(spans) + 1) = 0

\* The same lexem again for ever: an element to ignore, or a keyword that does not match
Endless ==
    /\ pos <= Len(text)
    /\ CommentEntry = 0
    /\ Best.idx # 0
    /\ Best.len = 0 \/ lexer.defs[Best.idx].id = 0

(***************************************************************************)
(* The scanner reaches the end of the text, or a place where it stays.      *)
(***************************************************************************)
ScanEnds == (phase = "compiler") ~> (scanned \/ Endless)

(***************************************************************************)
(* What doc/grammar.md says: elements to ignore are invisible, and a lexem *)
(* returned is a match.  Then every text is read to its end.               *)
(***************************************************************************)
TextIsRead == (phase = "compiler") ~> scanned

TypeOK ==
    /\ phase \in {"grammar", "compiler", "refused"}
    /\ pos \in 1..(Len(text) + 1)
    /\ \A k \in 1..Len(indentstk) : indentstk[k] > (IF k = 1 THEN 0 ELSE indentstk[k - 1])
    /\ lexer.keywords \subseteq DOMAIN lexer.names
    /\ \A d \in ToSet(def.lexer.defs) : d.id \in 0..Len(def.lexer.names)
    /\ \A p \in ToSet(def.prodlist) : p.callidx \in 0..Len(def.calls)
============================================================================
