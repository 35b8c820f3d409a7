----------------------------- MODULE MCLanguage -----------------------------
(* Grammars, each also with every token dropped or replaced, and texts.    *)
EXTENDS Language, Patterns

MCChars == {"a", "b", "+", ">", "/", "*", "$", " ", "\t", "\n"}

Part(kind, chars, neg, alts, mult) == [kind |-> kind, chars |-> chars, neg |-> neg, alts |-> alts, mult |-> mult]
Class(chars, mult) == Part("set", chars, FALSE, <<>>, mult)
AB == {"a", "b"}
MCRegexOf ==
    ("[ab]+"      :> << <<Class(AB, "some")>> >>)
    @@ ("[a]*[b]" :> << <<Class({"a"}, "many"), Class({"b"}, "one")>> >>)
    @@ ("a*b"     :> << <<[Char("a") EXCEPT !.mult = "many"], Char("b")>> >>)
    @@ ("(a|+)"   :> << <<Part("group", {}, FALSE, << <<Char("a")>>, <<Char("+")>> >>, "one")>> >>)
    @@ ("(a)|(+)" :> << <<Part("group", {}, FALSE, << <<Char("a")>> >>, "one")>>,
                        <<Part("group", {}, FALSE, << <<Char("+")>> >>, "one")>> >>)
    @@ ("[^ab/]"  :> << <<Part("set", AB \cup {"/"}, TRUE, <<>>, "one")>> >>)
    @@ ("[+]+"    :> << <<Class({"+"}, "some")>> >>)

Token(t, v) == [t |-> t, v |-> v, num |-> -1, assoc |-> "none"]
Id(v) == Token("IDENT", v)
Str(v) == Token("DQSTRING", v)
Num(v, n) == [Token("NUMBER", v) EXCEPT !.num = n]
Left(n) == [Token("PRIORITY", "L") EXCEPT !.num = n, !.assoc = "left"]
P(t) == Token(t, t)
Semi == P("SEMICOLON")
Eq == Token("EQUAL", "=")

Comments == <<P("PERCENT"), Id("COMMENT"), Str("/*"), Str("*/"), Semi, P("PERCENT"), Id("COMMENT"), Str("//"), Semi>>
Indent == <<P("PERCENT"), Id("INDENTL"), Id("IND"), Id("END"), Id("NL"), Num("2", 2), Semi>>
Command(name, arg) == <<P("PERCENT"), Id(name), arg, Semi>>
Lexeme(name, pattern) == <<Id(name), P("DDOT"), Str(pattern), Semi>>
Rule(head, elements) == <<Id(head), Eq>> \o elements \o <<Semi>>

\* Comments, keywords that are also matches of a pattern, priorities, calls with and without arguments
Calls ==
    Comments \o Lexeme("ID", "[ab]+")
    \o Rule("S", <<Id("A"), P("OPENBRK"), Id("f"), P("CLOSEBRK")>>)
    \o <<Id("A"), P("SLASH"), Left(1), Eq, Id("A"), Str("+"), Id("ID"),
         P("OPENBRK"), P("STEP"), Token("CALL", "f.x"), P("OPENCURLYBRK"), Id("m"), Eq, Str("a"),
         P("COMMA"), Id("k"), Eq, Num("1", 1), P("CLOSECURLYBRK"), P("CLOSEBRK"),
         P("OR"), Str("a"), P("OPENBRK"), Id("f"), Str("a"), P("CLOSEBRK"),
         P("OR"), Id("ID"), P("OPENBRK"), Id("f.x"), P("OPENCURLYBRK"), Id("m"), Eq, Id("a"),
         P("COMMA"), Id("k"), Eq, Num("1", 1), P("CLOSECURLYBRK"), P("CLOSEBRK"),
         P("OR"), P("EPSILON"), P("OPENBRK"), Id("f"), P("CLOSEBRK"), Semi>>

\* Indentation, two patterns with one name, a selection, patterns that are activated in several ways
Blocks ==
    Indent \o Comments \o <<Id("ID"), P("DDOT"), Str("[a]*[b]"), Num("0", 0), Semi>> \o Lexeme("ID", "(a)|(+)")
    \o Lexeme("X", "[^ab/]") \o <<Id("X"), P("DDOT"), Str("(a|+)"), Num("1", 1), Semi>>
    \o Rule("S", <<Id("A")>>)
    \o <<Id("A"), P("ARROW"), Id("NL"), Id("ID"), Id("IND"), Id("X"), Id("END"), P("OPENBRK"), P("SCOPE"), P("CLOSEBRK"),
         P("OR"), Id("X"), Semi>>

\* A keyword of two characters, one that is the end of the text as a pattern, a lexem declared after a keyword
Operators ==
    Command("BAD", Id("?")) \o Lexeme("ID", "[+]+") \o Command("LANGUAGE", Id("S"))
    \o Rule("S", <<Id("ID"), Str(">>"), Id("B")>>) \o Rule("B", <<Str("+"), Id("ID"), Str("$")>>)
    \o Lexeme("Y", "a*b")

Ignoring ==
    Command("IGNORE", Str("[+]+")) \o Lexeme("ID", "[ab]+") \o Rule("S", <<Id("ID")>>)

\* Tokens a grammar may have by mistake
Others == {P(t) : t \in TokenTypes \ {"IDENT", "DQSTRING", "SQSTRING", "NUMBER", "PRIORITY", "ARROW", "CALL"}}
          \cup {Id("ID"), Id("S"), Str("ID"), Num("9", 40), Left(65537)}
Dropped(g) == {RemoveAt(g, i) : i \in DOMAIN g}
Replaced(g) == {[g EXCEPT ![i] = o] : i \in DOMAIN g, o \in Others}
Truncated(g) == {SubSeq(g, 1, i) : i \in 0..Len(g)}

Base == {Calls, Blocks, Operators, Ignoring}
MCSources == Base \cup UNION {Dropped(g) \cup Replaced(g) : g \in Base} \cup Truncated(Operators)

\* Names that do not occur in a text are spelled somehow
MCSpelling ==
    LET spelled == ("a" :> <<"a">>) @@ ("+" :> <<"+">>) @@ (">>" :> <<">", ">">>) @@ ("$" :> <<"$">>) @@ ("//" :> <<"/", "/">>)
                   @@ ("/*" :> <<"/", "*">>) @@ ("*/" :> <<"*", "/">>) @@ ("" :> <<>>)
    IN  spelled @@ [v \in UNION {{g[i].v : i \in DOMAIN g} : g \in Base} \cup {o.v : o \in Others} |-> <<"b">>]

MCTypeSystem == ("f" :> "function") @@ ("f.x" :> "function") @@ ("S" :> "string")
MCConstantValues == {"1", "9", "OPENCURLYBRK"}

MCTexts ==
    {<<>>,
     <<"a", " ", "a", "b", "+", "+", ">">>,
     <<"b", "/", "*", "a", "*", "/", "a", "/", "/", "b", "\n", "b">>,
     <<"b", "/", "/", "b">>,
     <<"a", "/", "*", " ", "+", "/">>,
     <<"a", "\n", "\t", "b", "b", "\n", " ", " ", "a", "\n", "b">>,
     <<"b", "\n", " ", " ", "b", "\n", " ", "a", "\n", " ", " ", "b">>,
     <<"+", ">", ">", "b", "a", "$", "a">>}
MCLoadOrders == {<<"bad", "token", "ignore", "comment", "indentl">>,
                 <<"indentl", "comment", "ignore", "token", "bad">>}

ViolationSources == {Ignoring}
ViolationTexts == {<<"a", "+", "b">>}
=============================================================================
