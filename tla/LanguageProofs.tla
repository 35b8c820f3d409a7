--------------------------- MODULE LanguageProofs ---------------------------
(***************************************************************************)
(* What a compiler returns for a text, for all grammars, texts and         *)
(* libraries of regular expressions: nothing of the text is lost, the      *)
(* lexem is the one the rules choose, and the tokens of the indentation    *)
(* are those of blocks.                                                    *)
(*                                                                         *)
(* The first part is about the definitions of a lexer: whatever defines    *)
(* them keeps the map from characters to candidates complete and in order. *)
(* So it is for the lexer a compiler loads from its table.  The rest       *)
(* follows the scanner through the text.                                   *)
(***************************************************************************)
EXTENDS Language, FiniteSetTheorems, SequenceTheorems, WellFoundedInduction, TLAPS

(* Every nonempty set of naturals has a least element.                     *)
LEMMA NatMin ==
  ASSUME NEW T \in SUBSET Nat, T # {}
  PROVE  \E m \in T : \A n \in T : m <= n
<1>1. PICK m \in T : \A n \in T : ~(<<n, m>> \in OpToRel(<, Nat))
  BY NatLessThanWellFounded, WFMin
<1>2. \A n \in T : n \in Nat /\ ~(n < m)
  BY <1>1 DEF OpToRel
<1>3. QED
  BY <1>2

(* A bounded one has a greatest.                                           *)
LEMMA NatMax ==
  ASSUME NEW T \in SUBSET Nat, T # {}, NEW b \in Nat, \A t \in T : t <= b
  PROVE  \E m \in T : \A n \in T : n <= m
<1> DEFINE D == {b - t : t \in T}
<1>1. D \in SUBSET Nat /\ D # {}
  <2>1. \A t \in T : b - t \in Nat
    OBVIOUS
  <2>2. PICK t \in T : TRUE
    OBVIOUS
  <2>3. b - t \in D
    BY <2>2
  <2>4. QED
    BY <2>1, <2>3
<1>2. PICK d \in D : \A e \in D : d <= e
  BY <1>1, NatMin
<1>3. PICK m \in T : d = b - m
  BY <1>2
<1>4. \A n \in T : n <= m
  <2>1. ASSUME NEW n \in T PROVE n <= m
    <3>1. b - n \in D
      BY <2>1
    <3>2. b - m <= b - n
      BY <1>2, <1>3, <3>1
    <3>3. QED
      BY <3>2
  <2>2. QED
    BY <2>1
<1>5. QED
  BY <1>4

(* Induction up to a bound, for a set of naturals.                         *)
LEMMA UpTo ==
  ASSUME NEW n \in Nat, NEW P, 0 \in P, \A k \in 0 .. n - 1 : k \in P => k + 1 \in P
  PROVE  0 .. n \subseteq P
<1> DEFINE T == {k \in 0 .. n : k \notin P}
<1>1. SUFFICES ASSUME T # {} PROVE FALSE
  OBVIOUS
<1>2. T \in SUBSET Nat
  OBVIOUS
<1>3. PICK k \in T : \A m \in T : k <= m
  BY <1>1, <1>2, NatMin
<1>4. k \in Nat /\ k # 0 /\ k <= n
  BY <1>3
<1>5. k - 1 \in 0 .. n - 1 /\ k - 1 + 1 = k
  BY <1>4
<1>6. k - 1 \notin P
  BY <1>3, <1>5
<1>7. ~(k <= k - 1) /\ k - 1 \in 0 .. n
  BY <1>4
<1>8. QED
  BY <1>3, <1>6, <1>7

(* What is computed step by step is there, and stays in the set it starts  *)
(* in; G gives for every step the function of the value before.            *)
Follows(f, n, first, G) == \A k \in 0 .. n : f[k] = IF k = 0 THEN first ELSE G[k][f[k - 1]]

LEMMA StepsExist ==
  ASSUME NEW n \in Nat, NEW D, NEW first \in D, NEW G \in [1 .. n -> [D -> D]]
  PROVE  \E f \in [0 .. n -> D] : Follows(f, n, first, G)
<1> DEFINE Steps(f, m) == f[0] = first /\ \A k \in 1 .. m : f[k] = G[k][f[k - 1]]
           P == {m \in Nat : m <= n => \E f \in [0 .. m -> D] : Steps(f, m)}
<1>1. 0 \in P
  <2> DEFINE f == [k \in 0 .. 0 |-> first]
  <2>1. f \in [0 .. 0 -> D] /\ f[0] = first
    OBVIOUS
  <2> HIDE DEF f
  <2>2. \E g \in [0 .. 0 -> D] : Steps(g, 0)
    BY <2>1
  <2>3. QED
    BY <2>2
<1>2. ASSUME NEW m \in 0 .. n - 1, m \in P
      PROVE  m + 1 \in P
  <2>1. PICK f \in [0 .. m -> D] : Steps(f, m)
    BY <1>2
  <2> DEFINE g == [k \in 0 .. m + 1 |-> IF k = m + 1 THEN G[m + 1][f[m]] ELSE f[k]]
  <2>2. m + 1 \in 1 .. n /\ f[m] \in D
    OBVIOUS
  <2>3. g \in [0 .. m + 1 -> D]
    <3>1. G[m + 1][f[m]] \in D
      BY <2>2
    <3>2. \A k \in 0 .. m + 1 : k # m + 1 => k \in 0 .. m
      OBVIOUS
    <3>3. QED
      BY <3>1, <3>2
  <2>4. g[0] = first /\ \A k \in 0 .. m : g[k] = f[k]
    BY <2>1
  <2>5. ASSUME NEW k \in 1 .. m + 1 PROVE g[k] = G[k][g[k - 1]]
    <3>1. k - 1 \in 0 .. m /\ g[k - 1] = f[k - 1]
      OBVIOUS
    <3>2. CASE k = m + 1
      BY <3>1, <3>2
    <3>3. CASE k # m + 1
      BY <2>1, <3>1, <3>3
    <3>4. QED
      BY <3>2, <3>3
  <2> HIDE DEF g
  <2>6. \E h \in [0 .. m + 1 -> D] : Steps(h, m + 1)
    <3>1. Steps(g, m + 1)
      <4>1. 0 \in 0 .. m
        OBVIOUS
      <4>2. QED
        BY <2>4, <2>5, <4>1
    <3>2. QED
      BY <2>3, <3>1
  <2> HIDE DEF Steps
  <2>7. m + 1 \in Nat
    OBVIOUS
  <2>8. QED
    BY <2>6, <2>7
<1>3. n \in P
  <2> HIDE DEF P
  <2>1. 0 .. n \subseteq P
    BY <1>1, <1>2, UpTo
  <2>2. QED
    BY <2>1
<1>4. PICK f \in [0 .. n -> D] : Steps(f, n)
  BY <1>3
<1>5. QED
  BY <1>4 DEF Follows

-----------------------------------------------------------------------------
(* The definitions of a lexer *)

Words == DOMAIN Spelling \cup {Empty}
Regexes == {<<>>} \cup {RegexOf[s] : s \in DOMAIN RegexOf} \cup {Literal(name) : name \in DOMAIN Spelling}
Definitions == [name : Words, source : Words, regex : Regexes, id : Nat, keyword : BOOLEAN, select : Int]
Brackets == [open : DOMAIN Spelling, close : DOMAIN Spelling]
Firstmaps == [Chars -> Seq(Int)]
Reasons == {"none", "KeywordDefinedTwice", "SyntaxErrorInLexer", "InvalidRegexInLexer", "ConflictingCommand"}
Lexers ==
  [defs : Seq(Definitions), firstmap : Firstmaps, names : Seq(Words), keywords : SUBSET Nat,
   eolnComments : Seq(DOMAIN Spelling), bracketComments : Seq(Brackets), errorLexem : Words \cup {"?"},
   indentLexems : [open : Int, close : Int, newLine : Int, tabSize : Nat], error : Reasons]

Has(f, c, e) == \E k \in DOMAIN f[c] : f[c][k] = e

(* The candidates of a character are indices of definitions in ascending   *)
(* order, and entries for comments.                                        *)
Ascends(f, n) ==
  \A c \in Chars :
    /\ \A k \in DOMAIN f[c] : f[c][k] \in {EolnEntry, BracketEntry} \cup (1 .. n)
    /\ \A k, l \in DOMAIN f[c] : k < l /\ f[c][k] > 0 /\ f[c][l] > 0 => f[c][k] < f[c][l]

(* They are complete: a definition with a pattern is with all characters   *)
(* that activate it, a comment with the first of its own.                  *)
DefsEntered(defs, f) ==
  \A i \in DOMAIN defs : \A c \in Chars :
    defs[i].regex # <<>> /\ c \in Activation(defs[i].regex) => Has(f, c, i)
IsEntered(f, name, e) == Spelling[name] # <<>> /\ Has(f, Spelling[name][1], e)
EolnsEntered(eolns, f) == \A k \in DOMAIN eolns : IsEntered(f, eolns[k], EolnEntry)
BracketsEntered(brackets, f) == \A k \in DOMAIN brackets : IsEntered(f, brackets[k].open, BracketEntry)

KeywordsLiteral(defs) ==
  \A i \in DOMAIN defs :
    defs[i].keyword => defs[i].name \in DOMAIN Spelling /\ defs[i].regex = Literal(defs[i].name)

LexemsEntered(lx) ==
  /\ lx \in Lexers
  /\ Ascends(lx.firstmap, Len(lx.defs))
  /\ DefsEntered(lx.defs, lx.firstmap)
  /\ KeywordsLiteral(lx.defs)

(* A comment that could not be defined leaves an error.                    *)
LexerInv(lx) ==
  /\ LexemsEntered(lx)
  /\ lx.error = "none" => EolnsEntered(lx.eolnComments, lx.firstmap)
  /\ lx.error = "none" => BracketsEntered(lx.bracketComments, lx.firstmap)

LEMMA EnterKeeps ==
  ASSUME NEW f \in Firstmaps, NEW S, NEW e \in Int
  PROVE  /\ EnterFirst(f, S, e) \in Firstmaps
         /\ \A c \in Chars : \A x : Has(f, c, x) => Has(EnterFirst(f, S, e), c, x)
         /\ \A c \in Chars : c \in S => Has(EnterFirst(f, S, e), c, e)
<1> DEFINE g == EnterFirst(f, S, e)
<1>1. \A c \in Chars : g[c] = IF c \in S THEN Append(f[c], e) ELSE f[c]
  BY DEF EnterFirst
<1>2. g = [c \in Chars |-> g[c]]
  BY DEF EnterFirst
<1> HIDE DEF g
<1>3. \A c \in Chars : f[c] \in Seq(Int)
  BY DEF Firstmaps
<1>4. ASSUME NEW c \in Chars
      PROVE  /\ g[c] \in Seq(Int)
             /\ \A k \in DOMAIN f[c] : k \in DOMAIN g[c] /\ g[c][k] = f[c][k]
             /\ c \in S => \E k \in DOMAIN g[c] : g[c][k] = e
  <2>1. CASE c \in S
    <3>1. g[c] = Append(f[c], e) /\ f[c] \in Seq(Int)
      BY <1>1, <1>3, <2>1
    <3>2. /\ g[c] \in Seq(Int) /\ Len(g[c]) = Len(f[c]) + 1
          /\ \A k \in 1 .. Len(f[c]) : g[c][k] = f[c][k]
          /\ g[c][Len(f[c]) + 1] = e
      BY <3>1, AppendProperties
    <3>3. Len(f[c]) + 1 \in DOMAIN g[c] /\ Len(f[c]) \in Nat
      BY <3>1, <3>2
    <3>4. \A k \in DOMAIN f[c] : k \in DOMAIN g[c]
      BY <3>1, <3>2
    <3>5. QED
      BY <3>1, <3>2, <3>3, <3>4
  <2>2. CASE c \notin S
    BY <1>1, <1>3, <2>2
  <2>3. QED
    BY <2>1, <2>2
<1>5. g \in Firstmaps
  BY <1>2, <1>4 DEF Firstmaps
<1>6. QED
  BY <1>4, <1>5 DEF Has, g

(* The entry of a definition comes behind those of the definitions before, *)
(* the entry of a comment can be anywhere.                                 *)
LEMMA EnterAscends ==
  ASSUME NEW f \in Firstmaps, NEW S, NEW n \in Nat, NEW m \in Nat, Ascends(f, n), n <= m,
         NEW e \in Int, e \in {EolnEntry, BracketEntry} \/ (e = n + 1 /\ m = n + 1)
  PROVE  Ascends(EnterFirst(f, S, e), m)
<1> DEFINE g == EnterFirst(f, S, e)
<1>1. \A c \in Chars : g[c] = IF c \in S THEN Append(f[c], e) ELSE f[c]
  BY DEF EnterFirst
<1>2. \A c \in Chars : f[c] \in Seq(Int)
  BY DEF Firstmaps
<1> HIDE DEF g
<1>3. e \in {EolnEntry, BracketEntry} \cup (1 .. m) /\ (e > 0 => e = n + 1)
  BY DEF EolnEntry, BracketEntry
<1>4. ASSUME NEW c \in Chars
      PROVE  /\ \A k \in DOMAIN g[c] : g[c][k] \in {EolnEntry, BracketEntry} \cup (1 .. m)
             /\ \A k, l \in DOMAIN g[c] : k < l /\ g[c][k] > 0 /\ g[c][l] > 0 => g[c][k] < g[c][l]
  <2>1. /\ \A k \in DOMAIN f[c] : f[c][k] \in {EolnEntry, BracketEntry} \cup (1 .. n)
        /\ \A k, l \in DOMAIN f[c] : k < l /\ f[c][k] > 0 /\ f[c][l] > 0 => f[c][k] < f[c][l]
    BY DEF Ascends
  <2>2. \A k \in DOMAIN f[c] : f[c][k] \in {EolnEntry, BracketEntry} \cup (1 .. m) /\ (f[c][k] > 0 => f[c][k] <= n)
    BY <2>1 DEF EolnEntry, BracketEntry
  <2>3. CASE c \in S
    <3>1. g[c] = Append(f[c], e) /\ f[c] \in Seq(Int)
      BY <1>1, <1>2, <2>3
    <3>2. /\ Len(g[c]) = Len(f[c]) + 1 /\ g[c] \in Seq(Int)
          /\ \A k \in 1 .. Len(f[c]) : g[c][k] = f[c][k]
          /\ g[c][Len(f[c]) + 1] = e
      BY <3>1, AppendProperties
    <3>3. DOMAIN g[c] = 1 .. Len(f[c]) + 1 /\ DOMAIN f[c] = 1 .. Len(f[c]) /\ Len(f[c]) \in Nat
      BY <3>1, <3>2
    <3>4. \A k \in DOMAIN g[c] : k \in DOMAIN f[c] \/ k = Len(f[c]) + 1
      BY <3>3
    <3>5. \A k \in DOMAIN g[c] : g[c][k] \in {EolnEntry, BracketEntry} \cup (1 .. m)
      BY <1>3, <2>2, <3>2, <3>3, <3>4
    <3>6. ASSUME NEW k \in DOMAIN g[c], NEW l \in DOMAIN g[c], k < l, g[c][k] > 0, g[c][l] > 0
          PROVE  g[c][k] < g[c][l]
      <4>1. k \in DOMAIN f[c] /\ g[c][k] = f[c][k] /\ f[c][k] \in Int
        BY <3>1, <3>2, <3>3, <3>6
      <4>2. CASE l \in DOMAIN f[c]
        BY <2>1, <3>2, <3>3, <3>6, <4>1, <4>2
      <4>3. CASE l = Len(f[c]) + 1
        BY <1>3, <2>2, <3>2, <3>6, <4>1, <4>3
      <4>4. QED
        BY <3>4, <4>2, <4>3
    <3>7. QED
      BY <3>5, <3>6
  <2>4. CASE c \notin S
    <3>1. g[c] = f[c]
      BY <1>1, <2>4
    <3>2. QED
      BY <2>1, <2>2, <3>1
  <2>5. QED
    BY <2>3, <2>4
<1>5. QED
  BY <1>4 DEF Ascends, g

-----------------------------------------------------------------------------
(* Every operation that defines something keeps the definitions in order. *)
LEMMA EmptyLexerInv == LexerInv(EmptyLexer)
<1>1. EmptyLexer \in Lexers
  <2>1. \A S : <<>> \in Seq(S)
    OBVIOUS
  <2>2. [c \in Chars |-> <<>>] \in Firstmaps
    BY DEF Firstmaps
  <2>3. {} \in SUBSET Nat /\ "?" \in Words \cup {"?"} /\ "none" \in Reasons
    <3>1. {} \in SUBSET Nat
      OBVIOUS
    <3>2. "?" \in Words \cup {"?"}
      OBVIOUS
    <3>3. "none" \in Reasons
      BY DEF Reasons
    <3>4. QED
      BY <3>1, <3>2, <3>3
  <2>4. NoIndent \in [open : Int, close : Int, newLine : Int, tabSize : Nat]
    BY DEF NoIndent
  <2>5. QED
    BY <2>1, <2>2, <2>3, <2>4 DEF EmptyLexer, Lexers
<1>2. EmptyLexer.defs = <<>> /\ EmptyLexer.eolnComments = <<>> /\ EmptyLexer.bracketComments = <<>>
  BY DEF EmptyLexer
<1>3. \A c \in Chars : EmptyLexer.firstmap[c] = <<>>
  BY DEF EmptyLexer
<1>4. Ascends(EmptyLexer.firstmap, Len(EmptyLexer.defs))
  BY <1>3 DEF Ascends
<1>5. DefsEntered(EmptyLexer.defs, EmptyLexer.firstmap) /\ KeywordsLiteral(EmptyLexer.defs)
  BY <1>2 DEF DefsEntered, KeywordsLiteral
<1>6. EolnsEntered(EmptyLexer.eolnComments, EmptyLexer.firstmap)
  BY <1>2 DEF EolnsEntered
<1>7. BracketsEntered(EmptyLexer.bracketComments, EmptyLexer.firstmap)
  BY <1>2 DEF BracketsEntered
<1>8. QED
  BY <1>1, <1>4, <1>5, <1>6, <1>7 DEF LexerInv, LexemsEntered

LEMMA LexerParts ==
  ASSUME NEW lx \in Lexers
  PROVE  /\ lx = [defs |-> lx.defs, firstmap |-> lx.firstmap, names |-> lx.names, keywords |-> lx.keywords,
                  eolnComments |-> lx.eolnComments, bracketComments |-> lx.bracketComments,
                  errorLexem |-> lx.errorLexem, indentLexems |-> lx.indentLexems, error |-> lx.error]
         /\ lx.defs \in Seq(Definitions) /\ lx.firstmap \in Firstmaps /\ lx.names \in Seq(Words)
         /\ lx.keywords \in SUBSET Nat /\ lx.eolnComments \in Seq(DOMAIN Spelling)
         /\ lx.bracketComments \in Seq(Brackets) /\ lx.errorLexem \in Words \cup {"?"}
         /\ lx.indentLexems \in [open : Int, close : Int, newLine : Int, tabSize : Nat]
         /\ lx.error \in Reasons
  BY DEF Lexers

(* Changes of one part.                                                    *)
Record(a, b, c, d, e, f, g, h, i) ==
  [defs |-> a, firstmap |-> b, names |-> c, keywords |-> d, eolnComments |-> e, bracketComments |-> f,
   errorLexem |-> g, indentLexems |-> h, error |-> i]
SameAs(lx) ==
  Record(lx.defs, lx.firstmap, lx.names, lx.keywords, lx.eolnComments, lx.bracketComments,
         lx.errorLexem, lx.indentLexems, lx.error)

LEMMA SetDefs == \A a, b, c, d, e, f, g, h, i, x :
  [Record(a, b, c, d, e, f, g, h, i) EXCEPT !.defs = x] = Record(x, b, c, d, e, f, g, h, i)
  BY DEF Record
LEMMA SetFirstmap == \A a, b, c, d, e, f, g, h, i, x :
  [Record(a, b, c, d, e, f, g, h, i) EXCEPT !.firstmap = x] = Record(a, x, c, d, e, f, g, h, i)
  BY DEF Record
LEMMA SetNames == \A a, b, c, d, e, f, g, h, i, x :
  [Record(a, b, c, d, e, f, g, h, i) EXCEPT !.names = x] = Record(a, b, x, d, e, f, g, h, i)
  BY DEF Record
LEMMA SetKeywords == \A a, b, c, d, e, f, g, h, i, x :
  [Record(a, b, c, d, e, f, g, h, i) EXCEPT !.keywords = x] = Record(a, b, c, x, e, f, g, h, i)
  BY DEF Record
LEMMA SetEolns == \A a, b, c, d, e, f, g, h, i, x :
  [Record(a, b, c, d, e, f, g, h, i) EXCEPT !.eolnComments = x] = Record(a, b, c, d, x, f, g, h, i)
  BY DEF Record
LEMMA SetBrackets == \A a, b, c, d, e, f, g, h, i, x :
  [Record(a, b, c, d, e, f, g, h, i) EXCEPT !.bracketComments = x] = Record(a, b, c, d, e, x, g, h, i)
  BY DEF Record
LEMMA SetErrorLexem == \A a, b, c, d, e, f, g, h, i, x :
  [Record(a, b, c, d, e, f, g, h, i) EXCEPT !.errorLexem = x] = Record(a, b, c, d, e, f, x, h, i)
  BY DEF Record
LEMMA SetIndentLexems == \A a, b, c, d, e, f, g, h, i, x :
  [Record(a, b, c, d, e, f, g, h, i) EXCEPT !.indentLexems = x] = Record(a, b, c, d, e, f, g, x, i)
  BY DEF Record
LEMMA SetError == \A a, b, c, d, e, f, g, h, i, x :
  [Record(a, b, c, d, e, f, g, h, i) EXCEPT !.error = x] = Record(a, b, c, d, e, f, g, h, x)
  BY DEF Record

LEMMA LexerIsRecord ==
  ASSUME NEW lx \in Lexers
  PROVE  lx = SameAs(lx)
  BY LexerParts DEF SameAs, Record

LEMMA FailedKeeps ==
  ASSUME NEW lx, LexemsEntered(lx), NEW reason \in Reasons, reason # "none"
  PROVE  LexerInv(Failed(lx, reason)) /\ Failed(lx, reason).error = reason
<1>1. lx \in Lexers
  BY DEF LexemsEntered
<1>2. Failed(lx, reason) =
        Record(lx.defs, lx.firstmap, lx.names, lx.keywords, lx.eolnComments, lx.bracketComments,
               lx.errorLexem, lx.indentLexems, reason)
  <2>1. Failed(lx, reason) = [SameAs(lx) EXCEPT !.error = reason]
    BY <1>1, LexerIsRecord, Zenon DEF Failed
  <2>2. QED
    BY <2>1, SetError DEF SameAs
<1>3. Failed(lx, reason) \in Lexers
  BY <1>1, <1>2, LexerParts DEF Lexers, Record
<1>4. QED
  BY <1>2, <1>3 DEF LexerInv, LexemsEntered, Record

LEMMA LexemIdType ==
  ASSUME NEW lx \in Lexers, NEW name
  PROVE  LexemId(lx, name) \in 0 .. Len(lx.names)
<1>1. lx.names \in Seq(Words)
  BY LexerParts
<1>2. QED
  BY <1>1 DEF LexemId

(* A new definition, with the entries of its pattern.                      *)
Defined_(lx, d, names, keywords, f) ==
  Record(Append(lx.defs, d), f, names, keywords, lx.eolnComments, lx.bracketComments,
         lx.errorLexem, lx.indentLexems, lx.error)

LEMMA NewDefinitionInv ==
  ASSUME NEW lx, LexerInv(lx), NEW d \in Definitions, NEW names \in Seq(Words), NEW keywords \in SUBSET Nat,
         d.keyword => d.name \in DOMAIN Spelling /\ d.regex = Literal(d.name),
         NEW f, f = IF d.regex = <<>> THEN lx.firstmap
                    ELSE EnterFirst(lx.firstmap, Activation(d.regex), Len(lx.defs) + 1)
  PROVE  LexerInv(Defined_(lx, d, names, keywords, f))
<1> DEFINE n == Len(lx.defs)
           new == Defined_(lx, d, names, keywords, f)
           old == lx.firstmap
<1>1. lx \in Lexers
  BY DEF LexerInv, LexemsEntered
<1>2. n \in Nat /\ lx.defs \in Seq(Definitions) /\ old \in Firstmaps
  BY <1>1, LexerParts
<1>3. /\ new.defs = Append(lx.defs, d) /\ new.firstmap = f /\ new.eolnComments = lx.eolnComments
      /\ new.bracketComments = lx.bracketComments /\ new.error = lx.error
  BY DEF Defined_, Record
<1>4. /\ new.defs \in Seq(Definitions) /\ Len(new.defs) = n + 1
      /\ \A i \in 1 .. n : new.defs[i] = lx.defs[i]
      /\ new.defs[n + 1] = d
  <2>1. /\ Append(lx.defs, d) \in Seq(Definitions) /\ Len(Append(lx.defs, d)) = Len(lx.defs) + 1
        /\ \A i \in 1 .. Len(lx.defs) : Append(lx.defs, d)[i] = lx.defs[i]
        /\ Append(lx.defs, d)[Len(lx.defs) + 1] = d
    BY <1>2, AppendProperties
  <2> HIDE DEF new
  <2>2. QED
    BY <1>3, <2>1
<1>5. f \in Firstmaps /\ \A c \in Chars : \A x : Has(old, c, x) => Has(f, c, x)
  <2>1. CASE d.regex = <<>>
    BY <1>2, <2>1
  <2>2. CASE d.regex # <<>>
    BY <1>2, <2>2, EnterKeeps
  <2>3. QED
    BY <2>1, <2>2
<1>6. Ascends(f, n + 1)
  <2>1. Ascends(old, n)
    BY DEF LexerInv, LexemsEntered
  <2>2. CASE d.regex = <<>>
    BY <1>2, <2>1, <2>2 DEF Ascends
  <2>3. CASE d.regex # <<>>
    <3>1. n + 1 \in Nat /\ n <= n + 1 /\ n + 1 \in Int
      BY <1>2
    <3>2. Ascends(EnterFirst(old, Activation(d.regex), n + 1), n + 1)
      BY <1>2, <2>1, <3>1, EnterAscends
    <3>3. QED
      BY <2>3, <3>2
  <2>4. QED
    BY <2>2, <2>3
<1>7. d.regex # <<>> => \A c \in Chars : c \in Activation(d.regex) => Has(f, c, n + 1)
  BY <1>2, EnterKeeps
<1>8. new \in Lexers
  <2>1. Append(lx.defs, d) \in Seq(Definitions)
    BY <1>3, <1>4
  <2>2. QED
    BY <1>1, <1>5, <2>1, LexerParts DEF Lexers, Defined_, Record
<1>9. DOMAIN new.defs = 1 .. n + 1 /\ DOMAIN lx.defs = 1 .. n
  BY <1>2, <1>4
<1>10. DefsEntered(new.defs, f)
  <2> HIDE DEF new, n
  <2>1. ASSUME NEW i \in DOMAIN new.defs, NEW c \in Chars, new.defs[i].regex # <<>>, c \in Activation(new.defs[i].regex)
        PROVE  Has(f, c, i)
    <3>1. CASE i = n + 1
      BY <1>4, <1>7, <2>1, <3>1
    <3>2. CASE i # n + 1
      <4>1. i \in 1 .. n /\ new.defs[i] = lx.defs[i]
        BY <1>2, <1>4, <1>9, <3>2
      <4>2. Has(old, c, i)
        BY <1>9, <2>1, <4>1 DEF LexerInv, LexemsEntered, DefsEntered
      <4>3. QED
        BY <1>5, <4>2
    <3>3. QED
      BY <3>1, <3>2
  <2>2. QED
    BY <2>1 DEF DefsEntered
<1>11. KeywordsLiteral(new.defs)
  <2> HIDE DEF new, n
  <2>1. ASSUME NEW i \in DOMAIN new.defs, new.defs[i].keyword
        PROVE  new.defs[i].name \in DOMAIN Spelling /\ new.defs[i].regex = Literal(new.defs[i].name)
    <3>1. CASE i = n + 1
      BY <1>4, <2>1, <3>1
    <3>2. CASE i # n + 1
      <4>1. i \in 1 .. n /\ new.defs[i] = lx.defs[i]
        BY <1>2, <1>4, <1>9, <3>2
      <4>2. QED
        BY <1>9, <2>1, <4>1 DEF LexerInv, LexemsEntered, KeywordsLiteral
    <3>3. QED
      BY <3>1, <3>2
  <2>2. QED
    BY <2>1 DEF KeywordsLiteral
<1>12. lx.error = "none" => EolnsEntered(lx.eolnComments, f) /\ BracketsEntered(lx.bracketComments, f)
  <2> HAVE lx.error = "none"
  <2>1. EolnsEntered(lx.eolnComments, old) /\ BracketsEntered(lx.bracketComments, old)
    BY DEF LexerInv, LexemsEntered
  <2>2. \A name \in DOMAIN Spelling : Spelling[name] # <<>> => Spelling[name][1] \in Chars
    BY CharsAssumption
  <2>3. \A name \in DOMAIN Spelling : \A e : IsEntered(old, name, e) => IsEntered(f, name, e)
    BY <1>5, <2>2 DEF IsEntered
  <2>4. /\ \A k \in DOMAIN lx.eolnComments : lx.eolnComments[k] \in DOMAIN Spelling
        /\ \A k \in DOMAIN lx.bracketComments : lx.bracketComments[k].open \in DOMAIN Spelling
    <3>1. lx.eolnComments \in Seq(DOMAIN Spelling) /\ lx.bracketComments \in Seq(Brackets)
      BY <1>1, LexerParts
    <3>2. \A k \in DOMAIN lx.bracketComments : lx.bracketComments[k] \in Brackets
      BY <3>1
    <3>3. \A b \in Brackets : b.open \in DOMAIN Spelling
      BY DEF Brackets
    <3>4. QED
      BY <3>1, <3>2, <3>3
  <2>5. QED
    BY <2>1, <2>3, <2>4 DEF EolnsEntered, BracketsEntered
<1> HIDE DEF new
<1>13. QED
  BY <1>3, <1>4, <1>6, <1>8, <1>10, <1>11, <1>12 DEF LexerInv, LexemsEntered, new

LEMMA NumberOfType ==
  ASSUME NEW lx \in Lexers, NEW name
  PROVE  NumberOf(lx, name) \in Nat
<1>1. LexemId(lx, name) \in Nat /\ Len(lx.names) \in Nat
  BY LexemIdType, LexerParts
<1>2. QED
  BY <1>1 DEF NumberOf

LEMMA DefineLexemInv ==
  ASSUME NEW lx, LexerInv(lx), NEW name \in Words, NEW source \in Words, NEW regex \in Regexes,
         NEW keyword \in BOOLEAN, NEW select \in Int,
         keyword /\ name # Empty => regex = Literal(name)
  PROVE  /\ LexerInv(defineLexem_(lx, name, source, regex, keyword, select))
         /\ defineLexem_(lx, name, source, regex, keyword, select).error = "none" => lx.error = "none"
<1> DEFINE id == NumberOf(lx, name)
           d == [name |-> name, source |-> source, regex |-> regex, id |-> id,
                 keyword |-> keyword /\ name # Empty, select |-> select]
           names == IF id > Len(lx.names) THEN Append(lx.names, name) ELSE lx.names
           keywords == IF keyword /\ id > 0 THEN lx.keywords \cup {id} ELSE lx.keywords
           f == IF regex = <<>> THEN lx.firstmap ELSE EnterFirst(lx.firstmap, Activation(regex), Len(lx.defs) + 1)
           new == Defined_(lx, d, names, keywords, f)
           except == [lx EXCEPT !.defs = Append(@, d),
                                !.names = IF id > Len(@) THEN Append(@, name) ELSE @,
                                !.keywords = IF keyword /\ id > 0 THEN @ \cup {id} ELSE @,
                                !.firstmap = IF regex = <<>> THEN @
                                             ELSE EnterFirst(@, Activation(regex), Len(lx.defs) + 1)]
<1>1. lx \in Lexers
  BY DEF LexerInv, LexemsEntered
<1>2. id \in Nat
  BY <1>1, NumberOfType
<1>3. defineLexem_(lx, name, source, regex, keyword, select) =
        IF keyword /\ id \in 1 .. Len(lx.names) THEN Failed(lx, "KeywordDefinedTwice")
        ELSE IF regex # <<>> /\ Activation(regex) = {} THEN Failed(except, "SyntaxErrorInLexer")
        ELSE except
  BY DEF defineLexem_
<1>4. except = new
  <2> HIDE DEF d, id
  <2>1. except = [lx EXCEPT !.defs = Append(lx.defs, d), !.names = names, !.keywords = keywords, !.firstmap = f]
    OBVIOUS
  <2> HIDE DEF names, keywords, f, except
  <2>2. \A r, p, q, x, y : [r EXCEPT !.defs = p, !.names = q, !.keywords = x, !.firstmap = y]
                            = [[[[r EXCEPT !.defs = p] EXCEPT !.names = q] EXCEPT !.keywords = x] EXCEPT !.firstmap = y]
    OBVIOUS
  <2>3. except = [[[[SameAs(lx) EXCEPT !.defs = Append(lx.defs, d)] EXCEPT !.names = names]
                     EXCEPT !.keywords = keywords] EXCEPT !.firstmap = f]
    BY <1>1, <2>1, <2>2, LexerIsRecord, Zenon
  <2> DEFINE r1 == Record(Append(lx.defs, d), lx.firstmap, lx.names, lx.keywords, lx.eolnComments,
                          lx.bracketComments, lx.errorLexem, lx.indentLexems, lx.error)
             r2 == Record(Append(lx.defs, d), lx.firstmap, names, lx.keywords, lx.eolnComments,
                          lx.bracketComments, lx.errorLexem, lx.indentLexems, lx.error)
             r3 == Record(Append(lx.defs, d), lx.firstmap, names, keywords, lx.eolnComments,
                          lx.bracketComments, lx.errorLexem, lx.indentLexems, lx.error)
  <2>4. [SameAs(lx) EXCEPT !.defs = Append(lx.defs, d)] = r1
    <3>1. \A x : [SameAs(lx) EXCEPT !.defs = x] =
                  Record(x, lx.firstmap, lx.names, lx.keywords, lx.eolnComments,
                         lx.bracketComments, lx.errorLexem, lx.indentLexems, lx.error)
      BY SetDefs DEF SameAs
    <3>2. QED
      BY <3>1, Zenon
  <2>5. [r1 EXCEPT !.names = names] = r2
    BY SetNames
  <2>6. [r2 EXCEPT !.keywords = keywords] = r3
    BY SetKeywords
  <2>7. [r3 EXCEPT !.firstmap = f] = new
    BY SetFirstmap DEF Defined_
  <2> HIDE DEF r1, r2, r3, new
  <2>8. QED
    BY <2>3, <2>4, <2>5, <2>6, <2>7, Zenon
<1>5. LexerInv(new) /\ new.error = lx.error
  <2>1. d \in Definitions /\ d.regex = regex
    BY <1>2 DEF Definitions
  <2>2. names \in Seq(Words)
    <3>1. lx.names \in Seq(Words)
      BY <1>1, LexerParts
    <3>2. Append(lx.names, name) \in Seq(Words)
      BY <3>1, AppendProperties
    <3>3. QED
      BY <3>1, <3>2
  <2>3. keywords \in SUBSET Nat
    <3>1. lx.keywords \in SUBSET Nat
      BY <1>1, LexerParts
    <3>2. QED
      BY <1>2, <3>1
  <2>4. d.keyword => d.name \in DOMAIN Spelling /\ d.regex = Literal(d.name)
    BY DEF Words
  <2>5. f = IF d.regex = <<>> THEN lx.firstmap
            ELSE EnterFirst(lx.firstmap, Activation(d.regex), Len(lx.defs) + 1)
    BY <2>1
  <2> HIDE DEF d, names, keywords, f
  <2>6. LexerInv(Defined_(lx, d, names, keywords, f))
    BY <2>1, <2>2, <2>3, <2>4, <2>5, NewDefinitionInv
  <2>7. Defined_(lx, d, names, keywords, f).error = lx.error
    BY DEF Defined_, Record
  <2>8. QED
    BY <2>6, <2>7 DEF new
<1> HIDE DEF except, new, id
<1>6. CASE keyword /\ id \in 1 .. Len(lx.names)
  <2>1. defineLexem_(lx, name, source, regex, keyword, select) = Failed(lx, "KeywordDefinedTwice")
    BY <1>3, <1>6
  <2>2. LexerInv(Failed(lx, "KeywordDefinedTwice")) /\ Failed(lx, "KeywordDefinedTwice").error # "none"
    BY FailedKeeps DEF Reasons, LexerInv
  <2>3. QED
    BY <2>1, <2>2
<1>7. CASE ~(keyword /\ id \in 1 .. Len(lx.names)) /\ regex # <<>> /\ Activation(regex) = {}
  <2>1. defineLexem_(lx, name, source, regex, keyword, select) = Failed(new, "SyntaxErrorInLexer")
    BY <1>3, <1>4, <1>7
  <2>2. LexerInv(Failed(new, "SyntaxErrorInLexer")) /\ Failed(new, "SyntaxErrorInLexer").error # "none"
    BY <1>5, FailedKeeps DEF Reasons, LexerInv
  <2>3. QED
    BY <2>1, <2>2
<1>8. CASE ~(keyword /\ id \in 1 .. Len(lx.names)) /\ ~(regex # <<>> /\ Activation(regex) = {})
  <2>1. defineLexem_(lx, name, source, regex, keyword, select) = new
    BY <1>3, <1>4, <1>8
  <2>2. QED
    BY <1>5, <2>1
<1>9. QED
  BY <1>6, <1>7, <1>8

LEMMA DefineLexemKeeps ==
  ASSUME NEW lx, LexerInv(lx), NEW name \in Words, NEW source \in Words, NEW select \in Int
  PROVE  LexerInv(defineLexem(lx, name, source, select))
<1>1. CASE source # Empty /\ source \notin DOMAIN RegexOf
  <2>1. defineLexem(lx, name, source, select) = Failed(lx, "InvalidRegexInLexer")
    BY <1>1 DEF defineLexem
  <2>2. LexerInv(Failed(lx, "InvalidRegexInLexer"))
    BY FailedKeeps DEF Reasons, LexerInv
  <2>3. QED
    BY <2>1, <2>2
<1>2. CASE ~(source # Empty /\ source \notin DOMAIN RegexOf)
  <2>1. defineLexem(lx, name, source, select) = defineLexem_(lx, name, source, Regex(source), FALSE, select)
    BY <1>2 DEF defineLexem
  <2>2. Regex(source) \in Regexes
    BY <1>2 DEF Regex, Regexes
  <2>3. FALSE \in BOOLEAN /\ (FALSE /\ name # Empty => Regex(source) = Literal(name))
    OBVIOUS
  <2>4. LexerInv(defineLexem_(lx, name, source, Regex(source), FALSE, select))
    BY <2>2, <2>3, DefineLexemInv
  <2>5. QED
    BY <2>1, <2>4
<1>3. QED
  BY <1>1, <1>2

LEMMA DefineIgnoreKeeps ==
  ASSUME NEW lx, LexerInv(lx), NEW source \in Words
  PROVE  LexerInv(defineIgnore(lx, source))
<1>1. Empty \in Words
  BY DEF Words
<1>2. QED
  BY <1>1, DefineLexemKeeps, 0 \in Int DEF defineIgnore

LEMMA DefineKeywordKeeps ==
  ASSUME NEW lx, LexerInv(lx), NEW opr \in Words
  PROVE  LexerInv(defineKeyword(lx, opr))
<1> DEFINE regex == IF opr = Empty THEN <<>> ELSE Literal(opr)
<1>1. regex \in Regexes
  BY DEF Words, Regexes
<1>2. Empty \in Words /\ (TRUE /\ opr # Empty => regex = Literal(opr))
  BY DEF Words
<1>3. defineKeyword(lx, opr) = defineLexem_(lx, opr, Empty, regex, TRUE, 0)
  BY DEF defineKeyword
<1> HIDE DEF regex
<1>4. PICK keyword \in BOOLEAN : keyword = TRUE
  OBVIOUS
<1>5. keyword /\ opr # Empty => regex = Literal(opr)
  BY <1>2
<1>6. LexerInv(defineLexem_(lx, opr, Empty, regex, keyword, 0))
  BY <1>1, <1>2, <1>5, DefineLexemInv, 0 \in Int
<1>7. QED
  BY <1>3, <1>4, <1>6

LEMMA DefineLexemIdKeeps ==
  ASSUME NEW lx, LexerInv(lx), NEW name \in Words
  PROVE  LexerInv(defineLexemId(lx, name))
<1>1. lx \in Lexers
  BY DEF LexerInv, LexemsEntered
<1>2. CASE LexemId(lx, name) # 0
  <2>1. defineLexemId(lx, name) = Failed(lx, "KeywordDefinedTwice")
    BY <1>2 DEF defineLexemId
  <2>2. LexerInv(Failed(lx, "KeywordDefinedTwice"))
    BY FailedKeeps DEF Reasons, LexerInv
  <2>3. QED
    BY <2>1, <2>2
<1>3. CASE LexemId(lx, name) = 0
  <2> DEFINE d == [name |-> name, source |-> Empty, regex |-> <<>>, id |-> Len(lx.names) + 1,
                   keyword |-> FALSE, select |-> 0]
             names == Append(lx.names, name)
  <2>1. defineLexemId(lx, name) = [lx EXCEPT !.names = names, !.defs = Append(lx.defs, d)]
    BY <1>3 DEF defineLexemId
  <2> HIDE DEF d, names
  <2>2. \A r, p, q : [r EXCEPT !.names = p, !.defs = q] = [[r EXCEPT !.names = p] EXCEPT !.defs = q]
    OBVIOUS
  <2>3. defineLexemId(lx, name) = [[SameAs(lx) EXCEPT !.names = names] EXCEPT !.defs = Append(lx.defs, d)]
    BY <1>1, <2>1, <2>2, LexerIsRecord, Zenon
  <2>5. defineLexemId(lx, name) = Defined_(lx, d, names, lx.keywords, lx.firstmap)
    <3> DEFINE r1 == Record(lx.defs, lx.firstmap, names, lx.keywords, lx.eolnComments,
                            lx.bracketComments, lx.errorLexem, lx.indentLexems, lx.error)
    <3>1. [SameAs(lx) EXCEPT !.names = names] = r1
      BY SetNames DEF SameAs
    <3>2. [r1 EXCEPT !.defs = Append(lx.defs, d)] = Defined_(lx, d, names, lx.keywords, lx.firstmap)
      <4>1. \A x : [r1 EXCEPT !.defs = x] =
                    Record(x, lx.firstmap, names, lx.keywords, lx.eolnComments,
                           lx.bracketComments, lx.errorLexem, lx.indentLexems, lx.error)
        BY SetDefs
      <4>2. QED
        BY <4>1, Zenon DEF Defined_
    <3> HIDE DEF r1
    <3>3. QED
      BY <2>3, <3>1, <3>2, Zenon
  <2>6. Len(lx.names) \in Nat /\ lx.names \in Seq(Words) /\ lx.keywords \in SUBSET Nat
    BY <1>1, LexerParts
  <2>7. d \in Definitions /\ d.regex = <<>> /\ ~d.keyword
    <3>1. Empty \in Words /\ <<>> \in Regexes /\ Len(lx.names) + 1 \in Nat
      BY <2>6 DEF Words, Regexes
    <3>2. d \in Definitions
      BY <3>1, 0 \in Int, FALSE \in BOOLEAN DEF d, Definitions
    <3>3. QED
      BY <3>2 DEF d
  <2>8. names \in Seq(Words)
    BY <2>6, AppendProperties DEF names
  <2>9. LexerInv(Defined_(lx, d, names, lx.keywords, lx.firstmap))
    BY <2>6, <2>7, <2>8, NewDefinitionInv
  <2>10. QED
    BY <2>5, <2>9
<1>4. QED
  BY <1>2, <1>3

LEMMA SetIndentKeeps ==
  ASSUME NEW lx, LexerInv(lx), NEW new \in [open : Int, close : Int, newLine : Int, tabSize : Nat]
  PROVE  LexerInv([lx EXCEPT !.indentLexems = new])
<1> DEFINE except == [lx EXCEPT !.indentLexems = new]
<1>1. lx \in Lexers
  BY DEF LexerInv, LexemsEntered
<1>2. except = [SameAs(lx) EXCEPT !.indentLexems = new]
  BY <1>1, LexerIsRecord, Zenon
<1>3. except = Record(lx.defs, lx.firstmap, lx.names, lx.keywords, lx.eolnComments,
                      lx.bracketComments, lx.errorLexem, new, lx.error)
  BY <1>2, SetIndentLexems DEF SameAs
<1> HIDE DEF except
<1>4. except \in Lexers
  BY <1>1, <1>3, LexerParts DEF Lexers, Record
<1>5. /\ except.defs = lx.defs /\ except.firstmap = lx.firstmap /\ except.eolnComments = lx.eolnComments
      /\ except.bracketComments = lx.bracketComments /\ except.error = lx.error
  BY <1>3 DEF Record
<1>6. LexerInv(except)
  BY <1>4, <1>5 DEF LexerInv, LexemsEntered
<1>7. QED
  BY <1>6 DEF except

LEMMA DefineIndentLexemsKeeps ==
  ASSUME NEW lx, LexerInv(lx), NEW open \in Words, NEW close \in Words, NEW newLine \in Words, NEW tabSize \in Nat
  PROVE  LexerInv(defineIndentLexems(lx, open, close, newLine, tabSize))
<1> DEFINE l1 == defineLexemId(lx, open)
           l2 == defineLexemId(l1, close)
           l3 == defineLexemId(l2, newLine)
           new == [open |-> LexemId(l3, open), close |-> LexemId(l3, close),
                   newLine |-> LexemId(l3, newLine), tabSize |-> tabSize]
<1>1. LexerInv(l1)
  BY DefineLexemIdKeeps
<1> HIDE DEF l1
<1>2. LexerInv(l2)
  BY <1>1, DefineLexemIdKeeps
<1> HIDE DEF l2
<1>3. LexerInv(l3)
  BY <1>2, DefineLexemIdKeeps
<1> HIDE DEF l3
<1>4. LexerInv(Failed(lx, "ConflictingCommand"))
  BY FailedKeeps DEF Reasons, LexerInv
<1>5. LexerInv([l3 EXCEPT !.indentLexems = new])
  <2>1. l3 \in Lexers
    BY <1>3 DEF LexerInv, LexemsEntered
  <2>2. \A name : LexemId(l3, name) \in Int
    BY <2>1, LexemIdType, LexerParts
  <2>3. new \in [open : Int, close : Int, newLine : Int, tabSize : Nat]
    BY <2>2
  <2> HIDE DEF new
  <2>4. QED
    BY <1>3, <2>3, SetIndentKeeps
<1> HIDE DEF new
<1>6. defineIndentLexems(lx, open, close, newLine, tabSize) =
        IF lx.indentLexems.open # 0 THEN Failed(lx, "ConflictingCommand")
        ELSE IF l1.error # "none" THEN l1
        ELSE IF l2.error # "none" THEN l2
        ELSE IF l3.error # "none" THEN l3
        ELSE [l3 EXCEPT !.indentLexems = new]
  BY DEF defineIndentLexems, l1, l2, l3, new
<1>7. QED
  BY <1>1, <1>2, <1>3, <1>4, <1>5, <1>6

LEMMA DefineBadLexemKeeps ==
  ASSUME NEW lx, LexerInv(lx), NEW name \in Words \cup {"?"}
  PROVE  LexerInv(defineBadLexem(lx, name))
<1> DEFINE except == defineBadLexem(lx, name)
<1>1. lx \in Lexers
  BY DEF LexerInv, LexemsEntered
<1>2. except = [SameAs(lx) EXCEPT !.errorLexem = name]
  BY <1>1, LexerIsRecord, Zenon DEF defineBadLexem
<1> HIDE DEF except
<1>3. except = Record(lx.defs, lx.firstmap, lx.names, lx.keywords, lx.eolnComments,
                      lx.bracketComments, name, lx.indentLexems, lx.error)
  BY <1>2, SetErrorLexem DEF SameAs
<1>4. except \in Lexers
  BY <1>1, <1>3, LexerParts DEF Lexers, Record
<1>5. /\ except.defs = lx.defs /\ except.firstmap = lx.firstmap /\ except.eolnComments = lx.eolnComments
      /\ except.bracketComments = lx.bracketComments /\ except.error = lx.error
  BY <1>3 DEF Record
<1>6. LexerInv(except)
  BY <1>4, <1>5 DEF LexerInv, LexemsEntered
<1>7. QED
  BY <1>6 DEF except

(* A new comment and its entry.                                            *)
LEMMA NewCommentInv ==
  ASSUME NEW lx, LexerInv(lx), NEW eolns \in Seq(DOMAIN Spelling), NEW brackets \in Seq(Brackets),
         NEW name \in DOMAIN Spelling, Spelling[name] # <<>>, NEW e \in {EolnEntry, BracketEntry},
         \A k \in DOMAIN eolns : \/ k \in DOMAIN lx.eolnComments /\ eolns[k] = lx.eolnComments[k]
                                 \/ eolns[k] = name /\ e = EolnEntry,
         \A k \in DOMAIN brackets : \/ k \in DOMAIN lx.bracketComments /\ brackets[k] = lx.bracketComments[k]
                                    \/ brackets[k].open = name /\ e = BracketEntry
  PROVE  LexerInv(Record(lx.defs, EnterFirst(lx.firstmap, {Spelling[name][1]}, e), lx.names, lx.keywords,
                         eolns, brackets, lx.errorLexem, lx.indentLexems, lx.error))
<1> DEFINE f == EnterFirst(lx.firstmap, {Spelling[name][1]}, e)
           new == Record(lx.defs, f, lx.names, lx.keywords, eolns, brackets, lx.errorLexem, lx.indentLexems, lx.error)
           old == lx.firstmap
<1>1. lx \in Lexers
  BY DEF LexerInv, LexemsEntered
<1>2. e \in Int /\ old \in Firstmaps /\ Len(lx.defs) \in Nat
  BY <1>1, LexerParts DEF EolnEntry, BracketEntry
<1>3. \A n \in DOMAIN Spelling : Spelling[n] # <<>> => Spelling[n][1] \in Chars
  BY CharsAssumption
<1>4. /\ f \in Firstmaps
      /\ \A c \in Chars : \A x : Has(old, c, x) => Has(f, c, x)
      /\ Has(f, Spelling[name][1], e)
  BY <1>2, <1>3, EnterKeeps
<1>5. Ascends(f, Len(lx.defs))
  <2>1. Ascends(old, Len(lx.defs)) /\ Len(lx.defs) <= Len(lx.defs)
    BY <1>2 DEF LexerInv, LexemsEntered
  <2>2. QED
    BY <1>2, <2>1, EnterAscends
<1> HIDE DEF f
<1>6. /\ new.defs = lx.defs /\ new.firstmap = f /\ new.eolnComments = eolns
      /\ new.bracketComments = brackets /\ new.error = lx.error
  BY DEF Record
<1>7. new \in Lexers
  BY <1>1, <1>4, LexerParts DEF Lexers, Record
<1> HIDE DEF new
<1>8. DefsEntered(lx.defs, f) /\ KeywordsLiteral(lx.defs)
  BY <1>4 DEF LexerInv, LexemsEntered, DefsEntered
<1>9. IsEntered(f, name, e)
  BY <1>4 DEF IsEntered
<1>10. \A n \in DOMAIN Spelling : \A x : IsEntered(old, n, x) => IsEntered(f, n, x)
  BY <1>3, <1>4 DEF IsEntered
<1>11. lx.error = "none" => EolnsEntered(eolns, f)
  <2> HAVE lx.error = "none"
  <2>1. \A k \in DOMAIN lx.eolnComments : lx.eolnComments[k] \in DOMAIN Spelling /\ IsEntered(old, lx.eolnComments[k], EolnEntry)
    BY <1>1, LexerParts DEF LexerInv, EolnsEntered
  <2>2. QED
    BY <1>9, <1>10, <2>1 DEF EolnsEntered
<1>12. lx.error = "none" => BracketsEntered(brackets, f)
  <2> HAVE lx.error = "none"
  <2>1. \A k \in DOMAIN lx.bracketComments : IsEntered(old, lx.bracketComments[k].open, BracketEntry)
    BY DEF LexerInv, BracketsEntered
  <2>2. \A k \in DOMAIN lx.bracketComments : lx.bracketComments[k].open \in DOMAIN Spelling
    <3>1. lx.bracketComments \in Seq(Brackets)
      BY <1>1, LexerParts
    <3>2. \A k \in DOMAIN lx.bracketComments : lx.bracketComments[k] \in Brackets
      BY <3>1
    <3>3. \A b \in Brackets : b.open \in DOMAIN Spelling
      BY DEF Brackets
    <3>4. QED
      BY <3>2, <3>3
  <2>3. QED
    BY <1>9, <1>10, <2>1, <2>2 DEF BracketsEntered
<1>13. LexerInv(new)
  BY <1>5, <1>6, <1>7, <1>8, <1>11, <1>12 DEF LexerInv, LexemsEntered
<1>14. QED
  BY <1>13 DEF new, f

LEMMA DefineEolnCommentKeeps ==
  ASSUME NEW lx, LexerInv(lx), NEW open \in DOMAIN Spelling
  PROVE  LexerInv(defineEolnComment(lx, open))
<1> DEFINE eolns == Append(lx.eolnComments, open)
           new == [lx EXCEPT !.eolnComments = eolns]
           full == [new EXCEPT !.firstmap = EnterFirst(new.firstmap, {Spelling[open][1]}, EolnEntry)]
           as(f) == Record(lx.defs, f, lx.names, lx.keywords, eolns, lx.bracketComments,
                           lx.errorLexem, lx.indentLexems, lx.error)
<1>1. lx \in Lexers
  BY DEF LexerInv, LexemsEntered
<1>2. defineEolnComment(lx, open) = IF Spelling[open] = <<>> THEN Failed(new, "SyntaxErrorInLexer") ELSE full
  BY DEF defineEolnComment
<1>3. /\ eolns \in Seq(DOMAIN Spelling)
      /\ \A k \in DOMAIN eolns : \/ k \in DOMAIN lx.eolnComments /\ eolns[k] = lx.eolnComments[k]
                                 \/ eolns[k] = open
  <2>1. lx.eolnComments \in Seq(DOMAIN Spelling)
    BY <1>1, LexerParts
  <2>2. QED
    BY <2>1, AppendProperties
<1> HIDE DEF eolns
<1>4. new = as(lx.firstmap)
  <2>1. new = [SameAs(lx) EXCEPT !.eolnComments = eolns]
    BY <1>1, LexerIsRecord, Zenon
  <2> HIDE DEF new
  <2>2. QED
    BY <2>1, SetEolns DEF SameAs
<1>5. full = as(EnterFirst(lx.firstmap, {Spelling[open][1]}, EolnEntry))
  <2>1. new.firstmap = lx.firstmap
    BY <1>4 DEF Record
  <2>2. \A x : [as(lx.firstmap) EXCEPT !.firstmap = x] = as(x)
    BY SetFirstmap
  <2> HIDE DEF new, as
  <2>3. full = [as(lx.firstmap) EXCEPT !.firstmap = EnterFirst(lx.firstmap, {Spelling[open][1]}, EolnEntry)]
    BY <1>4, <2>1, Zenon
  <2>4. QED
    BY <2>2, <2>3, Zenon
<1> HIDE DEF full, new
<1>6. CASE Spelling[open] = <<>>
  <2>1. LexemsEntered(new)
    <3>1. as(lx.firstmap) \in Lexers
      BY <1>1, <1>3, LexerParts DEF Lexers, Record
    <3>2. new.defs = lx.defs /\ new.firstmap = lx.firstmap
      BY <1>4 DEF Record
    <3> HIDE DEF as
    <3>3. QED
      BY <1>4, <3>1, <3>2 DEF LexerInv, LexemsEntered
  <2>2. LexerInv(Failed(new, "SyntaxErrorInLexer"))
    BY <2>1, FailedKeeps DEF Reasons
  <2>3. QED
    BY <1>2, <1>6, <2>2
<1>7. CASE Spelling[open] # <<>>
  <2>1. lx.bracketComments \in Seq(Brackets)
    BY <1>1, LexerParts
  <2>2. PICK e \in {EolnEntry, BracketEntry} : e = EolnEntry
    OBVIOUS
  <2>3. \A k \in DOMAIN eolns : \/ k \in DOMAIN lx.eolnComments /\ eolns[k] = lx.eolnComments[k]
                                \/ eolns[k] = open /\ e = EolnEntry
    BY <1>3, <2>2
  <2>4. \A k \in DOMAIN lx.bracketComments :
          \/ k \in DOMAIN lx.bracketComments /\ lx.bracketComments[k] = lx.bracketComments[k]
          \/ lx.bracketComments[k].open = open /\ e = BracketEntry
    OBVIOUS
  <2>5. LexerInv(as(EnterFirst(lx.firstmap, {Spelling[open][1]}, e)))
    BY <1>3, <1>7, <2>1, <2>3, <2>4, NewCommentInv
  <2> HIDE DEF as
  <2>6. QED
    BY <1>2, <1>5, <1>7, <2>2, <2>5
<1>8. QED
  BY <1>6, <1>7

LEMMA DefineBracketCommentKeeps ==
  ASSUME NEW lx, LexerInv(lx), NEW open \in DOMAIN Spelling, NEW close \in DOMAIN Spelling
  PROVE  LexerInv(defineBracketComment(lx, open, close))
<1> DEFINE b == [open |-> open, close |-> close]
           brackets == Append(lx.bracketComments, b)
           new == [lx EXCEPT !.bracketComments = brackets]
           full == [new EXCEPT !.firstmap = EnterFirst(new.firstmap, {Spelling[open][1]}, BracketEntry)]
           as(f) == Record(lx.defs, f, lx.names, lx.keywords, lx.eolnComments, brackets,
                           lx.errorLexem, lx.indentLexems, lx.error)
<1>1. lx \in Lexers
  BY DEF LexerInv, LexemsEntered
<1>2. defineBracketComment(lx, open, close) =
        IF Spelling[open] = <<>> \/ Spelling[close] = <<>> THEN Failed(new, "SyntaxErrorInLexer") ELSE full
  BY DEF defineBracketComment
<1>3. /\ brackets \in Seq(Brackets)
      /\ \A k \in DOMAIN brackets : \/ k \in DOMAIN lx.bracketComments /\ brackets[k] = lx.bracketComments[k]
                                    \/ brackets[k].open = open
  <2>1. lx.bracketComments \in Seq(Brackets)
    BY <1>1, LexerParts
  <2>2. b \in Brackets /\ b.open = open
    BY DEF Brackets
  <2> HIDE DEF b
  <2>3. QED
    BY <2>1, <2>2, AppendProperties
<1> HIDE DEF brackets
<1>4. new = as(lx.firstmap)
  <2>1. new = [SameAs(lx) EXCEPT !.bracketComments = brackets]
    BY <1>1, LexerIsRecord, Zenon
  <2> HIDE DEF new
  <2>2. QED
    BY <2>1, SetBrackets DEF SameAs
<1>5. full = as(EnterFirst(lx.firstmap, {Spelling[open][1]}, BracketEntry))
  <2>1. new.firstmap = lx.firstmap
    BY <1>4 DEF Record
  <2>2. \A x : [as(lx.firstmap) EXCEPT !.firstmap = x] = as(x)
    BY SetFirstmap
  <2> HIDE DEF new, as
  <2>3. full = [as(lx.firstmap) EXCEPT !.firstmap = EnterFirst(lx.firstmap, {Spelling[open][1]}, BracketEntry)]
    BY <1>4, <2>1, Zenon
  <2>4. QED
    BY <2>2, <2>3, Zenon
<1> HIDE DEF full, new
<1>6. CASE Spelling[open] = <<>> \/ Spelling[close] = <<>>
  <2>1. LexemsEntered(new)
    <3>1. as(lx.firstmap) \in Lexers
      BY <1>1, <1>3, LexerParts DEF Lexers, Record
    <3>2. new.defs = lx.defs /\ new.firstmap = lx.firstmap
      BY <1>4 DEF Record
    <3> HIDE DEF as
    <3>3. QED
      BY <1>4, <3>1, <3>2 DEF LexerInv, LexemsEntered
  <2>2. LexerInv(Failed(new, "SyntaxErrorInLexer"))
    BY <2>1, FailedKeeps DEF Reasons
  <2>3. QED
    BY <1>2, <1>6, <2>2
<1>7. CASE ~(Spelling[open] = <<>> \/ Spelling[close] = <<>>)
  <2>1. lx.eolnComments \in Seq(DOMAIN Spelling)
    BY <1>1, LexerParts
  <2>2. PICK e \in {EolnEntry, BracketEntry} : e = BracketEntry
    OBVIOUS
  <2>3. \A k \in DOMAIN lx.eolnComments :
          \/ k \in DOMAIN lx.eolnComments /\ lx.eolnComments[k] = lx.eolnComments[k]
          \/ lx.eolnComments[k] = open /\ e = EolnEntry
    OBVIOUS
  <2>4. \A k \in DOMAIN brackets : \/ k \in DOMAIN lx.bracketComments /\ brackets[k] = lx.bracketComments[k]
                                   \/ brackets[k].open = open /\ e = BracketEntry
    BY <1>3, <2>2
  <2>5. LexerInv(as(EnterFirst(lx.firstmap, {Spelling[open][1]}, e)))
    BY <1>3, <1>7, <2>1, <2>3, <2>4, NewCommentInv
  <2> HIDE DEF as
  <2>6. QED
    BY <1>2, <1>5, <1>7, <2>2, <2>5
<1>8. QED
  BY <1>6, <1>7

LEMMA LoadIndentKeeps ==
  ASSUME NEW lx, LexerInv(lx), NEW first \in Int, NEW tabSize \in Nat
  PROVE  LexerInv(LoadIndent(lx, first, tabSize))
<1> DEFINE new == [open |-> first, close |-> first + 1, newLine |-> first + 2, tabSize |-> tabSize]
<1>1. new \in [open : Int, close : Int, newLine : Int, tabSize : Nat]
  OBVIOUS
<1> HIDE DEF new
<1>2. LexerInv([lx EXCEPT !.indentLexems = new])
  BY <1>1, SetIndentKeeps
<1>3. QED
  BY <1>2 DEF LoadIndent, new

-----------------------------------------------------------------------------
(* The lexer a compiler loads.                                             *)

(* Entries of the table of a compiler.                                     *)
IsEntry(e) ==
  CASE e.list = "bad"     -> e.value \in Words \cup {"?"}
    [] e.list = "token"   -> e.value.name \in Words /\ e.value.source \in Words /\ e.value.select \in Int
    [] e.list = "ignore"  -> e.value \in Words
    [] e.list = "bracket" -> e.value.open \in DOMAIN Spelling /\ e.value.close \in DOMAIN Spelling
    [] e.list = "eoln"    -> e.value \in DOMAIN Spelling
    [] e.list = "indentl" -> e.value.open \in Int /\ e.value.tabSize \in Nat
    [] e.list = "keyword" -> e.value \in Words

Lists == {"bad", "token", "ignore", "bracket", "eoln", "indentl", "keyword"}

LEMMA DefineKeeps ==
  ASSUME NEW lx, LexerInv(lx), NEW e, e.list \in Lists, IsEntry(e)
  PROVE  LexerInv(Define(lx, e))
<1>1. CASE e.list = "bad"
  <2>1. e.value \in Words \cup {"?"} /\ Define(lx, e) = defineBadLexem(lx, e.value)
    BY <1>1 DEF IsEntry, Define
  <2>2. QED
    BY <2>1, DefineBadLexemKeeps
<1>2. CASE e.list = "token"
  <2>1. /\ e.value.name \in Words /\ e.value.source \in Words /\ e.value.select \in Int
        /\ Define(lx, e) = defineLexem(lx, e.value.name, e.value.source, e.value.select)
    BY <1>2 DEF IsEntry, Define
  <2>2. QED
    BY <2>1, DefineLexemKeeps
<1>3. CASE e.list = "ignore"
  <2>1. e.value \in Words /\ Define(lx, e) = defineIgnore(lx, e.value)
    BY <1>3 DEF IsEntry, Define
  <2>2. QED
    BY <2>1, DefineIgnoreKeeps
<1>4. CASE e.list = "bracket"
  <2>1. /\ e.value.open \in DOMAIN Spelling /\ e.value.close \in DOMAIN Spelling
        /\ Define(lx, e) = defineBracketComment(lx, e.value.open, e.value.close)
    BY <1>4 DEF IsEntry, Define
  <2>2. QED
    BY <2>1, DefineBracketCommentKeeps
<1>5. CASE e.list = "eoln"
  <2>1. e.value \in DOMAIN Spelling /\ Define(lx, e) = defineEolnComment(lx, e.value)
    BY <1>5 DEF IsEntry, Define
  <2>2. QED
    BY <2>1, DefineEolnCommentKeeps
<1>6. CASE e.list = "indentl"
  <2>1. /\ e.value.open \in Int /\ e.value.tabSize \in Nat
        /\ Define(lx, e) = LoadIndent(lx, e.value.open, e.value.tabSize)
    BY <1>6 DEF IsEntry, Define
  <2>2. QED
    BY <2>1, LoadIndentKeeps
<1>7. CASE e.list = "keyword"
  <2>1. e.value \in Words /\ Define(lx, e) = defineKeyword(lx, e.value)
    BY <1>7 DEF IsEntry, Define
  <2>2. QED
    BY <2>1, DefineKeywordKeeps
<1>8. QED
  BY <1>1, <1>2, <1>3, <1>4, <1>5, <1>6, <1>7 DEF Lists

(* Loading defines them one after the other.                               *)
LEMMA DefineAllKeeps ==
  ASSUME NEW entries, Len(entries) \in Nat,
         \A k \in 1 .. Len(entries) : entries[k].list \in Lists /\ IsEntry(entries[k])
  PROVE  LexerInv(DefineAll(entries))
<1> DEFINE n == Len(entries)
           D == {lx \in Lexers : LexerInv(lx)}
           G == [k \in 1 .. n |-> [lx \in D |-> Define(lx, entries[k])]]
           IsAfter(f) == f = [k \in 0 .. n |-> IF k = 0 THEN EmptyLexer ELSE Define(f[k - 1], entries[k])]
           after == CHOOSE f : IsAfter(f)
<1>1. \A lx : lx \in D <=> LexerInv(lx)
  BY DEF LexerInv, LexemsEntered
<1> HIDE DEF D
<1>2. EmptyLexer \in D
  BY <1>1, EmptyLexerInv
<1>3. \A k \in 1 .. n : \A lx \in D : Define(lx, entries[k]) \in D
  BY <1>1, DefineKeeps
<1>4. \E f : IsAfter(f)
  <2>1. G \in [1 .. n -> [D -> D]]
    BY <1>3
  <2>2. \A k \in 1 .. n : \A lx \in D : G[k][lx] = Define(lx, entries[k])
    OBVIOUS
  <2> HIDE DEF G
  <2>3. PICK f \in [0 .. n -> D] : \A k \in 0 .. n : f[k] = IF k = 0 THEN EmptyLexer ELSE G[k][f[k - 1]]
    <3>1. n \in Nat
      OBVIOUS
    <3> HIDE DEF n
    <3>2. \E f \in [0 .. n -> D] : Follows(f, n, EmptyLexer, G)
      BY <1>2, <2>1, <3>1, StepsExist
    <3>3. QED
      BY <3>2 DEF Follows
  <2>4. ASSUME NEW k \in 0 .. n PROVE f[k] = IF k = 0 THEN EmptyLexer ELSE Define(f[k - 1], entries[k])
    <3>1. CASE k = 0
      BY <2>3, <3>1
    <3>2. CASE k # 0
      <4>1. k \in 1 .. n /\ k - 1 \in 0 .. n
        BY <3>2
      <4>2. f[k - 1] \in D /\ f[k] = G[k][f[k - 1]]
        BY <2>3, <3>2, <4>1
      <4>3. QED
        BY <2>2, <3>2, <4>1, <4>2
    <3>3. QED
      BY <3>1, <3>2
  <2>5. f = [k \in 0 .. n |-> IF k = 0 THEN EmptyLexer ELSE Define(f[k - 1], entries[k])]
    BY <2>4
  <2>6. QED
    BY <2>5
<1>5. IsAfter(after)
  BY <1>4
<1>6. DefineAll(entries) = after[n]
  BY DEF DefineAll
<1>7. \A k \in 0 .. n : after[k] = IF k = 0 THEN EmptyLexer ELSE Define(after[k - 1], entries[k])
  BY <1>5
<1> HIDE DEF after
<1> DEFINE P == {k \in Nat : k <= n => after[k] \in D}
<1>8. 0 \in P
  <2>1. 0 \in 0 .. n
    OBVIOUS
  <2>2. QED
    BY <1>2, <1>7, <2>1
<1>9. ASSUME NEW k \in 0 .. n - 1, k \in P
      PROVE  k + 1 \in P
  <2>1. k + 1 \in 1 .. n /\ k + 1 \in 0 .. n /\ k + 1 # 0 /\ k + 1 - 1 = k /\ k + 1 \in Nat /\ k <= n
    OBVIOUS
  <2>2. after[k + 1] = Define(after[k], entries[k + 1])
    BY <1>7, <2>1
  <2>3. after[k] \in D
    BY <1>9, <2>1
  <2>4. after[k + 1] \in D
    BY <1>3, <2>1, <2>2, <2>3
  <2>5. QED
    BY <2>1, <2>4
<1>10. n \in P
  <2> HIDE DEF P
  <2>1. 0 .. n \subseteq P
    BY <1>8, <1>9, UpTo
  <2>2. QED
    BY <2>1
<1>11. QED
  BY <1>1, <1>6, <1>10

(* The numbers of a finite set in ascending order: each has a rank.        *)
LEMMA OrderedElements ==
  ASSUME NEW S \in SUBSET Nat, IsFiniteSet(S)
  PROVE  /\ Cardinality(S) \in Nat
         /\ DOMAIN Ordered(S) = 1 .. Cardinality(S)
         /\ \A k \in 1 .. Cardinality(S) : Ordered(S)[k] \in S
<1> DEFINE n == Cardinality(S)
           Below(i) == {j \in S : j < i}
           rank == [i \in S |-> Cardinality(Below(i))]
<1>1. n \in Nat
  BY FS_CardinalityType
<1>2. \A i \in S : IsFiniteSet(Below(i)) /\ Cardinality(Below(i)) \in Nat
  <2>1. ASSUME NEW i \in S PROVE IsFiniteSet(Below(i)) /\ Cardinality(Below(i)) \in Nat
    <3>1. Below(i) \in SUBSET S
      OBVIOUS
    <3> HIDE DEF Below
    <3>2. IsFiniteSet(Below(i))
      BY <3>1, FS_Subset
    <3>3. QED
      BY <3>2, FS_CardinalityType
  <2>2. QED
    BY <2>1
<1>3. ASSUME NEW T \in SUBSET S, NEW i \in S, i \notin Below(i), Below(i) \subseteq T, i \in T
      PROVE  Cardinality(Below(i)) < Cardinality(T)
  <2>1. IsFiniteSet(T) /\ Cardinality(T) \in Nat
    BY FS_Subset, FS_CardinalityType
  <2>2. Below(i) \in SUBSET T /\ Below(i) # T
    BY <1>3
  <2> HIDE DEF Below
  <2>3. Cardinality(Below(i)) <= Cardinality(T) /\ Cardinality(T) # Cardinality(Below(i))
    BY <2>1, <2>2, FS_Subset
  <2>4. QED
    BY <1>2, <2>1, <2>3
<1>4. ASSUME NEW i \in S PROVE rank[i] \in 0 .. n - 1
  <2>1. i \notin Below(i) /\ Below(i) \subseteq S
    OBVIOUS
  <2> HIDE DEF Below
  <2>2. Cardinality(Below(i)) < Cardinality(S)
    BY <1>3, <2>1
  <2>3. QED
    BY <1>1, <1>2, <2>2
<1>5. ASSUME NEW i \in S, NEW j \in S, i < j PROVE rank[i] < rank[j]
  <2>1. i \notin Below(i) /\ Below(i) \subseteq Below(j) /\ i \in Below(j) /\ Below(j) \in SUBSET S
    <3>1. i \in Nat /\ j \in Nat /\ ~(i < i) /\ \A k \in S : k \in Nat /\ (k < i => k < j)
      BY <1>5
    <3>2. QED
      BY <1>5, <3>1
  <2> HIDE DEF Below
  <2>2. Cardinality(Below(i)) < Cardinality(Below(j))
    BY <1>3, <2>1
  <2>3. QED
    BY <2>2
<1> HIDE DEF rank
<1>6. rank \in Injection(S, 0 .. n - 1)
  <2>1. rank \in [S -> 0 .. n - 1]
    <3>1. rank = [i \in S |-> rank[i]]
      BY DEF rank
    <3>2. QED
      BY <1>4, <3>1
  <2>2. ASSUME NEW i \in S, NEW j \in S, i # j PROVE rank[i] # rank[j]
    <3>1. i < j \/ j < i
      BY <2>2
    <3>2. rank[i] \in Int /\ rank[j] \in Int
      BY <1>4
    <3>3. QED
      BY <1>5, <3>1, <3>2
  <2>3. QED
    BY <2>1, <2>2 DEF Injection, IsInjective
<1>7. rank \in Surjection(S, 0 .. n - 1)
  <2>1. IsFiniteSet(0 .. n - 1) /\ Cardinality(0 .. n - 1) = n
    <3>1. 0 \in Int /\ n - 1 \in Int /\ (IF 0 > n - 1 THEN 0 ELSE n - 1 - 0 + 1) = n
      BY <1>1
    <3> HIDE DEF n
    <3>2. QED
      BY <3>1, FS_Interval
  <2>2. QED
    BY <1>6, <2>1, FS_Injection
<1>8. ASSUME NEW k \in 1 .. n PROVE Ordered(S)[k] \in S
  <2>1. k - 1 \in 0 .. n - 1
    BY <1>1
  <2>2. PICK i \in S : rank[i] = k - 1
    BY <1>7, <2>1 DEF Surjection
  <2>3. Cardinality(Below(i)) = k - 1
    BY <2>2 DEF rank
  <2>4. (CHOOSE m \in S : Cardinality(Below(m)) = k - 1) \in S
    BY <2>3, Zenon
  <2>5. QED
    BY <2>4 DEF Ordered
<1>9. QED
  BY <1>1, <1>8 DEF Ordered

(* Lists of entries.                                                       *)
IsEntries(s) == \E S : s \in Seq(S) /\ \A e \in S : e.list \in Lists /\ IsEntry(e)

LEMMA EntriesConcat ==
  ASSUME NEW s, NEW t, IsEntries(s), IsEntries(t)
  PROVE  IsEntries(s \o t)
<1>1. PICK S : s \in Seq(S) /\ \A e \in S : e.list \in Lists /\ IsEntry(e)
  BY DEF IsEntries
<1>2. PICK T : t \in Seq(T) /\ \A e \in T : e.list \in Lists /\ IsEntry(e)
  BY DEF IsEntries
<1>3. s \in Seq(S \cup T) /\ t \in Seq(S \cup T)
  BY <1>1, <1>2, SeqMonotonic
<1>4. s \o t \in Seq(S \cup T)
  BY <1>3, ConcatProperties
<1>5. QED
  BY <1>1, <1>2, <1>4 DEF IsEntries

LEMMA ListEntries ==
  ASSUME NEW table, NEW list \in Lists, NEW n \in Nat, DOMAIN table[list] = 1 .. n,
         \A k \in 1 .. n : IsEntry([list |-> list, value |-> table[list][k]])
  PROVE  IsEntries(Entries(table, list))
<1> DEFINE e(k) == [list |-> list, value |-> table[list][k]]
           S == {e(k) : k \in 1 .. n}
<1>1. Entries(table, list) = [k \in 1 .. n |-> e(k)]
  BY DEF Entries
<1>2. \A k \in 1 .. n : e(k) \in S
  OBVIOUS
<1>3. \A x \in S : x.list \in Lists /\ IsEntry(x)
  <2>1. \A k \in 1 .. n : e(k).list \in Lists /\ IsEntry(e(k))
    OBVIOUS
  <2> HIDE DEF e
  <2>2. QED
    BY <2>1
<1> HIDE DEF e, S
<1>4. [k \in 1 .. n |-> e(k)] \in Seq(S)
  BY <1>2
<1>5. QED
  BY <1>1, <1>3, <1>4 DEF IsEntries

(* The table of a lexer has entries only.                                  *)
LEMMA TableEntries ==
  ASSUME NEW lx, LexerInv(lx), NEW list \in Lists
  PROVE  IsEntries(Entries(LexerTable(lx), list))
<1> DEFINE table == LexerTable(lx)
           named == {k \in DOMAIN lx.defs : IsNamedPattern(lx.defs[k])}
           keywords == {k \in DOMAIN lx.defs : lx.defs[k].keyword}
           ignored == {k \in DOMAIN lx.defs : IsIgnored(lx.defs[k])}
<1>1. lx \in Lexers
  BY DEF LexerInv, LexemsEntered
<1>2. /\ lx.defs \in Seq(Definitions) /\ lx.eolnComments \in Seq(DOMAIN Spelling)
      /\ lx.bracketComments \in Seq(Brackets) /\ lx.errorLexem \in Words \cup {"?"}
      /\ lx.indentLexems \in [open : Int, close : Int, newLine : Int, tabSize : Nat]
  BY <1>1, LexerParts
<1>3. ASSUME NEW S \in SUBSET DOMAIN lx.defs
      PROVE  /\ Cardinality(S) \in Nat /\ DOMAIN Ordered(S) = 1 .. Cardinality(S)
             /\ \A k \in 1 .. Cardinality(S) : lx.defs[Ordered(S)[k]] \in Definitions
  <2>1. DOMAIN lx.defs = 1 .. Len(lx.defs) /\ Len(lx.defs) \in Nat
    BY <1>2
  <2>2. IsFiniteSet(1 .. Len(lx.defs))
    BY <2>1, FS_Interval, 1 \in Int
  <2>3. IsFiniteSet(S) /\ S \in SUBSET Nat
    BY <2>1, <2>2, FS_Subset
  <2>4. /\ Cardinality(S) \in Nat /\ DOMAIN Ordered(S) = 1 .. Cardinality(S)
        /\ \A k \in 1 .. Cardinality(S) : Ordered(S)[k] \in S
    BY <2>3, OrderedElements
  <2>5. \A i \in S : lx.defs[i] \in Definitions
    BY <1>2
  <2>6. QED
    BY <2>4, <2>5
<1>4. \A d \in Definitions : d.name \in Words /\ d.source \in Words /\ d.select \in Int
  BY DEF Definitions
<1>5. named \in SUBSET DOMAIN lx.defs /\ keywords \in SUBSET DOMAIN lx.defs /\ ignored \in SUBSET DOMAIN lx.defs
  OBVIOUS
<1> HIDE DEF named, keywords, ignored
<1>6. table = [bad     |-> IF lx.errorLexem = "?" THEN <<>> ELSE <<lx.errorLexem>>,
               token   |-> [k \in DOMAIN Ordered(named) |->
                              [name |-> lx.defs[Ordered(named)[k]].name,
                               source |-> lx.defs[Ordered(named)[k]].source,
                               select |-> lx.defs[Ordered(named)[k]].select]],
               keyword |-> [k \in DOMAIN Ordered(keywords) |-> lx.defs[Ordered(keywords)[k]]["name"]],
               ignore  |-> [k \in DOMAIN Ordered(ignored) |-> lx.defs[Ordered(ignored)[k]]["source"]],
               bracket |-> lx.bracketComments,
               eoln    |-> lx.eolnComments,
               indentl |-> IF lx.indentLexems.open = 0 THEN <<>>
                           ELSE << [open |-> lx.indentLexems.open, tabSize |-> lx.indentLexems.tabSize] >>]
  BY DEF LexerTable, named, keywords, ignored
<1> HIDE DEF table
<1>7. CASE list = "bad"
  <2>1. table["bad"] = IF lx.errorLexem = "?" THEN <<>> ELSE <<lx.errorLexem>>
    BY <1>6
  <2>2. \E n \in Nat : /\ DOMAIN table["bad"] = 1 .. n
                       /\ \A k \in 1 .. n : IsEntry([list |-> "bad", value |-> table["bad"][k]])
    <3>1. CASE lx.errorLexem = "?"
      <4>1. DOMAIN table["bad"] = 1 .. 0 /\ 0 \in Nat /\ 1 .. 0 = {}
        BY <2>1, <3>1
      <4>2. QED
        BY <4>1
    <3>2. CASE lx.errorLexem # "?"
      <4>1. DOMAIN table["bad"] = 1 .. 1 /\ 1 \in Nat /\ \A k \in 1 .. 1 : table["bad"][k] \in Words \cup {"?"}
        BY <1>2, <2>1, <3>2
      <4>2. QED
        BY <4>1 DEF IsEntry
    <3>3. QED
      BY <3>1, <3>2
  <2>3. QED
    BY <1>7, <2>2, ListEntries DEF table
<1>8. CASE list = "token"
  <2>1. table["token"] = [k \in DOMAIN Ordered(named) |->
                            [name |-> lx.defs[Ordered(named)[k]].name,
                             source |-> lx.defs[Ordered(named)[k]].source,
                             select |-> lx.defs[Ordered(named)[k]].select]]
    BY <1>6
  <2>2. DOMAIN table["token"] = 1 .. Cardinality(named) /\ Cardinality(named) \in Nat
    BY <1>3, <1>5, <2>1
  <2>3. ASSUME NEW k \in 1 .. Cardinality(named)
        PROVE  IsEntry([list |-> "token", value |-> table["token"][k]])
    <3>1. lx.defs[Ordered(named)[k]] \in Definitions /\ k \in DOMAIN Ordered(named)
      BY <1>3, <1>5
    <3>2. /\ table["token"][k].name \in Words /\ table["token"][k].source \in Words
          /\ table["token"][k].select \in Int
      BY <1>4, <2>1, <3>1
    <3>3. QED
      BY <3>2 DEF IsEntry
  <2>4. QED
    BY <1>8, <2>2, <2>3, ListEntries DEF table
<1>9. CASE list = "keyword"
  <2>1. table["keyword"] = [k \in DOMAIN Ordered(keywords) |-> lx.defs[Ordered(keywords)[k]].name]
    BY <1>6
  <2>2. DOMAIN table["keyword"] = 1 .. Cardinality(keywords) /\ Cardinality(keywords) \in Nat
    BY <1>3, <1>5, <2>1
  <2>3. ASSUME NEW k \in 1 .. Cardinality(keywords)
        PROVE  IsEntry([list |-> "keyword", value |-> table["keyword"][k]])
    <3>1. lx.defs[Ordered(keywords)[k]] \in Definitions /\ k \in DOMAIN Ordered(keywords)
      BY <1>3, <1>5
    <3>2. table["keyword"][k] \in Words
      BY <1>4, <2>1, <3>1
    <3>3. QED
      BY <3>2 DEF IsEntry
  <2>4. QED
    BY <1>9, <2>2, <2>3, ListEntries DEF table
<1>10. CASE list = "ignore"
  <2>1. table["ignore"] = [k \in DOMAIN Ordered(ignored) |-> lx.defs[Ordered(ignored)[k]].source]
    BY <1>6
  <2>2. DOMAIN table["ignore"] = 1 .. Cardinality(ignored) /\ Cardinality(ignored) \in Nat
    BY <1>3, <1>5, <2>1
  <2>3. ASSUME NEW k \in 1 .. Cardinality(ignored)
        PROVE  IsEntry([list |-> "ignore", value |-> table["ignore"][k]])
    <3>1. lx.defs[Ordered(ignored)[k]] \in Definitions /\ k \in DOMAIN Ordered(ignored)
      BY <1>3, <1>5
    <3>2. table["ignore"][k] \in Words
      BY <1>4, <2>1, <3>1
    <3>3. QED
      BY <3>2 DEF IsEntry
  <2>4. QED
    BY <1>10, <2>2, <2>3, ListEntries DEF table
<1>11. CASE list = "bracket"
  <2>1. table["bracket"] = lx.bracketComments
    BY <1>6
  <2>2. DOMAIN table["bracket"] = 1 .. Len(lx.bracketComments) /\ Len(lx.bracketComments) \in Nat
    BY <1>2, <2>1
  <2>3. ASSUME NEW k \in 1 .. Len(lx.bracketComments)
        PROVE  IsEntry([list |-> "bracket", value |-> table["bracket"][k]])
    <3>1. table["bracket"][k] \in Brackets
      BY <1>2, <2>1, ElementOfSeq
    <3>2. table["bracket"][k].open \in DOMAIN Spelling /\ table["bracket"][k].close \in DOMAIN Spelling
      BY <3>1 DEF Brackets
    <3>3. QED
      BY <3>2 DEF IsEntry
  <2>4. QED
    BY <1>11, <2>2, <2>3, ListEntries DEF table
<1>12. CASE list = "eoln"
  <2>1. table["eoln"] = lx.eolnComments
    BY <1>6
  <2>2. DOMAIN table["eoln"] = 1 .. Len(lx.eolnComments) /\ Len(lx.eolnComments) \in Nat
    BY <1>2, <2>1
  <2>3. ASSUME NEW k \in 1 .. Len(lx.eolnComments)
        PROVE  IsEntry([list |-> "eoln", value |-> table["eoln"][k]])
    <3>1. table["eoln"][k] \in DOMAIN Spelling
      BY <1>2, <2>1, ElementOfSeq
    <3>2. QED
      BY <3>1 DEF IsEntry
  <2>4. QED
    BY <1>12, <2>2, <2>3, ListEntries DEF table
<1>13. CASE list = "indentl"
  <2>1. table["indentl"] = IF lx.indentLexems.open = 0 THEN <<>>
                           ELSE << [open |-> lx.indentLexems.open, tabSize |-> lx.indentLexems.tabSize] >>
    BY <1>6
  <2>2. \E n \in Nat : /\ DOMAIN table["indentl"] = 1 .. n
                       /\ \A k \in 1 .. n : IsEntry([list |-> "indentl", value |-> table["indentl"][k]])
    <3>1. CASE lx.indentLexems.open = 0
      <4>1. DOMAIN table["indentl"] = 1 .. 0 /\ 0 \in Nat /\ 1 .. 0 = {}
        BY <2>1, <3>1
      <4>2. QED
        BY <4>1
    <3>2. CASE lx.indentLexems.open # 0
      <4>1. table["indentl"] = << [open |-> lx.indentLexems.open, tabSize |-> lx.indentLexems.tabSize] >>
        BY <2>1, <3>2
      <4>2. DOMAIN table["indentl"] = 1 .. 1 /\ 1 \in Nat
        BY <4>1
      <4>3. \A k \in 1 .. 1 : table["indentl"][k].open \in Int /\ table["indentl"][k].tabSize \in Nat
        BY <1>2, <4>1
      <4>4. QED
        BY <4>2, <4>3 DEF IsEntry
    <3>3. QED
      BY <3>1, <3>2
  <2>3. QED
    BY <1>13, <2>2, ListEntries DEF table
<1>14. QED
  BY <1>7, <1>8, <1>9, <1>10, <1>11, <1>12, <1>13 DEF Lists

(* The lexer a compiler loads has its definitions in order.                *)
LEMMA LoadLexerKeeps ==
  ASSUME NEW lx, LexerInv(lx), NEW order \in ClassOrders
  PROVE  LexerInv(LoadLexer(LexerTable(lx), order))
<1> DEFINE table == LexerTable(lx)
<1>1. \A list \in Lists : IsEntries(Entries(table, list))
  BY TableEntries
<1> HIDE DEF table
<1>2. \A i \in 1 .. 5 : order[i] \in Classes
  BY DEF ClassOrders
<1>3. ASSUME NEW class \in Classes PROVE IsEntries(ClassEntries(table, class))
  <2>1. CASE class = "comment"
    <3>1. "bracket" \in Lists /\ "eoln" \in Lists
      BY DEF Lists
    <3>2. IsEntries(Entries(table, "bracket")) /\ IsEntries(Entries(table, "eoln"))
      BY <1>1, <3>1
    <3>3. ClassEntries(table, class) = Entries(table, "bracket") \o Entries(table, "eoln")
      BY <2>1 DEF ClassEntries
    <3>4. QED
      BY <3>2, <3>3, EntriesConcat
  <2>2. CASE class # "comment"
    <3>1. class \in Lists /\ ClassEntries(table, class) = Entries(table, class)
      BY <2>2 DEF Classes, Lists, ClassEntries
    <3>2. QED
      BY <1>1, <3>1
  <2>3. QED
    BY <2>1, <2>2
<1>4. IsEntries(OfClasses(table, order))
  <2> DEFINE e(i) == ClassEntries(table, order[i])
  <2>1. IsEntries(e(1)) /\ IsEntries(e(2)) /\ IsEntries(e(3)) /\ IsEntries(e(4)) /\ IsEntries(e(5))
    BY <1>2, <1>3
  <2>2. OfClasses(table, order) = e(1) \o e(2) \o e(3) \o e(4) \o e(5)
    BY DEF OfClasses
  <2> HIDE DEF e
  <2>3. IsEntries(e(1) \o e(2))
    BY <2>1, EntriesConcat
  <2>4. IsEntries(e(1) \o e(2) \o e(3))
    BY <2>1, <2>3, EntriesConcat
  <2>5. IsEntries(e(1) \o e(2) \o e(3) \o e(4))
    BY <2>1, <2>4, EntriesConcat
  <2>6. QED
    BY <2>1, <2>2, <2>5, EntriesConcat
<1>5. "keyword" \in Lists
  BY DEF Lists
<1> DEFINE all == OfClasses(table, order) \o Entries(table, "keyword")
<1>6. IsEntries(all)
  BY <1>1, <1>4, <1>5, EntriesConcat
<1>7. LoadLexer(table, order) = DefineAll(all)
  BY DEF LoadLexer
<1> HIDE DEF all
<1>8. Len(all) \in Nat /\ \A k \in 1 .. Len(all) : all[k].list \in Lists /\ IsEntry(all[k])
  <2>1. PICK S : all \in Seq(S) /\ \A e \in S : e.list \in Lists /\ IsEntry(e)
    BY <1>6 DEF IsEntries
  <2>2. QED
    BY <2>1, ElementOfSeq, LenProperties
<1>9. QED
  BY <1>7, <1>8, DefineAllKeeps DEF table

-----------------------------------------------------------------------------
(* Reading a grammar.                                                      *)

CurInv(c) ==
  /\ {"rulename", "pattern", "select", "cmdargs", "cmdname"} \subseteq DOMAIN c
  /\ c.rulename \in Words /\ c.pattern \in Words /\ c.select \in Int /\ c.cmdargs \in Seq(Tokens)
DefInv(d) == "lexer" \in DOMAIN d /\ LexerInv(d.lexer)

GrammarInv == tokens \in Seq(Tokens) /\ next \in Nat \ {0} /\ CurInv(cur) /\ DefInv(def)

LEMMA TokenParts ==
  ASSUME NEW x \in Tokens
  PROVE  x.v \in DOMAIN Spelling /\ x.v \in Words /\ x.num \in Int
  BY DEF Tokens, Words

LEMMA TakesToken ==
  ASSUME GrammarInv, NEW types, NEW from, Takes(types, from)
  PROVE  Tok \in Tokens /\ tokens' \in Seq(Tokens) /\ next' \in Nat \ {0}
<1>1. next \in 1 .. Len(tokens) /\ tokens \in Seq(Tokens) /\ tokens' = tokens /\ next' = next + 1
  BY DEF GrammarInv, Takes, Reading
<1>2. QED
  BY <1>1 DEF Tok

(* Changes of other parts than the lexer.                                  *)
LEMMA OtherField ==
  ASSUME NEW d, DefInv(d), NEW field, field # "lexer", NEW x
  PROVE  DefInv([d EXCEPT ![field] = x])
<1>1. DOMAIN [d EXCEPT ![field] = x] = DOMAIN d /\ [d EXCEPT ![field] = x].lexer = d.lexer
  BY DEF DefInv
<1> DEFINE e == [d EXCEPT ![field] = x]
<1> HIDE DEF e
<1>2. DOMAIN e = DOMAIN d /\ e.lexer = d.lexer
  BY <1>1 DEF e
<1>3. DefInv(e)
  BY <1>2 DEF DefInv
<1>4. QED
  BY <1>3 DEF e

LEMMA LexerField ==
  ASSUME NEW d, DefInv(d), NEW lx, LexerInv(lx)
  PROVE  DefInv([d EXCEPT !.lexer = lx])
<1> DEFINE e == [d EXCEPT !.lexer = lx]
<1>1. DOMAIN e = DOMAIN d /\ e.lexer = lx
  BY DEF DefInv
<1> HIDE DEF e
<1>2. DefInv(e)
  BY <1>1 DEF DefInv
<1>3. QED
  BY <1>2 DEF e

(* The command that is read is carried out.                                *)
LEMMA CommandKeeps ==
  ASSUME GrammarInv, CommandError = "none"
  PROVE  DefInv(CommandDef)
<1> DEFINE n == Len(cur.cmdargs)
<1>1. cur.cmdname \in DOMAIN CommandArity /\ n \in CommandArity[cur.cmdname]
  BY DEF CommandError
<1>2. DefInv(def) /\ LexerInv(def.lexer)
  BY DEF GrammarInv, DefInv
<1>3. \A k \in 1 .. n : cur.cmdargs[k] \in Tokens
  BY ElementOfSeq DEF GrammarInv, CurInv
<1>4. \A k \in 1 .. n : Args(k) \in DOMAIN Spelling /\ Args(k) \in Words /\ cur.cmdargs[k].num \in Int
  BY <1>3, TokenParts DEF Args
<1>5. DOMAIN CommandArity = {"LANGUAGE", "TYPESYSTEM", "CMDLINE", "IGNORE", "BAD", "COMMENT", "INDENTL"}
  BY DEF CommandArity
<1> HIDE DEF n
<1>6. CASE cur.cmdname = "LANGUAGE"
  <2>1. CommandDef = [def EXCEPT !["language"] = Args(1)]
    BY <1>6 DEF CommandDef
  <2>2. QED
    BY <1>2, <2>1, OtherField
<1>7. CASE cur.cmdname = "TYPESYSTEM"
  <2>1. CommandDef = [def EXCEPT !["typesystem"] = Args(1)]
    BY <1>7 DEF CommandDef
  <2>2. QED
    BY <1>2, <2>1, OtherField
<1>8. CASE cur.cmdname = "CMDLINE"
  <2>1. CommandDef = [def EXCEPT !["cmdline"] = Args(1)]
    BY <1>8 DEF CommandDef
  <2>2. QED
    BY <1>2, <2>1, OtherField
<1>9. CASE cur.cmdname = "IGNORE"
  <2>1. n = 1
    BY <1>1, <1>9 DEF CommandArity
  <2>2. LexerInv(defineIgnore(def.lexer, Args(1)))
    BY <1>2, <1>4, <2>1, DefineIgnoreKeeps
  <2>3. CommandDef = [def EXCEPT !.lexer = defineIgnore(def.lexer, Args(1))]
    BY <1>9 DEF CommandDef
  <2>4. QED
    BY <1>2, <2>2, <2>3, LexerField
<1>10. CASE cur.cmdname = "BAD"
  <2>1. n = 1
    BY <1>1, <1>10 DEF CommandArity
  <2>2. Args(1) \in Words \cup {"?"}
    BY <1>4, <2>1
  <2>3. LexerInv(defineBadLexem(def.lexer, Args(1)))
    BY <1>2, <2>2, DefineBadLexemKeeps
  <2>4. CommandDef = [def EXCEPT !.lexer = defineBadLexem(def.lexer, Args(1))]
    BY <1>10 DEF CommandDef
  <2>5. QED
    BY <1>2, <2>3, <2>4, LexerField
<1>11. CASE cur.cmdname = "COMMENT"
  <2>1. n \in {1, 2}
    BY <1>1, <1>11 DEF CommandArity
  <2>2. CASE n = 1
    <3>1. LexerInv(defineEolnComment(def.lexer, Args(1)))
      BY <1>2, <1>4, <2>2, DefineEolnCommentKeeps
    <3>2. CommandDef = [def EXCEPT !.lexer = defineEolnComment(def.lexer, Args(1))]
      BY <1>11, <2>2 DEF CommandDef, n
    <3>3. QED
      BY <1>2, <3>1, <3>2, LexerField
  <2>3. CASE n = 2
    <3>1. LexerInv(defineBracketComment(def.lexer, Args(1), Args(2)))
      BY <1>2, <1>4, <2>3, DefineBracketCommentKeeps
    <3>2. CommandDef = [def EXCEPT !.lexer = defineBracketComment(def.lexer, Args(1), Args(2))]
      BY <1>11, <2>3 DEF CommandDef, n
    <3>3. QED
      BY <1>2, <3>1, <3>2, LexerField
  <2>4. QED
    BY <2>1, <2>2, <2>3
<1>12. CASE cur.cmdname = "INDENTL"
  <2>1. n = 4
    BY <1>1, <1>12 DEF CommandArity
  <2>2. cur.cmdargs[4].num \in Nat
    <3>1. ~(cur.cmdargs[4].num < 0)
      BY <1>12 DEF CommandError
    <3>2. QED
      BY <1>4, <2>1, <3>1
  <2>3. LexerInv(defineIndentLexems(def.lexer, Args(1), Args(2), Args(3), cur.cmdargs[4].num))
    <3>1. 1 \in 1 .. n /\ 2 \in 1 .. n /\ 3 \in 1 .. n
      BY <2>1
    <3>2. Args(1) \in Words /\ Args(2) \in Words /\ Args(3) \in Words
      BY <1>4, <3>1, Zenon
    <3>3. LexerInv(def.lexer)
      BY <1>2, Zenon
    <3>4. QED
      BY <2>2, <3>2, <3>3, DefineIndentLexemsKeeps, Zenon
  <2>4. CommandDef =
          [def EXCEPT !.lexer = defineIndentLexems(def.lexer, Args(1), Args(2), Args(3), cur.cmdargs[4].num)]
    BY <1>12 DEF CommandDef
  <2>5. QED
    BY <1>2, <2>3, <2>4, LexerField
<1>13. QED
  BY <1>1, <1>5, <1>6, <1>7, <1>8, <1>9, <1>10, <1>11, <1>12

LEMMA GrammarKeeps ==
  ASSUME GrammarInv, GrammarNext
  PROVE  GrammarInv'
<1>1. CurInv(cur) /\ DefInv(def) /\ LexerInv(def.lexer)
  BY DEF GrammarInv, DefInv
<1>2. ASSUME NEW types, NEW from, Takes(types, from), CurInv(cur'), DefInv(def')
      PROVE  GrammarInv'
  BY <1>2, TakesToken DEF GrammarInv
<1>3. ASSUME NEW types, NEW from, Takes(types, from), UNCHANGED <<cur, def>>
      PROVE  GrammarInv'
  BY <1>1, <1>2, <1>3
<1>4. CASE Slash \/ Epsilon \/ EndProduction \/ OpenCall \/ CloseNoCall \/ StartPattern
  BY <1>3, <1>4 DEF Slash, Epsilon, EndProduction, OpenCall, CloseNoCall, StartPattern
<1>5. ASSUME NEW reason, Throw(reason)
      PROVE  GrammarInv'
  BY <1>5 DEF Throw, GrammarInv
<1>6. CASE BadPriority \/ DuplicateScope \/ BadCommandOrLexem \/ UnexpectedToken \/ EndOfGrammar
  BY <1>5, <1>6 DEF BadPriority, DuplicateScope, BadCommandOrLexem, UnexpectedToken, EndOfGrammar
<1>7. ASSUME NEW c, DOMAIN c = DOMAIN cur, c.rulename = cur.rulename, c.pattern = cur.pattern,
             c.select = cur.select, c.cmdargs = cur.cmdargs
      PROVE  CurInv(c)
  BY <1>1, <1>7 DEF CurInv
<1>8. CASE StartRule
  <2>1. Takes({"IDENT"}, {"Init"})
    BY <1>8 DEF StartRule
  <2>2. Tok.v \in Words
    BY <2>1, TakesToken, TokenParts
  <2>3. cur' = [cur EXCEPT !.rulename = Tok.v, !.pattern = Empty, !.select = 0,
                           !.priority = NoPriority, !.call = NoCall] /\ def' = def
    BY <1>8 DEF StartRule
  <2>4. DOMAIN cur' = DOMAIN cur /\ cur'.rulename = Tok.v /\ cur'.pattern = Empty /\ cur'.select = 0
        /\ cur'.cmdargs = cur.cmdargs
    BY <1>1, <2>3 DEF CurInv
  <2>5. CurInv(cur')
    BY <1>1, <2>2, <2>4 DEF CurInv, Words
  <2>6. QED
    BY <1>1, <1>2, <2>1, <2>3, <2>5
<1>9. CASE SetPriority
  <2>1. Takes(PriorityTokens, {"Priority"}) /\ def' = def
        /\ cur' = [cur EXCEPT !.priority = [value |-> Short(Tok.num), assoc |-> Tok.assoc]]
    BY <1>9 DEF SetPriority
  <2>2. CurInv(cur')
    <3>1. \A x : DOMAIN [cur EXCEPT !.priority = x] = DOMAIN cur
                /\ [cur EXCEPT !.priority = x].rulename = cur.rulename
                /\ [cur EXCEPT !.priority = x].pattern = cur.pattern
                /\ [cur EXCEPT !.priority = x].select = cur.select
                /\ [cur EXCEPT !.priority = x].cmdargs = cur.cmdargs
      BY <1>1 DEF CurInv
    <3>2. QED
      BY <1>7, <2>1, <3>1
  <2>3. QED
    BY <1>1, <1>2, <2>1, <2>2
<1>10. CASE StartProduction
  <2>1. Takes({"EQUAL", "ARROW"}, {"ProductionAttributes", "Assign"}) /\ cur' = cur
    BY <1>10 DEF StartProduction
  <2>2. DefInv(def')
    <3>1. \A x, y : [def EXCEPT !.prodlist = x, !.nonterminals = y]
                      = [[def EXCEPT !["prodlist"] = x] EXCEPT !["nonterminals"] = y]
      OBVIOUS
    <3>2. \A x, y : DefInv([def EXCEPT !.prodlist = x, !.nonterminals = y])
      BY <1>1, <3>1, OtherField
    <3>3. QED
      BY <1>10, <3>2 DEF StartProduction
  <2>3. QED
    BY <1>1, <1>2, <2>1, <2>2
<1>11. CASE Alternative
  <2>1. Takes({"OR"}, {"ProductionElement", "EndOfProduction", "Call"})
        /\ cur' = [cur EXCEPT !.call = NoCall]
    BY <1>11 DEF Alternative
  <2>2. DefInv(def')
    <3>1. \A x : DefInv([def EXCEPT !["prodlist"] = x])
      BY <1>1, OtherField
    <3>2. QED
      BY <1>11, <3>1 DEF Alternative
  <2>3. CurInv(cur')
    BY <1>1, <2>1 DEF CurInv
  <2>4. QED
    BY <1>2, <2>1, <2>2, <2>3
<1>12. ASSUME NEW d, DefInv(d), NEW e
       PROVE  DefInv(AddElement(d, e))
  <2>1. PICK x : AddElement(d, e) = [d EXCEPT !["prodlist"] = x]
    BY DEF AddElement
  <2>2. DefInv([d EXCEPT !["prodlist"] = x])
    BY <1>12, OtherField
  <2>3. QED
    BY <2>1, <2>2
<1>13. CASE AddSymbol
  <2>1. Takes({"IDENT"}, {"ProductionElement"}) /\ cur' = cur /\ def' = AddElement(def, Element(Tok.v, TRUE))
    BY <1>13 DEF AddSymbol
  <2>2. QED
    BY <1>1, <1>2, <1>12, <2>1
<1>14. CASE AddString
  <2>1. Takes(Strings, {"ProductionElement"}) /\ cur' = cur
    BY <1>14 DEF AddString
  <2>2. Tok.v \in Words
    BY <2>1, TakesToken, TokenParts
  <2> DEFINE lx == IF LexemId(def.lexer, Tok.v) = 0 THEN defineKeyword(def.lexer, Tok.v) ELSE def.lexer
  <2>3. LexerInv(lx)
    BY <1>1, <2>2, DefineKeywordKeeps
  <2>4. def' = AddElement([def EXCEPT !.lexer = lx], Element(Tok.v, FALSE))
    BY <1>14 DEF AddString
  <2> HIDE DEF lx
  <2>5. DefInv([def EXCEPT !.lexer = lx])
    BY <1>1, <2>3, LexerField
  <2>6. DefInv(def')
    BY <1>12, <2>4, <2>5
  <2>7. QED
    BY <1>1, <1>2, <2>1, <2>6
<1>15. ASSUME NEW field, NEW value
       PROVE  DefInv(SetLast(field, value))
  <2>1. PICK x : SetLast(field, value) = [def EXCEPT !["prodlist"] = x]
    BY DEF SetLast
  <2>2. DefInv([def EXCEPT !["prodlist"] = x])
    BY <1>1, OtherField
  <2>3. QED
    BY <2>1, <2>2
<1>16. CASE SetScope
  <2>1. Takes({"STEP", "SCOPE"}, {"CallName"}) /\ cur' = cur /\ def' = SetLast("scope", Flags[Tok.t])
    BY <1>16 DEF SetScope
  <2>2. QED
    BY <1>1, <1>2, <1>15, <2>1
<1>17. CASE CallName
  <2>1. Takes({"IDENT", "CALL"}, {"CallName"}) /\ def' = def /\ cur' = [cur EXCEPT !.call.function = Tok.v]
    BY <1>17 DEF CallName
  <2>2. CurInv(cur')
    BY <1>1, <2>1 DEF CurInv
  <2>3. QED
    BY <1>1, <1>2, <2>1, <2>2
<1>18. CASE CallArg
  <2>1. /\ Takes({"IDENT", "CALL", "NUMBER", "OPENCURLYBRK"} \cup Strings, {"CallArg"}) /\ def' = def
        /\ cur' = [cur EXCEPT !.call.arg = <<Tok.v>>,
                              !.call.argtype = IF Tok.t \in Strings THEN "StringArg" ELSE "ReferenceArg"]
    BY <1>18 DEF CallArg
  <2>2. CurInv(cur')
    BY <1>1, <2>1 DEF CurInv
  <2>3. QED
    BY <1>1, <1>2, <2>1, <2>2
<1>19. CASE CallArgMember
  <2>1. /\ \/ Takes({"IDENT"}, {"MemberName"})
           \/ Takes({"EQUAL"}, {"MemberEquals"})
           \/ Takes({"IDENT", "NUMBER"} \cup Strings, {"MemberValue"})
           \/ Takes({"COMMA", "CLOSECURLYBRK"}, {"MemberDelim"})
        /\ def' = def
    BY <1>19 DEF CallArgMember
  <2>2. PICK arg : cur' = [cur EXCEPT !.call.arg = arg]
    BY <1>19 DEF CallArgMember
  <2>3. CurInv(cur')
    BY <1>1, <2>2 DEF CurInv
  <2>4. QED
    BY <1>1, <1>2, <2>1, <2>3
<1>20. CASE CloseCall
  <2>1. Takes({"CLOSEBRK"}, {"CallArg", "CallClose"}) /\ cur' = cur
    BY <1>20 DEF CloseCall
  <2>2. PICK k, x : def' = [SetLast("callidx", k) EXCEPT !["calls"] = x]
    BY <1>20 DEF CloseCall
  <2>3. DefInv(def')
    BY <1>15, <2>2, OtherField
  <2>4. QED
    BY <1>1, <1>2, <2>1, <2>3
<1>21. CASE SetPattern
  <2>1. Takes(Strings, {"Pattern"}) /\ def' = def /\ cur' = [cur EXCEPT !.pattern = Tok.v]
    BY <1>21 DEF SetPattern
  <2>2. Tok.v \in Words
    BY <2>1, TakesToken, TokenParts
  <2>3. CurInv(cur')
    BY <1>1, <2>1, <2>2 DEF CurInv
  <2>4. QED
    BY <1>1, <1>2, <2>1, <2>3
<1>22. CASE SetPatternSelect
  <2>1. Takes({"NUMBER"}, {"PatternSelect"}) /\ def' = def /\ cur' = [cur EXCEPT !.select = Tok.num]
    BY <1>22 DEF SetPatternSelect
  <2>2. Tok.num \in Int
    BY <2>1, TakesToken, TokenParts
  <2>3. CurInv(cur')
    BY <1>1, <2>1, <2>2 DEF CurInv
  <2>4. QED
    BY <1>1, <1>2, <2>1, <2>3
<1>23. CASE StartCommand
  <2>1. Takes({"PERCENT"}, {"Init"}) /\ def' = def /\ cur' = [cur EXCEPT !.cmdname = Empty, !.cmdargs = <<>>]
    BY <1>23 DEF StartCommand
  <2>2. <<>> \in Seq(Tokens)
    OBVIOUS
  <2>3. CurInv(cur')
    BY <1>1, <2>1, <2>2 DEF CurInv
  <2>4. QED
    BY <1>1, <1>2, <2>1, <2>3
<1>24. CASE CommandName
  <2>1. Takes({"IDENT"}, {"LexerCommand"}) /\ def' = def /\ cur' = [cur EXCEPT !.cmdname = Tok.v]
    BY <1>24 DEF CommandName
  <2>2. CurInv(cur')
    BY <1>1, <2>1 DEF CurInv
  <2>3. QED
    BY <1>1, <1>2, <2>1, <2>2
<1>25. CASE CommandArg
  <2>1. /\ Takes({"IDENT", "NUMBER"} \cup Strings, {"LexerCommandArg"}) /\ def' = def
        /\ cur' = [cur EXCEPT !.cmdargs = Append(cur.cmdargs, Tok)]
    BY <1>25 DEF CommandArg
  <2> DEFINE args == Append(cur.cmdargs, Tok)
  <2>2. args \in Seq(Tokens)
    <3>1. Tok \in Tokens /\ cur.cmdargs \in Seq(Tokens)
      BY <1>1, <2>1, TakesToken DEF CurInv
    <3>2. QED
      BY <3>1, AppendProperties
  <2> HIDE DEF args
  <2>3. cur' = [cur EXCEPT !.cmdargs = args]
    BY <2>1 DEF args
  <2>4. CurInv(cur')
    BY <1>1, <2>2, <2>3 DEF CurInv
  <2>5. QED
    BY <1>1, <1>2, <2>1, <2>4
<1>26. CASE EndCommand
  <2>1. Takes({"SEMICOLON"}, {"LexerCommandArg"}) /\ cur' = cur /\ def' = CommandDef /\ CommandError = "none"
    BY <1>26 DEF EndCommand
  <2>2. QED
    BY <1>1, <1>2, <2>1, CommandKeeps
<1>27. CASE EndLexem
  <2>1. Takes({"SEMICOLON"}, {"PatternSelect", "EndOfLexemDef"}) /\ cur' = cur /\ def' = LexemDef
    BY <1>27 DEF EndLexem
  <2> DEFINE select == IF state = "EndOfLexemDef" THEN cur.select ELSE 0
             lx == defineLexem(def.lexer, cur.rulename, cur.pattern, select)
  <2>2. cur.rulename \in Words /\ cur.pattern \in Words /\ select \in Int
    BY <1>1 DEF CurInv
  <2>3. def' = [def EXCEPT !.lexer = lx]
    BY <2>1 DEF LexemDef
  <2> HIDE DEF select
  <2>4. LexerInv(lx)
    BY <1>1, <2>2, DefineLexemKeeps
  <2> HIDE DEF lx
  <2>5. DefInv(def')
    BY <1>1, <2>3, <2>4, LexerField
  <2>6. QED
    BY <1>1, <1>2, <2>1, <2>5
<1>28. QED
  BY <1>4, <1>6, <1>8, <1>9, <1>10, <1>11, <1>13, <1>14, <1>16, <1>17, <1>18, <1>19, <1>20, <1>21, <1>22,
     <1>23, <1>24, <1>25, <1>26, <1>27 DEF GrammarNext, ReadToken

LEMMA GrammarStarts ==
  ASSUME Init
  PROVE  GrammarInv
<1>1. tokens \in Seq(Tokens)
  BY SourcesAssumption DEF Init, GrammarInit
<1>2. CurInv(cur)
  <2>1. cur = NoRule
    BY DEF Init, GrammarInit
  <2>2. <<>> \in Seq(Tokens) /\ Empty \in Words /\ 0 \in Int
    BY DEF Words
  <2>3. QED
    BY <2>1, <2>2 DEF NoRule, CurInv
<1>3. DefInv(def)
  <2>1. def = EmptyDef
    BY DEF Init, GrammarInit
  <2>2. DOMAIN EmptyDef = {"language", "typesystem", "cmdline", "lexer", "prodlist", "nonterminals", "calls"}
        /\ EmptyDef.lexer = EmptyLexer
    BY DEF EmptyDef
  <2>3. QED
    BY <2>1, <2>2, EmptyLexerInv DEF DefInv
<1>4. QED
  BY <1>1, <1>2, <1>3 DEF GrammarInv, Init, GrammarInit

-----------------------------------------------------------------------------
(* What the scanner finds in a text.                                       *)

LEMMA SkipBlanksFact ==
  ASSUME NEW t \in Seq(Chars), NEW p \in 1 .. Len(t) + 1
  PROVE  /\ SkipBlanks(t, p) \in p .. Len(t) + 1
         /\ \A k \in p .. SkipBlanks(t, p) - 1 : t[k] \in Blanks
         /\ SkipBlanks(t, p) > Len(t) \/ t[SkipBlanks(t, p)] \notin Blanks
<1> DEFINE Stops(q) == q > Len(t) \/ t[q] \notin Blanks
           T == {q \in p .. Len(t) + 1 : Stops(q)}
           Is(q) == (\A k \in p .. q - 1 : t[k] \in Blanks) /\ Stops(q)
<1>1. Len(t) \in Nat
  OBVIOUS
<1>2. Len(t) + 1 \in T /\ T \subseteq p .. Len(t) + 1 /\ T \in SUBSET Nat
  BY <1>1
<1>3. PICK m \in T : \A q \in T : m <= q
  BY <1>2, NatMin
<1>4. m \in p .. Len(t) + 1 /\ Stops(m)
  BY <1>3
<1>5. ASSUME NEW k \in p .. m - 1 PROVE t[k] \in Blanks
  <2>1. k \in p .. Len(t) + 1 /\ ~(m <= k) /\ ~(k > Len(t))
    BY <1>1, <1>4
  <2>2. k \notin T
    BY <1>3, <2>1
  <2>3. QED
    BY <2>1, <2>2
<1>6. Is(m)
  BY <1>4, <1>5
<1>7. SkipBlanks(t, p) = CHOOSE q \in p .. Len(t) + 1 : Is(q)
  BY DEF SkipBlanks
<1> HIDE DEF Is
<1>8. SkipBlanks(t, p) \in p .. Len(t) + 1 /\ Is(SkipBlanks(t, p))
  BY <1>4, <1>6, <1>7, Zenon
<1>9. QED
  BY <1>8 DEF Is

LEMMA BehindFact ==
  ASSUME NEW t \in Seq(Chars), NEW p \in Nat \ {0}, NEW s \in Seq(Chars)
  PROVE  Behind(t, p, s) = 0 \/ Behind(t, p, s) \in p .. Len(t) + 1
<1> DEFINE found == {q \in p .. Len(t) : Matches(t, q, s)}
           first == CHOOSE q \in found : \A r \in found : q <= r
<1>1. found \in SUBSET Nat
  OBVIOUS
<1>2. CASE found = {}
  BY <1>2 DEF Behind
<1>3. CASE found # {}
  <2>1. \E q \in found : \A r \in found : q <= r
    BY <1>1, <1>3, NatMin
  <2>2. first \in found
    <3> HIDE DEF found
    <3>1. QED
      BY <2>1
  <2>3. Behind(t, p, s) = first + Len(s)
    BY <1>3 DEF Behind
  <2> HIDE DEF first
  <2>4. first \in p .. Len(t) /\ first + Len(s) - 1 <= Len(t)
    BY <2>2 DEF Matches
  <2>5. QED
    BY <2>3, <2>4
<1>4. QED
  BY <1>2, <1>3

LEMMA IndentCountFact ==
  ASSUME NEW t \in Seq(Chars), NEW p \in Nat \ {0}, NEW tabSize \in Nat
  PROVE  indentCount(t, p, tabSize) \in Nat \cup {-1}
<1> DEFINE Space(j) == t[j] \in Blanks \ {"\n"}
           Stops(k) == k = 0 \/ ~Space(k)
           T == {k \in 0 .. p - 1 : Stops(k)}
           Is(k) == (\A j \in k + 1 .. p - 1 : Space(j)) /\ (k = 0 \/ ~Space(k))
           stop == CHOOSE k \in 0 .. p - 1 : Is(k)
           step(j) == IF t[j] = "\t" THEN tabSize ELSE 1
           IsWidth(w) == w = [j \in stop .. p - 1 |-> IF j = stop THEN 0 ELSE w[j - 1] + step(j)]
           width == CHOOSE w : IsWidth(w)
<1>1. \E k \in 0 .. p - 1 : Is(k)
  <2>1. T \in SUBSET Nat /\ 0 \in T /\ p - 1 \in Nat /\ \A k \in T : k <= p - 1
    OBVIOUS
  <2>2. PICK m \in T : \A k \in T : k <= m
    BY <2>1, NatMax
  <2>3. m \in 0 .. p - 1 /\ Stops(m)
    BY <2>2
  <2>4. ASSUME NEW j \in m + 1 .. p - 1 PROVE Space(j)
    <3>1. j \in 0 .. p - 1 /\ ~(j <= m)
      BY <2>3
    <3>2. j \notin T
      BY <2>2, <3>1
    <3> HIDE DEF Space
    <3>3. QED
      BY <3>1, <3>2
  <2>5. QED
    BY <2>3, <2>4
<1> HIDE DEF Is
<1>2. stop \in 0 .. p - 1
  BY <1>1, Zenon
<1>3. indentCount(t, p, tabSize) = IF stop = 0 \/ t[stop] = "\n" THEN width[p - 1] ELSE -1
  BY DEF indentCount, Is
<1> HIDE DEF stop
<1> DEFINE n == p - 1 - stop
           G == [k \in 1 .. n |-> [x \in Nat |-> x + step(stop + k)]]
<1>4. n \in Nat /\ \A j : step(j) \in Nat
  BY <1>2
<1> HIDE DEF step
<1>5. \E w \in [stop .. p - 1 -> Nat] : IsWidth(w)
  <2>1. G \in [1 .. n -> [Nat -> Nat]]
    BY <1>4
  <2>2. \A k \in 1 .. n : \A x \in Nat : G[k][x] = x + step(stop + k)
    OBVIOUS
  <2> HIDE DEF G
  <2>3. PICK f \in [0 .. n -> Nat] : \A k \in 0 .. n : f[k] = IF k = 0 THEN 0 ELSE G[k][f[k - 1]]
    <3> HIDE DEF n
    <3>1. 0 \in Nat
      OBVIOUS
    <3>2. \E f \in [0 .. n -> Nat] : Follows(f, n, 0, G)
      BY <1>4, <2>1, <3>1, StepsExist
    <3>3. QED
      BY <3>2 DEF Follows
  <2> DEFINE w == [j \in stop .. p - 1 |-> f[j - stop]]
  <2>4. \A j \in stop .. p - 1 : j - stop \in 0 .. n /\ w[j] = f[j - stop]
    BY <1>2
  <2>5. w \in [stop .. p - 1 -> Nat]
    BY <2>4
  <2>6. ASSUME NEW j \in stop .. p - 1
        PROVE  w[j] = IF j = stop THEN 0 ELSE w[j - 1] + step(j)
    <3>1. CASE j = stop
      <4>1. j - stop = 0
        BY <1>2, <3>1
      <4>2. QED
        BY <2>3, <2>4, <3>1, <4>1
    <3>2. CASE j # stop
      <4>1. /\ j - stop \in 1 .. n /\ j - 1 \in stop .. p - 1 /\ j - 1 - stop = j - stop - 1
            /\ stop + (j - stop) = j /\ j - stop # 0 /\ j - stop - 1 \in 0 .. n /\ j - stop \in 0 .. n
        BY <1>2, <3>2
      <4>2. f[j - stop] = G[j - stop][f[j - stop - 1]] /\ f[j - stop - 1] \in Nat
        BY <2>3, <4>1
      <4>3. f[j - stop] = f[j - stop - 1] + step(j)
        BY <2>2, <4>1, <4>2
      <4>4. w[j - 1] = f[j - stop - 1]
        BY <2>4, <4>1
      <4>5. QED
        BY <2>4, <3>2, <4>3, <4>4
    <3>3. QED
      BY <3>1, <3>2
  <2>7. w = [j \in stop .. p - 1 |-> IF j = stop THEN 0 ELSE w[j - 1] + step(j)]
    BY <2>6
  <2>8. QED
    BY <2>5, <2>7
<1>6. IsWidth(width)
  BY <1>5
<1>7. \A j \in stop .. p - 1 : width[j] = IF j = stop THEN 0 ELSE width[j - 1] + step(j)
  BY <1>6
<1> HIDE DEF width
<1> DEFINE P == {k \in Nat : k <= n => width[stop + k] \in Nat}
<1>8. 0 \in P
  <2>1. stop + 0 = stop /\ stop \in stop .. p - 1
    BY <1>2
  <2>2. QED
    BY <1>7, <2>1
<1>9. ASSUME NEW k \in 0 .. n - 1, k \in P PROVE k + 1 \in P
  <2> DEFINE j == stop + (k + 1)
  <2>1. k + 1 \in Nat /\ j \in stop .. p - 1 /\ j # stop /\ j - 1 = stop + k /\ k <= n
    BY <1>2, <1>4
  <2> HIDE DEF j
  <2>2. width[j] = width[stop + k] + step(j)
    BY <1>7, <2>1
  <2>3. width[stop + k] \in Nat
    BY <1>9, <2>1
  <2>4. width[j] \in Nat
    BY <1>4, <2>2, <2>3
  <2>5. QED
    BY <2>1, <2>4 DEF j
<1>10. n \in P
  <2> HIDE DEF P, n
  <2>1. 0 .. n \subseteq P
    BY <1>4, <1>8, <1>9, UpTo
  <2>2. QED
    BY <1>4, <2>1
<1>11. width[p - 1] \in Nat
  <2>1. stop + n = p - 1
    BY <1>2
  <2>2. QED
    BY <1>4, <1>10, <2>1
<1>12. QED
  BY <1>3, <1>11

LEMMA MatchLengthFact ==
  ASSUME NEW d, NEW t \in Seq(Chars), NEW p \in 1 .. Len(t) + 1
  PROVE  /\ MatchLength(d, t, p) \in 0 .. Len(t) + 1 - p
         /\ MatchLength(d, t, p) > 0 => p + MatchLength(d, t, p) \in MatchEnds(d.regex, t, p)
<1> DEFINE T == {p} \cup {q \in p .. Len(t) + 1 : q \in MatchEnds(d.regex, t, p)}
<1>1. CASE Groups(d.regex) < d.select
  BY <1>1 DEF MatchLength
<1>2. CASE ~(Groups(d.regex) < d.select)
  <2>1. T \in SUBSET Nat /\ p \in T /\ Len(t) + 1 \in Nat /\ T \subseteq p .. Len(t) + 1
    OBVIOUS
  <2>2. \A q \in T : q <= Len(t) + 1
    BY <2>1
  <2>3. \E m \in T : \A q \in T : q <= m
    <3> HIDE DEF T
    <3>1. QED
      BY <2>1, <2>2, NatMax
  <2>4. \E m \in T : \A q \in T : m >= q
    BY <2>1, <2>3
  <2>5. Max(T) \in T
    <3> HIDE DEF T
    <3>1. QED
      BY <2>4 DEF Max
  <2>6. MatchLength(d, t, p) = Max(T) - p
    BY <1>2 DEF MatchLength
  <2> DEFINE m == Max(T)
  <2> HIDE DEF m
  <2>7. m \in T /\ MatchLength(d, t, p) = m - p
    BY <2>5, <2>6 DEF m
  <2>8. m \in p .. Len(t) + 1
    BY <2>1, <2>7
  <2>9. m # p => m \in MatchEnds(d.regex, t, p)
    BY <2>7
  <2>10. p + (m - p) = m /\ (m - p > 0 => m # p) /\ m - p \in 0 .. Len(t) + 1 - p
    BY <2>8
  <2>11. QED
    BY <2>7, <2>9, <2>10
<1>3. QED
  BY <1>1, <1>2

-----------------------------------------------------------------------------
(* The candidates of a place.                                              *)

Place == LexerInv(lexer) /\ text \in Seq(Chars) /\ pos \in 1 .. Len(text)

LEMMA CandidatesFact ==
  ASSUME Place
  PROVE  /\ text[pos] \in Chars /\ Candidates = lexer.firstmap[text[pos]]
         /\ Len(Candidates) \in Nat /\ DOMAIN Candidates = 1 .. Len(Candidates)
         /\ \A k \in DOMAIN Candidates : Candidates[k] \in {EolnEntry, BracketEntry} \cup (1 .. Len(lexer.defs))
         /\ \A k, l \in DOMAIN Candidates :
               k < l /\ Candidates[k] > 0 /\ Candidates[l] > 0 => Candidates[k] < Candidates[l]
<1>1. text[pos] \in Chars /\ ~(pos > Len(text))
  BY DEF Place
<1>2. Candidates = lexer.firstmap[text[pos]]
  BY <1>1 DEF Candidates
<1>3. lexer.firstmap \in Firstmaps /\ Ascends(lexer.firstmap, Len(lexer.defs))
  BY LexerParts DEF Place, LexerInv, LexemsEntered
<1>4. Candidates \in Seq(Int)
  BY <1>1, <1>2, <1>3 DEF Firstmaps
<1> HIDE DEF Candidates
<1>5. QED
  BY <1>1, <1>2, <1>3, <1>4 DEF Ascends

LEMMA EolnCommentFact ==
  ASSUME LexerInv(lexer)
  PROVE  /\ EolnCommentAt # 0 => /\ EolnCommentAt \in DOMAIN lexer.eolnComments
                                 /\ Matches(text, pos, Spelling[lexer.eolnComments[EolnCommentAt]])
         /\ \A k \in DOMAIN lexer.eolnComments :
               Matches(text, pos, Spelling[lexer.eolnComments[k]]) => EolnCommentAt # 0
         /\ EolnCommentAt \in Nat
         /\ \A k \in DOMAIN lexer.eolnComments : lexer.eolnComments[k] \in DOMAIN Spelling
<1> DEFINE ks == {k \in DOMAIN lexer.eolnComments : Matches(text, pos, Spelling[lexer.eolnComments[k]])}
           first == CHOOSE k \in ks : \A j \in ks : k <= j
<1>1. lexer.eolnComments \in Seq(DOMAIN Spelling)
  BY LexerParts DEF LexerInv, LexemsEntered
<1>2. ks \in SUBSET Nat /\ 0 \notin ks
  BY <1>1
<1>3. ks # {} => first \in ks
  <2>1. ks # {} => \E k \in ks : \A j \in ks : k <= j
    BY <1>2, NatMin
  <2> HIDE DEF ks
  <2>2. QED
    BY <2>1
<1>4. EolnCommentAt = IF ks = {} THEN 0 ELSE first
  BY DEF EolnCommentAt
<1> HIDE DEF first
<1>5. QED
  BY <1>1, <1>2, <1>3, <1>4

LEMMA BracketCommentFact ==
  ASSUME LexerInv(lexer)
  PROVE  /\ BracketCommentAt # 0 => /\ BracketCommentAt \in DOMAIN lexer.bracketComments
                                    /\ Matches(text, pos, Spelling[lexer.bracketComments[BracketCommentAt].open])
         /\ \A k \in DOMAIN lexer.bracketComments :
               Matches(text, pos, Spelling[lexer.bracketComments[k].open]) => BracketCommentAt # 0
         /\ BracketCommentAt \in Nat
         /\ \A k \in DOMAIN lexer.bracketComments :
               lexer.bracketComments[k].open \in DOMAIN Spelling /\ lexer.bracketComments[k].close \in DOMAIN Spelling
<1> DEFINE ks == {k \in DOMAIN lexer.bracketComments : Matches(text, pos, Spelling[lexer.bracketComments[k].open])}
           first == CHOOSE k \in ks : \A j \in ks : k <= j
<1>1. lexer.bracketComments \in Seq(Brackets)
  BY LexerParts DEF LexerInv, LexemsEntered
<1>2. ks \in SUBSET Nat /\ 0 \notin ks
  BY <1>1
<1>3. ks # {} => first \in ks
  <2>1. ks # {} => \E k \in ks : \A j \in ks : k <= j
    BY <1>2, NatMin
  <2> HIDE DEF ks
  <2>2. QED
    BY <2>1
<1>4. BracketCommentAt = IF ks = {} THEN 0 ELSE first
  BY DEF BracketCommentAt
<1>5. \A k \in DOMAIN lexer.bracketComments :
        lexer.bracketComments[k].open \in DOMAIN Spelling /\ lexer.bracketComments[k].close \in DOMAIN Spelling
  <2>1. \A k \in DOMAIN lexer.bracketComments : lexer.bracketComments[k] \in Brackets
    BY <1>1
  <2>2. QED
    BY <2>1 DEF Brackets
<1> HIDE DEF first
<1>6. QED
  BY <1>2, <1>3, <1>4, <1>5

(* The first entry for a comment that begins here, and there is one if a   *)
(* comment begins here.                                                    *)
LEMMA CommentEntryFact ==
  ASSUME Place
  PROVE  /\ CommentEntry \in {0, EolnEntry, BracketEntry}
         /\ CommentEntry = EolnEntry => EolnCommentAt # 0
         /\ CommentEntry = BracketEntry => BracketCommentAt # 0
         /\ CommentEntry = 0 /\ lexer.error = "none" => ~ CommentAt(pos)
<1> DEFINE hits == {k \in DOMAIN Candidates : \/ Candidates[k] = EolnEntry /\ EolnCommentAt > 0
                                              \/ Candidates[k] = BracketEntry /\ BracketCommentAt > 0}
           first == CHOOSE k \in hits : \A j \in hits : k <= j
<1>1. LexerInv(lexer) /\ text \in Seq(Chars) /\ pos \in 1 .. Len(text)
  BY DEF Place
<1>2. hits \in SUBSET Nat
  BY CandidatesFact
<1>3. hits # {} => first \in hits
  <2>1. hits # {} => \E k \in hits : \A j \in hits : k <= j
    BY <1>2, NatMin
  <2> HIDE DEF hits
  <2>2. QED
    BY <2>1
<1>4. CommentEntry = IF hits = {} THEN 0 ELSE Candidates[first]
  BY DEF CommentEntry
<1> HIDE DEF first
<1>5. EolnCommentAt \in Nat /\ BracketCommentAt \in Nat
  BY <1>1, EolnCommentFact, BracketCommentFact
<1>6. /\ CommentEntry \in {0, EolnEntry, BracketEntry}
      /\ CommentEntry = EolnEntry => EolnCommentAt # 0
      /\ CommentEntry = BracketEntry => BracketCommentAt # 0
      /\ CommentEntry = 0 <=> hits = {}
  <2>1. CASE hits = {}
    BY <1>4, <2>1 DEF EolnEntry, BracketEntry
  <2>2. CASE hits # {}
    <3>1. /\ CommentEntry = Candidates[first]
          /\ \/ Candidates[first] = EolnEntry /\ EolnCommentAt > 0
             \/ Candidates[first] = BracketEntry /\ BracketCommentAt > 0
      BY <1>3, <1>4, <2>2
    <3>2. QED
      BY <1>5, <2>2, <3>1 DEF EolnEntry, BracketEntry
  <2>3. QED
    BY <2>1, <2>2
<1>7. ASSUME NEW name \in DOMAIN Spelling, Matches(text, pos, Spelling[name]), NEW e, IsEntered(lexer.firstmap, name, e)
      PROVE  \E k \in DOMAIN Candidates : Candidates[k] = e
  <2>1. Spelling[name] \in Seq(Chars) /\ Spelling[name] # <<>>
    BY <1>7, CharsAssumption DEF IsEntered
  <2> DEFINE s == Spelling[name]
  <2>2. Len(s) \in Nat \ {0}
    BY <2>1
  <2>3. SubSeq(text, pos, pos + Len(s) - 1) = s /\ pos + Len(s) - 1 <= Len(text)
    BY <1>7 DEF Matches
  <2> HIDE DEF s
  <2>4. SubSeq(text, pos, pos + Len(s) - 1)[1] = text[pos]
    BY <1>1, <2>2, <2>3
  <2>5. text[pos] = s[1]
    BY <2>3, <2>4
  <2>6. QED
    BY <1>7, <2>5, CandidatesFact DEF IsEntered, Has, s
<1>8. ASSUME CommentEntry = 0, lexer.error = "none", CommentAt(pos)
      PROVE  FALSE
  <2>1. hits = {}
    BY <1>6, <1>8
  <2>2. EolnsEntered(lexer.eolnComments, lexer.firstmap) /\ BracketsEntered(lexer.bracketComments, lexer.firstmap)
    BY <1>1, <1>8 DEF LexerInv
  <2>3. ASSUME NEW o \in ToSet(lexer.eolnComments), Matches(text, pos, Spelling[o]) PROVE FALSE
    <3>1. PICK k \in DOMAIN lexer.eolnComments : lexer.eolnComments[k] = o
      BY DEF ToSet
    <3>2. o \in DOMAIN Spelling /\ EolnCommentAt > 0
      BY <1>1, <1>5, <2>3, <3>1, EolnCommentFact
    <3>3. IsEntered(lexer.firstmap, o, EolnEntry)
      BY <2>2, <3>1 DEF EolnsEntered
    <3>4. PICK l \in DOMAIN Candidates : Candidates[l] = EolnEntry
      BY <1>7, <2>3, <3>2, <3>3
    <3>5. l \in hits
      BY <3>2, <3>4
    <3>6. QED
      BY <2>1, <3>5
  <2>4. ASSUME NEW b \in ToSet(lexer.bracketComments), Matches(text, pos, Spelling[b.open]) PROVE FALSE
    <3>1. PICK k \in DOMAIN lexer.bracketComments : lexer.bracketComments[k] = b
      BY DEF ToSet
    <3>2. b.open \in DOMAIN Spelling /\ BracketCommentAt > 0
      BY <1>1, <1>5, <2>4, <3>1, BracketCommentFact
    <3>3. IsEntered(lexer.firstmap, b.open, BracketEntry)
      BY <2>2, <3>1 DEF BracketsEntered
    <3>4. PICK l \in DOMAIN Candidates : Candidates[l] = BracketEntry
      BY <1>7, <2>4, <3>2, <3>3
    <3>5. l \in hits
      BY <3>2, <3>4
    <3>6. QED
      BY <2>1, <3>5
  <2>5. QED
    BY <1>8, <2>3, <2>4 DEF CommentAt
<1>9. QED
  BY <1>6, <1>8

(* The best of the first candidates.                                       *)
Length(i) == MatchLength(lexer.defs[i], text, pos)
Matched == [idx : 0 .. Len(lexer.defs), len : 0 .. Len(text) + 1 - pos]
IsBest(b, k) ==
  /\ b \in Matched
  /\ b.idx # 0 => b.len = Length(b.idx) /\ \E l \in 1 .. k : Candidates[l] = b.idx
  /\ b.idx = 0 => b.len = 0
  /\ \A l \in 1 .. k : Candidates[l] > 0 =>
        /\ Length(Candidates[l]) <= b.len
        /\ Length(Candidates[l]) = b.len /\ b.len > 0 => Precedes(b.idx, Candidates[l])

LEMMA LengthFact ==
  ASSUME Place, NEW i
  PROVE  Length(i) \in 0 .. Len(text) + 1 - pos
<1>1. text \in Seq(Chars) /\ pos \in 1 .. Len(text) + 1
  BY DEF Place
<1>2. QED
  BY <1>1, MatchLengthFact DEF Length

LEMMA DefsFact ==
  ASSUME Place
  PROVE  /\ Len(lexer.defs) \in Nat /\ DOMAIN lexer.defs = 1 .. Len(lexer.defs)
         /\ \A i \in 1 .. Len(lexer.defs) : lexer.defs[i].keyword \in BOOLEAN /\ lexer.defs[i].id \in Nat
<1>1. lexer.defs \in Seq(Definitions)
  BY LexerParts DEF Place, LexerInv, LexemsEntered
<1>2. \A i \in 1 .. Len(lexer.defs) : lexer.defs[i] \in Definitions
  BY <1>1
<1>3. QED
  BY <1>1, <1>2 DEF Definitions

LEMMA BetterKeeps ==
  ASSUME Place, NEW b, NEW k \in 0 .. Len(Candidates) - 1, IsBest(b, k)
  PROVE  IsBest(Better(b, Candidates[k + 1]), k + 1)
<1> DEFINE c == Candidates[k + 1]
           new == [idx |-> c, len |-> Length(c)]
<1>1. /\ Len(Candidates) \in Nat /\ DOMAIN Candidates = 1 .. Len(Candidates)
      /\ \A l \in DOMAIN Candidates : Candidates[l] \in {EolnEntry, BracketEntry} \cup (1 .. Len(lexer.defs))
      /\ \A l, m \in DOMAIN Candidates :
            l < m /\ Candidates[l] > 0 /\ Candidates[m] > 0 => Candidates[l] < Candidates[m]
  BY CandidatesFact
<1>2. k + 1 \in DOMAIN Candidates /\ \A l \in 1 .. k : l \in DOMAIN Candidates /\ l < k + 1
  BY <1>1
<1>3. \A l \in 1 .. k + 1 : l \in 1 .. k \/ l = k + 1
  OBVIOUS
<1>4. \A i : Length(i) \in 0 .. Len(text) + 1 - pos
  BY LengthFact
<1>5. c \in {EolnEntry, BracketEntry} \cup (1 .. Len(lexer.defs))
  BY <1>1, <1>2
<1>6. Better(b, c) = IF c < 0 THEN b
                     ELSE IF b.len <= Length(c) /\ (b.len < Length(c) \/ lexer.defs[c].keyword) THEN new ELSE b
  BY DEF Better, Length
<1>7. Len(lexer.defs) \in Nat /\ \A i \in 1 .. Len(lexer.defs) : lexer.defs[i].keyword \in BOOLEAN
  BY DefsFact
<1> HIDE DEF c, Length
<1>8. b \in Matched /\ b.len \in 0 .. Len(text) + 1 - pos /\ b.idx \in 0 .. Len(lexer.defs)
  BY DEF IsBest, Matched
<1>9. CASE c < 0
  <2>1. \A l \in 1 .. k + 1 : Candidates[l] > 0 => l \in 1 .. k
    BY <1>3, <1>5, <1>9 DEF c, EolnEntry, BracketEntry
  <2>2. \A l \in 1 .. k : l \in 1 .. k + 1
    OBVIOUS
  <2>3. IsBest(b, k + 1)
    BY <2>1, <2>2 DEF IsBest
  <2>4. QED
    BY <1>6, <1>9, <2>3 DEF c
<1>10. CASE ~(c < 0) /\ b.len <= Length(c) /\ (b.len < Length(c) \/ lexer.defs[c].keyword)
  <2>1. c \in 1 .. Len(lexer.defs) /\ c > 0
    BY <1>5, <1>10 DEF EolnEntry, BracketEntry
  <2>2. new \in Matched /\ new.idx = c /\ new.len = Length(c) /\ new.idx # 0
    BY <1>4, <1>7, <2>1 DEF Matched
  <2> HIDE DEF new
  <2>3. Candidates[k + 1] = c /\ k + 1 \in 1 .. k + 1
    BY DEF c
  <2>4. ASSUME NEW l \in 1 .. k + 1, Candidates[l] > 0
        PROVE  /\ Length(Candidates[l]) <= new.len
               /\ Length(Candidates[l]) = new.len /\ new.len > 0 => Precedes(new.idx, Candidates[l])
    <3>1. CASE l = k + 1
      <4>1. Candidates[l] = c
        BY <2>3, <3>1
      <4>2. QED
        BY <1>4, <2>1, <2>2, <4>1 DEF Precedes
    <3>2. CASE l \in 1 .. k
      <4>1. Length(Candidates[l]) <= b.len
        BY <2>4, <3>2 DEF IsBest
      <4>2. Length(Candidates[l]) <= new.len
        BY <1>4, <1>8, <1>10, <2>2, <4>1
      <4>3. ASSUME Length(Candidates[l]) = new.len
            PROVE  Precedes(new.idx, Candidates[l])
        <5>1. lexer.defs[c].keyword
          BY <1>4, <1>8, <1>10, <2>2, <4>1, <4>3
        <5>2. Candidates[l] < Candidates[k + 1]
          BY <1>1, <1>2, <2>1, <2>3, <2>4, <3>2
        <5>3. Candidates[l] \in Int /\ c \in Int
          BY <1>1, <1>2, <2>1, <3>2 DEF EolnEntry, BracketEntry
        <5>4. Candidates[l] <= c
          BY <2>3, <5>2, <5>3
        <5>5. QED
          BY <2>2, <5>1, <5>4 DEF Precedes
      <4>4. QED
        BY <4>2, <4>3
    <3>3. QED
      BY <1>3, <3>1, <3>2
  <2>5. IsBest(new, k + 1)
    BY <2>2, <2>3, <2>4 DEF IsBest
  <2>6. QED
    BY <1>6, <1>10, <2>5 DEF c
<1>11. CASE ~(c < 0) /\ ~(b.len <= Length(c) /\ (b.len < Length(c) \/ lexer.defs[c].keyword))
  <2>1. c \in 1 .. Len(lexer.defs) /\ c > 0
    BY <1>5, <1>11 DEF EolnEntry, BracketEntry
  <2>2. Length(c) <= b.len /\ (Length(c) = b.len => ~lexer.defs[c].keyword)
    BY <1>4, <1>8, <1>11
  <2>3. ASSUME NEW l \in 1 .. k + 1, Candidates[l] > 0
        PROVE  /\ Length(Candidates[l]) <= b.len
               /\ Length(Candidates[l]) = b.len /\ b.len > 0 => Precedes(b.idx, Candidates[l])
    <3>1. CASE l = k + 1
      <4>1. Candidates[l] = c
        BY <3>1 DEF c
      <4>2. ASSUME Length(c) = b.len, b.len > 0
            PROVE  Precedes(b.idx, c)
        <5>1. b.idx # 0
          BY <4>2 DEF IsBest
        <5>2. PICK m \in 1 .. k : Candidates[m] = b.idx
          BY <5>1 DEF IsBest
        <5>3. b.idx > 0 /\ b.idx \in Int
          BY <1>8, <5>1
        <5>4. b.idx < c
          BY <1>1, <1>2, <2>1, <5>2, <5>3 DEF c
        <5>5. b.idx <= c
          BY <2>1, <5>3, <5>4
        <5>6. QED
          BY <2>2, <4>2, <5>5 DEF Precedes
      <4>3. QED
        BY <2>2, <4>1, <4>2
    <3>2. CASE l \in 1 .. k
      BY <2>3, <3>2 DEF IsBest
    <3>3. QED
      BY <1>3, <3>1, <3>2
  <2>4. \A l \in 1 .. k : l \in 1 .. k + 1
    OBVIOUS
  <2>5. IsBest(b, k + 1)
    BY <2>3, <2>4 DEF IsBest
  <2>6. QED
    BY <1>6, <1>11, <2>5 DEF c
<1>12. QED
  BY <1>9, <1>10, <1>11

(* The candidate chosen is the best of all.                                *)
LEMMA BestFact ==
  ASSUME Place
  PROVE  IsBest(Best, Len(Candidates))
<1> DEFINE n == Len(Candidates)
           D == Matched
           Next_(k, b) == Better(b, Candidates[k])
           G == [k \in 1 .. n |-> [b \in D |-> Next_(k, b)]]
           IsSearch(f) == f = [k \in 0 .. n |-> IF k = 0 THEN NoMatch ELSE Next_(k, f[k - 1])]
           search == CHOOSE f : IsSearch(f)
<1>1. /\ n \in Nat /\ DOMAIN Candidates = 1 .. n
      /\ \A k \in 1 .. n : Candidates[k] \in {EolnEntry, BracketEntry} \cup (1 .. Len(lexer.defs))
  BY CandidatesFact
<1>2. Len(lexer.defs) \in Nat /\ pos \in 1 .. Len(text) /\ Len(text) \in Nat
  BY DefsFact DEF Place
<1>3. NoMatch \in D /\ IsBest(NoMatch, 0)
  <2>1. NoMatch \in Matched
    BY <1>2 DEF NoMatch, Matched
  <2>2. NoMatch.idx = 0 /\ NoMatch.len = 0
    BY DEF NoMatch
  <2>3. QED
    BY <2>1, <2>2 DEF IsBest
<1>4. ASSUME NEW k \in 1 .. n, NEW b \in D PROVE Next_(k, b) \in D
  <2> DEFINE c == Candidates[k]
             new == [idx |-> c, len |-> Length(c)]
  <2>1. Better(b, c) = IF c < 0 THEN b
                       ELSE IF b.len <= Length(c) /\ (b.len < Length(c) \/ lexer.defs[c].keyword) THEN new ELSE b
    BY DEF Better, Length
  <2>2. c \in {EolnEntry, BracketEntry} \cup (1 .. Len(lexer.defs))
    BY <1>1
  <2>3. ~(c < 0) => c \in 0 .. Len(lexer.defs)
    BY <2>2 DEF EolnEntry, BracketEntry
  <2>4. ~(c < 0) => new \in Matched
    BY <2>3, LengthFact DEF Matched
  <2> HIDE DEF c, new
  <2>5. Better(b, c) \in D
    BY <2>1, <2>4
  <2>6. QED
    BY <2>5 DEF c
<1> HIDE DEF D, Next_
<1>5. \E f : IsSearch(f)
  <2>1. G \in [1 .. n -> [D -> D]]
    BY <1>4
  <2>2. \A k \in 1 .. n : \A b \in D : G[k][b] = Next_(k, b)
    OBVIOUS
  <2> HIDE DEF G
  <2>3. PICK f \in [0 .. n -> D] : \A k \in 0 .. n : f[k] = IF k = 0 THEN NoMatch ELSE G[k][f[k - 1]]
    <3> HIDE DEF n
    <3>1. \E f \in [0 .. n -> D] : Follows(f, n, NoMatch, G)
      BY <1>1, <1>3, <2>1, StepsExist
    <3>2. QED
      BY <3>1 DEF Follows
  <2>4. ASSUME NEW k \in 0 .. n PROVE f[k] = IF k = 0 THEN NoMatch ELSE Next_(k, f[k - 1])
    <3>1. CASE k = 0
      BY <2>3, <3>1
    <3>2. CASE k # 0
      <4>1. k \in 1 .. n /\ k - 1 \in 0 .. n
        BY <1>1, <3>2
      <4>2. f[k - 1] \in D /\ f[k] = G[k][f[k - 1]]
        BY <2>3, <3>2, <4>1
      <4>3. QED
        BY <2>2, <3>2, <4>1, <4>2
    <3>3. QED
      BY <3>1, <3>2
  <2>5. f = [k \in 0 .. n |-> IF k = 0 THEN NoMatch ELSE Next_(k, f[k - 1])]
    BY <2>4
  <2>6. QED
    BY <2>5
<1>6. IsSearch(search)
  BY <1>5
<1>7. Best = search[n]
  BY DEF Best, Next_
<1>8. \A k \in 0 .. n : search[k] = IF k = 0 THEN NoMatch ELSE Next_(k, search[k - 1])
  BY <1>6
<1> HIDE DEF search
<1> DEFINE P == {k \in Nat : k <= n => IsBest(search[k], k)}
<1>9. 0 \in P
  <2>1. 0 \in 0 .. n
    BY <1>1
  <2>2. QED
    BY <1>3, <1>8, <2>1
<1>10. ASSUME NEW k \in 0 .. n - 1, k \in P PROVE k + 1 \in P
  <2>1. k + 1 \in 0 .. n /\ k + 1 # 0 /\ k + 1 - 1 = k /\ k + 1 \in Nat /\ k <= n /\ k \in 0 .. Len(Candidates) - 1
    BY <1>1
  <2>2. search[k + 1] = Better(search[k], Candidates[k + 1])
    BY <1>8, <2>1 DEF Next_
  <2>3. IsBest(search[k], k)
    BY <1>10, <2>1
  <2> DEFINE b == search[k]
  <2> HIDE DEF b, n
  <2>4. IsBest(b, k)
    BY <2>3 DEF b
  <2>5. IsBest(Better(b, Candidates[k + 1]), k + 1)
    BY <2>1, <2>4, BetterKeeps
  <2>6. QED
    BY <2>1, <2>2, <2>5 DEF b
<1>11. n \in P
  <2> HIDE DEF P, n
  <2>1. 0 .. n \subseteq P
    BY <1>1, <1>9, <1>10, UpTo
  <2>2. QED
    BY <1>1, <2>1
<1>12. QED
  BY <1>1, <1>7, <1>11

-----------------------------------------------------------------------------
(* The scanner in a text.                                                  *)

Kinds == {"comment", "error", "lexem", "newLine", "open", "close"}
Spans == [kind : Kinds, id : Int, from : Nat \ {0}, to : Nat \ {0}]

ScanInv ==
  /\ phase \in {"grammar", "compiler", "refused"}
  /\ LexerInv(lexer)
  /\ text \in Texts \cup {<<>>}
  /\ pos \in 1 .. Len(text) + 1
  /\ ~ scanned => pos > Len(text) \/ text[pos] \notin Blanks
  /\ spans \in Seq(Spans)
  /\ indentstk \in Seq(Nat \ {0})
  /\ indentConsumed \in BOOLEAN /\ scanned \in BOOLEAN
  /\ phase # "compiler" => spans = <<>> /\ indentstk = <<>> /\ ~ indentConsumed /\ ~ scanned
  /\ phase = "compiler" => lexer.error = "none"

Inv == GrammarInv /\ ScanInv

(* What a step of the scanner does: it returns what is at the place and    *)
(* goes on behind it, or the text ends, or an element is to be ignored.    *)
Reads(kind, id, to) ==
  /\ kind \in Kinds /\ id \in Int /\ to \in pos .. Len(text) + 1
  /\ Return(kind, id, pos, to)
  /\ pos' \in to .. Len(text) + 1
  /\ \A j \in to .. pos' - 1 : text[j] \in Blanks
  /\ pos' > Len(text) \/ text[pos'] \notin Blanks
  /\ scanned' = scanned

AtLexem == pos <= Len(text) /\ CommentEntry = 0 /\ IsLexem(Best)

ColumnAt(p) == indentCount(text, p, lexer.indentLexems.tabSize)
Top == IF indentstk = <<>> THEN 0 ELSE Last(indentstk)

EndStep ==
  /\ pos > Len(text)
  /\ lexer.indentLexems.open = 0 \/ indentstk = <<>>
  /\ scanned'
  /\ UNCHANGED <<pos, indentstk, indentConsumed, spans>>
HideStep ==
  /\ pos <= Len(text) /\ CommentEntry # 0
  /\ scanned'
  /\ \E o \in ToSet(lexer.eolnComments) :
        pos' = pos + Len(Spelling[o]) /\ pos' \in pos .. Len(text) + 1 /\ Matches(text, pos, Spelling[o])
  /\ UNCHANGED <<indentstk, indentConsumed, spans>>
CloseStep ==
  /\ pos > Len(text)
  /\ indentstk # <<>> /\ indentstk' = Front(indentstk)
  /\ \E id \in Int : Reads("close", id, pos)
  /\ pos' = pos
  /\ UNCHANGED indentConsumed
SkipStep ==
  /\ pos <= Len(text)
  /\ CommentEntry # 0 \/ Best.idx = 0
  /\ \E kind \in {"comment", "error"}, id \in Int, to \in pos .. Len(text) + 1 :
        /\ Reads(kind, id, to)
        /\ kind = "error" => CommentAt(pos) \/ (CommentEntry = 0 /\ Best.idx = 0)
  /\ UNCHANGED <<indentstk, indentConsumed>>
IndentStep ==
  /\ AtLexem
  /\ lexer.indentLexems.open # 0 /\ ~ indentConsumed /\ ColumnAt(pos) >= 0
  /\ \/ /\ Top = ColumnAt(pos)
        /\ indentConsumed' /\ indentstk' = indentstk
        /\ \E id \in Int : Reads("newLine", id, pos)
     \/ /\ Top < ColumnAt(pos)
        /\ indentConsumed' = indentConsumed /\ indentstk' = Append(indentstk, ColumnAt(pos))
        /\ \E id \in Int : Reads("open", id, pos)
     \/ /\ Top > ColumnAt(pos)
        /\ indentConsumed' = indentConsumed /\ indentstk' = Front(indentstk)
        /\ \E id \in Int : Reads("close", id, pos)
  /\ pos' = pos
LexemStep ==
  /\ AtLexem
  /\ lexer.indentLexems.open = 0 \/ indentConsumed \/ ColumnAt(pos) = -1
  /\ Reads("lexem", lexer.defs[Best.idx].id, pos + Best.len)
  /\ indentConsumed' = (indentConsumed /\ lexer.indentLexems.open = 0)
  /\ indentstk' = indentstk

LEMMA TextIsSeq ==
  ASSUME ScanInv
  PROVE  text \in Seq(Chars) /\ Len(text) \in Nat
<1>1. text \in Seq(Chars)
  <2>1. <<>> \in Seq(Chars)
    OBVIOUS
  <2>2. QED
    BY <2>1, TextsAssumption DEF ScanInv
<1>2. QED
  BY <1>1

LEMMA ReadsBehindBlanks ==
  ASSUME ScanInv, NEW kind \in Kinds, NEW id \in Int, NEW to \in pos .. Len(text) + 1,
         Return(kind, id, pos, to), pos' = SkipBlanks(text, to), scanned' = scanned
  PROVE  Reads(kind, id, to)
<1>1. text \in Seq(Chars) /\ to \in 1 .. Len(text) + 1
  BY TextIsSeq DEF ScanInv
<1>2. /\ SkipBlanks(text, to) \in to .. Len(text) + 1
      /\ \A k \in to .. SkipBlanks(text, to) - 1 : text[k] \in Blanks
      /\ SkipBlanks(text, to) > Len(text) \/ text[SkipBlanks(text, to)] \notin Blanks
  BY <1>1, SkipBlanksFact
<1> DEFINE q == SkipBlanks(text, to)
<1> HIDE DEF q
<1>3. /\ q \in to .. Len(text) + 1 /\ \A k \in to .. q - 1 : text[k] \in Blanks
      /\ q > Len(text) \/ text[q] \notin Blanks
      /\ pos' = q
  BY <1>2 DEF q
<1>4. QED
  BY <1>3 DEF Reads

LEMMA ReadsHere ==
  ASSUME ScanInv, ~ scanned, NEW kind \in Kinds, NEW id \in Int,
         Return(kind, id, pos, pos), pos' = pos, scanned' = scanned
  PROVE  Reads(kind, id, pos)
<1>1. pos \in 1 .. Len(text) + 1 /\ Len(text) \in Nat /\ (pos > Len(text) \/ text[pos] \notin Blanks)
  BY TextIsSeq DEF ScanInv
<1>2. pos \in pos .. Len(text) + 1 /\ pos .. pos - 1 = {}
  BY <1>1
<1>3. pos' \in pos .. Len(text) + 1 /\ \A j \in pos .. pos' - 1 : text[j] \in Blanks
  BY <1>2
<1>4. QED
  BY <1>1, <1>2, <1>3 DEF Reads

LEMMA IndentLexemsFact ==
  ASSUME ScanInv
  PROVE  /\ lexer.indentLexems \in [open : Int, close : Int, newLine : Int, tabSize : Nat]
         /\ \A p \in Nat \ {0} : ColumnAt(p) \in Nat \cup {-1}
         /\ Top \in Nat /\ (Top = 0 <=> indentstk = <<>>)
<1>1. lexer.indentLexems \in [open : Int, close : Int, newLine : Int, tabSize : Nat]
  BY LexerParts DEF ScanInv, LexerInv, LexemsEntered
<1>2. lexer.indentLexems.tabSize \in Nat /\ text \in Seq(Chars)
  BY <1>1, TextIsSeq
<1>3. \A p \in Nat \ {0} : ColumnAt(p) \in Nat \cup {-1}
  BY <1>2, IndentCountFact DEF ColumnAt
<1>4. indentstk \in Seq(Nat \ {0})
  BY DEF ScanInv
<1>5. indentstk # <<>> => Last(indentstk) \in Nat \ {0}
  BY <1>4 DEF Last
<1>6. QED
  BY <1>1, <1>3, <1>5 DEF Top

(* The cases of a step.                                                    *)
LEMMA ScanStep ==
  ASSUME ScanInv, phase = "compiler", NextLexem
  PROVE  /\ ~ scanned /\ lexer' = lexer /\ text' = text
         /\ \/ EndStep \/ HideStep \/ CloseStep \/ SkipStep \/ IndentStep \/ LexemStep
            \/ UNCHANGED scanVars
<1>1. ~ scanned /\ lexer' = lexer
  BY DEF NextLexem
<1>2. text \in Seq(Chars) /\ Len(text) \in Nat /\ pos \in 1 .. Len(text) + 1 /\ LexerInv(lexer)
  BY TextIsSeq DEF ScanInv
<1>3. /\ lexer.indentLexems \in [open : Int, close : Int, newLine : Int, tabSize : Nat]
      /\ ColumnAt(pos) \in Nat \cup {-1} /\ Top \in Nat
  BY <1>2, IndentLexemsFact
<1>4. /\ "comment" \in Kinds /\ "error" \in Kinds /\ "lexem" \in Kinds /\ "newLine" \in Kinds
      /\ "open" \in Kinds /\ "close" \in Kinds
  BY DEF Kinds
<1>5. CASE EndOfText
  <2>1. pos > Len(text) /\ text' = text /\ pos' = pos /\ indentConsumed' = indentConsumed
    BY <1>5 DEF EndOfText
  <2>2. CASE lexer.indentLexems.open # 0 /\ indentstk # <<>>
    <3>1. indentstk' = Front(indentstk) /\ Return("close", lexer.indentLexems.close, pos, pos) /\ scanned' = scanned
      BY <1>5, <2>2 DEF EndOfText
    <3>2. lexer.indentLexems.close \in Int
      BY <1>3
    <3>3. Reads("close", lexer.indentLexems.close, pos)
      BY <1>1, <1>4, <2>1, <3>1, <3>2, ReadsHere
    <3>4. CloseStep
      BY <2>1, <2>2, <3>1, <3>2, <3>3 DEF CloseStep
    <3>5. QED
      BY <1>1, <2>1, <3>4
  <2>3. CASE ~(lexer.indentLexems.open # 0 /\ indentstk # <<>>)
    <3>1. EndStep
      BY <1>5, <2>3 DEF EndOfText, EndStep
    <3>2. QED
      BY <1>1, <2>1, <3>1
  <2>4. QED
    BY <2>2, <2>3
<1>6. CommentEntry # 0 => pos <= Len(text)
  <2>1. ASSUME pos > Len(text) PROVE CommentEntry = 0
    <3>1. Candidates = <<>>
      BY <2>1 DEF Candidates
    <3>2. QED
      BY <3>1 DEF CommentEntry
  <2>2. QED
    BY <1>2, <2>1
<1>7. EolnEntry # 0 /\ BracketEntry # 0 /\ EolnEntry \in Int /\ BracketEntry \in Int /\ -1 \in Int
  BY DEF EolnEntry, BracketEntry
<1>8. pos <= Len(text) => Place
  BY <1>2 DEF Place
<1>9. ASSUME NEW s \in Seq(Chars), Matches(text, pos, s)
      PROVE  pos + Len(s) \in pos .. Len(text) + 1 /\ pos + Len(s) \in Nat \ {0}
  <2>1. Len(s) \in Nat /\ pos + Len(s) - 1 <= Len(text)
    BY <1>9 DEF Matches
  <2>2. QED
    BY <1>2, <2>1
<1>10. CASE SkipEolnComment
  <2> DEFINE o == lexer.eolnComments[EolnCommentAt]
             behind == pos + Len(Spelling[o])
             end == Behind(text, behind, <<"\n">>)
  <2>1. CommentEntry = EolnEntry /\ text' = text /\ indentstk' = indentstk /\ indentConsumed' = indentConsumed
    BY <1>10 DEF SkipEolnComment
  <2>2. pos <= Len(text) /\ CommentEntry # 0 /\ Place
    BY <1>6, <1>7, <1>8, <2>1
  <2>3. EolnCommentAt # 0
    BY <2>1, <2>2, CommentEntryFact
  <2>4. /\ EolnCommentAt \in DOMAIN lexer.eolnComments /\ Matches(text, pos, Spelling[o])
        /\ o \in DOMAIN Spelling /\ o \in ToSet(lexer.eolnComments)
    BY <1>2, <2>3, EolnCommentFact DEF ToSet
  <2>5. Spelling[o] \in Seq(Chars)
    BY <2>4, CharsAssumption
  <2>6. IF end = 0 THEN scanned' = TRUE /\ pos' = behind /\ spans' = spans
        ELSE pos' = SkipBlanks(text, end) /\ Return("comment", EolnEntry, pos, end) /\ scanned' = scanned
    BY <1>10 DEF SkipEolnComment
  <2> HIDE DEF o
  <2>7. behind \in pos .. Len(text) + 1 /\ behind \in Nat \ {0}
    BY <1>9, <2>4, <2>5
  <2>8. end = 0 \/ end \in behind .. Len(text) + 1
    <3>1. <<"\n">> \in Seq(Chars)
      <4>1. "\n" \in Chars
        BY CharsAssumption, Zenon DEF Blanks
      <4>2. \A c \in Chars : <<c>> \in Seq(Chars)
        OBVIOUS
      <4>3. QED
        BY <4>1, <4>2, Zenon
    <3> HIDE DEF behind
    <3>2. QED
      BY <1>2, <2>7, <3>1, BehindFact
  <2>9. CASE end = 0
    <3>1. HideStep
      BY <2>1, <2>2, <2>4, <2>6, <2>7, <2>9 DEF HideStep
    <3>2. QED
      BY <1>1, <2>1, <3>1
  <2>10. CASE end # 0
    <3> HIDE DEF behind, end
    <3>1. end \in pos .. Len(text) + 1
      BY <1>2, <2>7, <2>8, <2>10
    <3>2. Reads("comment", EolnEntry, end)
      BY <1>4, <1>7, <2>6, <2>10, <3>1, ReadsBehindBlanks
    <3>3. SkipStep
      BY <1>7, <2>1, <2>2, <3>1, <3>2 DEF SkipStep
    <3>4. QED
      BY <1>1, <2>1, <3>3
  <2>11. QED
    BY <2>9, <2>10
<1>11. CASE SkipBracketComment
  <2> DEFINE c == lexer.bracketComments[BracketCommentAt]
             inside == pos + Len(Spelling[c.open])
             end == Behind(text, inside, Spelling[c.close])
  <2>1. CommentEntry = BracketEntry /\ text' = text /\ indentstk' = indentstk /\ indentConsumed' = indentConsumed
        /\ scanned' = scanned
    BY <1>11 DEF SkipBracketComment
  <2>2. pos <= Len(text) /\ CommentEntry # 0 /\ Place
    BY <1>6, <1>7, <1>8, <2>1
  <2>3. BracketCommentAt # 0
    BY <2>1, <2>2, CommentEntryFact
  <2>4. /\ BracketCommentAt \in DOMAIN lexer.bracketComments /\ Matches(text, pos, Spelling[c.open])
        /\ c.open \in DOMAIN Spelling /\ c.close \in DOMAIN Spelling
    BY <1>2, <2>3, BracketCommentFact
  <2>5. CommentAt(pos)
    BY <2>4 DEF CommentAt, ToSet
  <2>6. Spelling[c.open] \in Seq(Chars) /\ Spelling[c.close] \in Seq(Chars)
    BY <2>4, CharsAssumption
  <2>7. IF end = 0 THEN pos' = SkipBlanks(text, inside) /\ Return("error", -1, pos, inside)
        ELSE pos' = SkipBlanks(text, end) /\ Return("comment", BracketEntry, pos, end)
    BY <1>11 DEF SkipBracketComment
  <2> HIDE DEF c
  <2>8. inside \in pos .. Len(text) + 1 /\ inside \in Nat \ {0}
    BY <1>9, <2>4, <2>6
  <2>9. end = 0 \/ end \in inside .. Len(text) + 1
    <3> HIDE DEF inside
    <3>1. QED
      BY <1>2, <2>6, <2>8, BehindFact
  <2> HIDE DEF inside, end
  <2>10. CASE end = 0
    <3>1. Reads("error", -1, inside)
      BY <1>4, <1>7, <2>1, <2>7, <2>8, <2>10, ReadsBehindBlanks
    <3>2. SkipStep
      BY <1>7, <2>1, <2>2, <2>5, <2>8, <3>1 DEF SkipStep
    <3>3. QED
      BY <1>1, <2>1, <3>2
  <2>11. CASE end # 0
    <3>1. end \in pos .. Len(text) + 1
      BY <1>2, <2>8, <2>9, <2>11
    <3>2. Reads("comment", BracketEntry, end)
      BY <1>4, <1>7, <2>1, <2>7, <2>11, <3>1, ReadsBehindBlanks
    <3>3. SkipStep
      BY <1>7, <2>1, <2>2, <3>1, <3>2 DEF SkipStep
    <3>4. QED
      BY <1>1, <2>1, <3>3
  <2>12. QED
    BY <2>10, <2>11
<1>12. CASE /\ pos <= Len(text) /\ CommentEntry = 0
            /\ BadCharacter(Best) \/ Ignore(Best) \/ Indentation(Best) \/ TakeLexem(Best)
  <2>1. Place /\ pos + 1 \in pos .. Len(text) + 1
    BY <1>2, <1>8, <1>12
  <2>2. Best \in Matched
    BY <2>1, BestFact DEF IsBest
  <2>3. Best.idx \in 0 .. Len(lexer.defs) /\ Best.len \in 0 .. Len(text) + 1 - pos
    BY <2>2 DEF Matched
  <2>4. CASE BadCharacter(Best)
    <3>1. /\ Best.idx = 0 /\ pos' = SkipBlanks(text, pos + 1) /\ Return("error", -1, pos, pos + 1)
          /\ text' = text /\ indentstk' = indentstk /\ indentConsumed' = indentConsumed /\ scanned' = scanned
      BY <2>4 DEF BadCharacter
    <3>2. Reads("error", -1, pos + 1)
      BY <1>4, <1>7, <2>1, <3>1, ReadsBehindBlanks
    <3>3. SkipStep
      BY <1>7, <1>12, <2>1, <3>1, <3>2 DEF SkipStep
    <3>4. QED
      BY <1>1, <3>1, <3>3
  <2>5. CASE Ignore(Best)
    BY <1>1, <2>5 DEF Ignore, scanVars
  <2>6. IsLexem(Best) => AtLexem
    BY <1>12 DEF AtLexem
  <2>7. IndentToken = IF lexer.indentLexems.open = 0 \/ indentConsumed \/ ColumnAt(pos) = -1 THEN "none"
                      ELSE IF Top = ColumnAt(pos) THEN "newLine"
                      ELSE IF Top < ColumnAt(pos) THEN "open" ELSE "close"
    BY DEF IndentToken, ColumnAt, Top
  <2>8. CASE Indentation(Best)
    <3>1. AtLexem /\ IndentToken # "none"
      BY <2>6, <2>8 DEF Indentation
    <3>2. lexer.indentLexems.open # 0 /\ ~ indentConsumed /\ ColumnAt(pos) \in Nat /\ ColumnAt(pos) >= 0
      BY <1>3, <2>7, <3>1
    <3>3. /\ Return(IndentToken, lexer.indentLexems[IndentToken], pos, pos)
          /\ text' = text /\ pos' = pos /\ scanned' = scanned
      BY <2>8 DEF Indentation
    <3>4. /\ IndentToken = "newLine" => indentConsumed' = TRUE /\ indentstk' = indentstk
          /\ IndentToken = "open" => indentstk' = Append(indentstk, ColumnAt(pos)) /\ indentConsumed' = indentConsumed
          /\ IndentToken = "close" => indentstk' = Front(indentstk) /\ indentConsumed' = indentConsumed
      BY <2>8 DEF Indentation, ColumnAt
    <3>5. \/ IndentToken = "newLine" /\ Top = ColumnAt(pos)
          \/ IndentToken = "open" /\ Top < ColumnAt(pos)
          \/ IndentToken = "close" /\ Top > ColumnAt(pos)
      BY <1>3, <2>7, <3>2
    <3>6. IndentToken \in Kinds /\ lexer.indentLexems[IndentToken] \in Int
      BY <1>3, <1>4, <3>5
    <3>7. Reads(IndentToken, lexer.indentLexems[IndentToken], pos)
      BY <1>1, <3>3, <3>6, ReadsHere
    <3>8. \E id \in Int : Reads(IndentToken, id, pos)
      BY <3>6, <3>7
    <3> HIDE DEF IndentToken
    <3>9. IndentStep
      <4>1. CASE IndentToken = "newLine" /\ Top = ColumnAt(pos)
        BY <3>1, <3>2, <3>3, <3>4, <3>8, <4>1 DEF IndentStep
      <4>2. CASE IndentToken = "open" /\ Top < ColumnAt(pos)
        BY <3>1, <3>2, <3>3, <3>4, <3>8, <4>2 DEF IndentStep
      <4>3. CASE IndentToken = "close" /\ Top > ColumnAt(pos)
        BY <3>1, <3>2, <3>3, <3>4, <3>8, <4>3 DEF IndentStep
      <4>4. QED
        BY <3>5, <4>1, <4>2, <4>3
    <3>10. QED
      BY <1>1, <3>3, <3>9
  <2>9. CASE TakeLexem(Best)
    <3>1. AtLexem /\ IndentToken = "none" /\ Best.idx # 0
      BY <2>6, <2>9 DEF TakeLexem, IsLexem
    <3>2. /\ pos' = SkipBlanks(text, pos + Best.len)
          /\ Return("lexem", lexer.defs[Best.idx].id, pos, pos + Best.len)
          /\ indentConsumed' = (indentConsumed /\ lexer.indentLexems.open = 0)
          /\ text' = text /\ indentstk' = indentstk /\ scanned' = scanned
      BY <2>9 DEF TakeLexem
    <3>3. lexer.indentLexems.open = 0 \/ indentConsumed \/ ColumnAt(pos) = -1
      BY <2>7, <3>1
    <3>4. lexer.defs[Best.idx].id \in Int
      <4>1. Best.idx \in 1 .. Len(lexer.defs)
        BY <2>1, <2>3, <3>1, DefsFact
      <4>2. lexer.defs[Best.idx].id \in Nat
        BY <2>1, <4>1, DefsFact
      <4>3. QED
        BY <4>2
    <3>5. pos + Best.len \in pos .. Len(text) + 1
      BY <1>2, <2>3
    <3> DEFINE id == lexer.defs[Best.idx].id
               to == pos + Best.len
    <3>6. Reads("lexem", id, to)
      <4>1. id \in Int /\ to \in pos .. Len(text) + 1 /\ Return("lexem", id, pos, to) /\ pos' = SkipBlanks(text, to)
            /\ scanned' = scanned
        BY <3>2, <3>4, <3>5
      <4> HIDE DEF id, to
      <4>2. QED
        BY <1>4, <4>1, ReadsBehindBlanks
    <3>7. LexemStep
      BY <3>1, <3>2, <3>3, <3>6 DEF LexemStep
    <3>8. QED
      BY <1>1, <3>2, <3>7
  <2>10. QED
    BY <1>12, <2>4, <2>5, <2>8, <2>9
<1>13. QED
  BY <1>5, <1>10, <1>11, <1>12 DEF NextLexem

(* What is returned is the last of what was read.                          *)
LEMMA ReadsFact ==
  ASSUME ScanInv, NEW kind, NEW id, NEW to, Reads(kind, id, to)
  PROVE  LET s == [kind |-> kind, id |-> id, from |-> pos, to |-> to]
         IN  /\ s \in Spans /\ s.from = pos /\ s.to = to /\ s.kind = kind /\ s.id = id
             /\ spans' \in Seq(Spans) /\ spans' # <<>> /\ Len(spans') = Len(spans) + 1 /\ Len(spans) \in Nat
             /\ \A k \in 1 .. Len(spans) : spans'[k] = spans[k]
             /\ spans'[Len(spans) + 1] = s
             /\ pos' \in 1 .. Len(text) + 1 /\ to \in pos .. Len(text) + 1
<1> DEFINE s == [kind |-> kind, id |-> id, from |-> pos, to |-> to]
<1>1. Len(text) \in Nat /\ pos \in 1 .. Len(text) + 1 /\ spans \in Seq(Spans)
  BY TextIsSeq DEF ScanInv
<1>2. to \in pos .. Len(text) + 1 /\ pos' \in to .. Len(text) + 1 /\ kind \in Kinds /\ id \in Int
  BY DEF Reads
<1>3. s \in Spans /\ s.from = pos /\ s.to = to /\ s.kind = kind /\ s.id = id
  BY <1>1, <1>2 DEF Spans
<1>4. spans' = Append(spans, s)
  BY DEF Reads, Return
<1> HIDE DEF s
<1>5. /\ spans' \in Seq(Spans) /\ spans' # <<>> /\ Len(spans') = Len(spans) + 1 /\ Len(spans) \in Nat
      /\ \A k \in 1 .. Len(spans) : spans'[k] = spans[k]
      /\ spans'[Len(spans) + 1] = s
  BY <1>1, <1>3, <1>4, AppendProperties
<1>6. pos' \in 1 .. Len(text) + 1
  BY <1>1, <1>2
<1>7. QED
  BY <1>2, <1>3, <1>5, <1>6 DEF s

LEMMA FrontFact ==
  ASSUME ScanInv, indentstk # <<>>
  PROVE  /\ Front(indentstk) \in Seq(Nat \ {0}) /\ Len(Front(indentstk)) = Len(indentstk) - 1
         /\ \A k \in 1 .. Len(indentstk) - 1 : Front(indentstk)[k] = indentstk[k]
<1>1. indentstk \in Seq(Nat \ {0}) /\ Len(indentstk) \in Nat \ {0}
  BY DEF ScanInv
<1>2. 1 \in Int /\ Len(indentstk) - 1 \in Int /\ \A i \in 1 .. Len(indentstk) - 1 : indentstk[i] \in Nat \ {0}
  BY <1>1
<1> DEFINE n == Len(indentstk) - 1
           f == SubSeq(indentstk, 1, n)
<1>3. f \in Seq(Nat \ {0}) /\ Len(f) = (IF 1 <= n THEN n - 1 + 1 ELSE 0)
      /\ \A i \in 1 .. n - 1 + 1 : f[i] = indentstk[1 + i - 1]
  <2> HIDE DEF n
  <2>1. QED
    BY <1>2, SubSeqProperties DEF n
<1>4. n \in Nat /\ n - 1 + 1 = n /\ \A i \in 1 .. n : 1 + i - 1 = i
  BY <1>1
<1>5. Front(indentstk) = f
  BY DEF Front
<1> HIDE DEF f, n
<1>6. Len(f) = n /\ \A i \in 1 .. n : f[i] = indentstk[i]
  BY <1>3, <1>4
<1>7. QED
  BY <1>3, <1>5, <1>6 DEF n

LEMMA ScanKeeps ==
  ASSUME ScanInv, phase = "compiler", phase' = phase, NextLexem
  PROVE  ScanInv'
<1>1. /\ ~ scanned /\ lexer' = lexer /\ text' = text
      /\ EndStep \/ HideStep \/ CloseStep \/ SkipStep \/ IndentStep \/ LexemStep \/ UNCHANGED scanVars
  BY ScanStep
<1>2. SUFFICES /\ pos' \in 1 .. Len(text) + 1
               /\ ~ scanned' => pos' > Len(text) \/ text[pos'] \notin Blanks
               /\ spans' \in Seq(Spans) /\ indentstk' \in Seq(Nat \ {0})
               /\ indentConsumed' \in BOOLEAN /\ scanned' \in BOOLEAN
  BY <1>1 DEF ScanInv
<1>3. /\ pos \in 1 .. Len(text) + 1 /\ (pos > Len(text) \/ text[pos] \notin Blanks)
      /\ spans \in Seq(Spans) /\ indentstk \in Seq(Nat \ {0}) /\ indentConsumed \in BOOLEAN /\ scanned = FALSE
  BY <1>1 DEF ScanInv
<1>4. Len(text) \in Nat
  BY TextIsSeq
<1>5. ASSUME NEW kind, NEW id, NEW to, Reads(kind, id, to)
      PROVE  /\ pos' \in 1 .. Len(text) + 1 /\ spans' \in Seq(Spans) /\ scanned' = scanned
             /\ pos' > Len(text) \/ text[pos'] \notin Blanks
  BY <1>5, ReadsFact DEF Reads
<1>6. scanned' \in BOOLEAN
  BY <1>1, <1>3 DEF NextLexem, EndOfText, SkipEolnComment, SkipBracketComment, BadCharacter, Ignore, Indentation,
                    TakeLexem, scanVars
<1>7. CASE EndStep
  BY <1>3, <1>6, <1>7 DEF EndStep
<1>8. CASE HideStep
  <2>1. pos' \in 1 .. Len(text) + 1
    BY <1>3, <1>4, <1>8 DEF HideStep
  <2>2. QED
    BY <1>3, <1>6, <1>8, <2>1 DEF HideStep
<1>9. CASE CloseStep
  BY <1>3, <1>5, <1>6, <1>9, FrontFact DEF CloseStep
<1>10. CASE SkipStep
  BY <1>3, <1>5, <1>6, <1>10 DEF SkipStep
<1>11. CASE IndentStep
  <2>1. /\ ColumnAt(pos) \in Nat /\ Top \in Nat /\ (Top = 0 <=> indentstk = <<>>) /\ AtLexem
        /\ lexer.indentLexems.open # 0 /\ ~ indentConsumed
    BY <1>3, <1>11, IndentLexemsFact DEF IndentStep
  <2>2. CASE Top = ColumnAt(pos)
    <3>1. indentstk' = indentstk /\ \E id \in Int : Reads("newLine", id, pos)
      BY <1>11, <2>1, <2>2 DEF IndentStep
    <3>2. indentConsumed' \in BOOLEAN
      BY <1>3, <1>11 DEF IndentStep
    <3>3. QED
      BY <1>3, <1>5, <1>6, <3>1, <3>2
  <2>3. CASE Top < ColumnAt(pos)
    <3>1. indentstk' = Append(indentstk, ColumnAt(pos)) /\ indentConsumed' = indentConsumed
          /\ \E id \in Int : Reads("open", id, pos)
      BY <1>11, <2>1, <2>3 DEF IndentStep
    <3>2. ColumnAt(pos) \in Nat \ {0}
      BY <2>1, <2>3
    <3>3. indentstk' \in Seq(Nat \ {0})
      BY <1>3, <3>1, <3>2, AppendProperties
    <3>4. QED
      BY <1>3, <1>5, <1>6, <3>1, <3>3
  <2>4. CASE Top > ColumnAt(pos)
    <3>1. indentstk' = Front(indentstk) /\ indentConsumed' = indentConsumed
          /\ \E id \in Int : Reads("close", id, pos)
      BY <1>11, <2>1, <2>4 DEF IndentStep
    <3>2. indentstk # <<>>
      BY <2>1, <2>4
    <3>3. QED
      BY <1>3, <1>5, <1>6, <3>1, <3>2, FrontFact
  <2>5. QED
    BY <2>1, <2>2, <2>3, <2>4
<1>12. CASE LexemStep
  <2>1. /\ \E id, to : Reads("lexem", id, to)
        /\ indentConsumed' = (indentConsumed /\ lexer.indentLexems.open = 0) /\ indentstk' = indentstk
    BY <1>12 DEF LexemStep
  <2>2. indentConsumed' \in BOOLEAN
    BY <2>1
  <2>3. QED
    BY <1>3, <1>5, <1>6, <2>1, <2>2
<1>13. CASE UNCHANGED scanVars
  BY <1>3, <1>13 DEF scanVars
<1>14. QED
  BY <1>1, <1>7, <1>8, <1>9, <1>10, <1>11, <1>12, <1>13

LEMMA LoadKeeps ==
  ASSUME Inv, LoadCompiler
  PROVE  Inv'
<1>1. PICK order \in LoadOrders : lexer' = LoadLexer(LexerTable(def.lexer), order)
  BY DEF LoadCompiler
<1>2. PICK t \in Texts : text' = t /\ pos' = SkipBlanks(t, 1)
  BY DEF LoadCompiler
<1>3. LexerInv(lexer')
  <2>1. LexerInv(def.lexer) /\ order \in ClassOrders
    BY LoadOrdersAssumption DEF Inv, GrammarInv, DefInv
  <2>2. QED
    BY <1>1, <2>1, LoadLexerKeeps
<1>4. /\ pos' \in 1 .. Len(text') + 1
      /\ pos' > Len(text') \/ text'[pos'] \notin Blanks
  <2>1. t \in Seq(Chars) /\ 1 \in 1 .. Len(t) + 1
    BY TextsAssumption
  <2>2. SkipBlanks(t, 1) \in 1 .. Len(t) + 1 /\ (SkipBlanks(t, 1) > Len(t) \/ t[SkipBlanks(t, 1)] \notin Blanks)
    BY <2>1, SkipBlanksFact
  <2>3. QED
    BY <1>2, <2>2
<1>5. /\ phase' = IF lexer'.error = "none" /\ IsLoadable(CallTable(def.calls)) THEN "compiler" ELSE "refused"
      /\ phase = "grammar"
      /\ UNCHANGED <<grammarVars, indentstk, indentConsumed, spans, scanned>>
  BY DEF LoadCompiler
<1>6. spans = <<>> /\ indentstk = <<>> /\ ~ indentConsumed /\ ~ scanned /\ spans \in Seq(Spans)
      /\ indentstk \in Seq(Nat \ {0}) /\ indentConsumed \in BOOLEAN /\ scanned \in BOOLEAN
  BY <1>5 DEF Inv, ScanInv
<1>7. ScanInv'
  BY <1>2, <1>3, <1>4, <1>5, <1>6 DEF ScanInv
<1>8. GrammarInv'
  BY <1>5 DEF Inv, GrammarInv, grammarVars
<1>9. QED
  BY <1>7, <1>8 DEF Inv

LEMMA InvStarts == Init => Inv
<1> SUFFICES ASSUME Init PROVE Inv
  OBVIOUS
<1>1. GrammarInv
  BY GrammarStarts
<1>2. /\ phase = "grammar" /\ lexer = EmptyLexer /\ text = <<>> /\ pos = SkipBlanks(<<>>, 1) /\ indentstk = <<>>
      /\ indentConsumed = FALSE /\ spans = <<>> /\ scanned = FALSE
  BY DEF Init, ScanFrom
<1>3. pos \in 1 .. Len(text) + 1 /\ pos > Len(text)
  <2>1. <<>> \in Seq(Chars) /\ Len(<<>>) = 0 /\ 1 \in 1 .. Len(<<>>) + 1
    OBVIOUS
  <2>2. SkipBlanks(<<>>, 1) \in 1 .. Len(<<>>) + 1
    BY <2>1, SkipBlanksFact
  <2>3. QED
    BY <1>2, <2>1, <2>2
<1>4. <<>> \in Seq(Spans) /\ <<>> \in Seq(Nat \ {0}) /\ <<>> \in Texts \cup {<<>>}
  OBVIOUS
<1>5. LexerInv(lexer)
  BY <1>2, EmptyLexerInv
<1>6. ScanInv
  BY <1>2, <1>3, <1>4, <1>5, Zenon DEF ScanInv
<1>7. QED
  BY <1>1, <1>6 DEF Inv

LEMMA InvKept == Inv /\ [Next]_vars => Inv'
<1> SUFFICES ASSUME Inv, [Next]_vars PROVE Inv'
  OBVIOUS
<1>1. CASE ReadGrammar
  <2>1. GrammarInv'
    BY <1>1, GrammarKeeps DEF ReadGrammar, Inv
  <2>2. ScanInv'
    BY <1>1 DEF ReadGrammar, Inv, ScanInv, lexerVars
  <2>3. QED
    BY <2>1, <2>2 DEF Inv
<1>2. CASE LoadCompiler
  BY <1>2, LoadKeeps
<1>3. CASE ScanText
  <2>1. phase = "compiler" /\ NextLexem /\ phase' = phase /\ UNCHANGED grammarVars
    BY <1>3 DEF ScanText
  <2>2. ScanInv'
    BY <2>1, ScanKeeps DEF Inv
  <2>3. GrammarInv'
    BY <2>1 DEF Inv, GrammarInv, grammarVars
  <2>4. QED
    BY <2>2, <2>3 DEF Inv
<1>4. CASE UNCHANGED vars
  BY <1>4 DEF vars, grammarVars, lexerVars, Inv, GrammarInv, ScanInv
<1>5. QED
  BY <1>1, <1>2, <1>3, <1>4 DEF Next

LEMMA InvHolds == Spec => []Inv
  BY InvStarts, InvKept, PTL DEF Spec

-----------------------------------------------------------------------------
(* Nothing is lost.                                                        *)

LEMMA OnlyBlanksKept ==
  ASSUME text' = text, NEW p, NEW q
  PROVE  OnlyBlanks(p, q)' = OnlyBlanks(p, q)
  BY DEF OnlyBlanks

(* What is returned here follows what was returned before, and the place   *)
(* behind it follows it.                                                   *)
LEMMA ReadsNothingLost ==
  ASSUME ScanInv, ~ scanned, phase = "compiler", NothingLost, text' = text,
         NEW kind, NEW id, NEW to, Reads(kind, id, to)
  PROVE  NothingLost'
<1> DEFINE s == [kind |-> kind, id |-> id, from |-> pos, to |-> to]
<1>n. PICK n : n = Len(spans)
  OBVIOUS
<1>1. /\ spans' # <<>> /\ Len(spans') = n + 1 /\ n \in Nat /\ \A k \in 1 .. n : spans'[k] = spans[k]
      /\ spans'[n + 1].from = pos /\ spans'[n + 1].to = to /\ to \in pos .. Len(text) + 1
  <2>1. /\ spans' # <<>> /\ Len(spans') = n + 1 /\ n \in Nat /\ \A k \in 1 .. n : spans'[k] = spans[k]
        /\ spans'[n + 1] = s /\ to \in pos .. Len(text) + 1
    BY <1>n, ReadsFact
  <2>2. s.from = pos /\ s.to = to
    OBVIOUS
  <2> HIDE DEF s
  <2>3. QED
    BY <2>1, <2>2
<1>2. OnlyBlanks(SpansEnd(n), pos)
  BY <1>n DEF NothingLost, LastLineComment
<1>3. to <= pos' /\ \A j \in to .. pos' - 1 : text[j] \in Blanks
  <2>1. pos \in Nat /\ Len(text) \in Nat
    BY TextIsSeq DEF ScanInv
  <2>2. to \in pos .. Len(text) + 1 /\ pos' \in to .. Len(text) + 1
    BY DEF Reads
  <2>3. to <= pos'
    BY <2>1, <2>2
  <2>4. QED
    BY <2>3 DEF Reads
<1>4. SpansEnd(n)' = SpansEnd(n) /\ SpansEnd(n + 1)' = to
  <2>1. n + 1 # 0
    BY <1>1
  <2>2. CASE n = 0
    BY <1>1, <2>1, <2>2 DEF SpansEnd
  <2>3. CASE n # 0
    <3>1. n \in 1 .. n
      BY <1>1, <2>3
    <3>2. QED
      BY <1>1, <2>1, <2>3, <3>1 DEF SpansEnd
  <2>4. QED
    BY <2>2, <2>3
<1>5. Len(spans') - 1 = n
  BY <1>1
<1>6. OnlyBlanks(SpansEnd(Len(spans) - 1), Last(spans).from)'
  BY <1>1, <1>2, <1>4, <1>5 DEF Last, OnlyBlanks
<1>7. OnlyBlanks(SpansEnd(Len(spans)), pos)'
  BY <1>1, <1>3, <1>4 DEF OnlyBlanks
<1>8. QED
  BY <1>6, <1>7 DEF NothingLost

(* The comment behind which nothing is read hides the rest of the text.    *)
LEMMA HideEndsText ==
  ASSUME ScanInv, ~ scanned, phase = "compiler", NothingLost, lexer' = lexer, text' = text, HideStep
  PROVE  LastLineComment'
<1>1. spans' = spans /\ scanned' /\ OnlyBlanks(SpansEnd(Len(spans)), pos)
  BY DEF HideStep, NothingLost, LastLineComment
<1>2. PICK o \in ToSet(lexer.eolnComments) :
        pos' = pos + Len(Spelling[o]) /\ pos' \in pos .. Len(text) + 1 /\ Matches(text, pos, Spelling[o])
  BY DEF HideStep
<1>3. pos' - Len(Spelling[o]) = pos
  <2>1. LexerInv(lexer) /\ pos \in Nat
    BY TextIsSeq DEF ScanInv
  <2>2. PICK k \in DOMAIN lexer.eolnComments : lexer.eolnComments[k] = o
    BY DEF ToSet
  <2>3. Spelling[o] \in Seq(Chars)
    BY <2>1, <2>2, EolnCommentFact, CharsAssumption
  <2>4. Len(Spelling[o]) \in Nat
    BY <2>3
  <2>5. QED
    BY <1>2, <2>1, <2>4
<1>4. pos >= SpansEnd(Len(spans))
  BY <1>1 DEF OnlyBlanks
<1>5. QED
  BY <1>1, <1>2, <1>3, <1>4 DEF LastLineComment, OnlyBlanks, SpansEnd

LEMMA NothingLostKept == Inv /\ NothingLost /\ [Next]_vars => NothingLost'
<1> SUFFICES ASSUME Inv, NothingLost, [Next]_vars PROVE NothingLost'
  OBVIOUS
<1>1. ScanInv
  BY DEF Inv
<1>2. ASSUME text' = text, pos' = pos, spans' = spans, scanned' = scanned, lexer' = lexer, phase' = phase
      PROVE  NothingLost'
  BY <1>2 DEF NothingLost, OnlyBlanks, SpansEnd, LastLineComment
<1>3. CASE ReadGrammar
  BY <1>2, <1>3 DEF ReadGrammar, lexerVars
<1>4. CASE LoadCompiler
  <2>1. spans = <<>> /\ spans' = spans
    BY <1>1, <1>4 DEF LoadCompiler, ScanInv
  <2>2. PICK t \in Texts : text' = t /\ pos' = SkipBlanks(t, 1)
    BY <1>4 DEF LoadCompiler
  <2>3. t \in Seq(Chars) /\ 1 \in 1 .. Len(t) + 1
    BY TextsAssumption
  <2>4. SkipBlanks(t, 1) \in 1 .. Len(t) + 1 /\ \A k \in 1 .. SkipBlanks(t, 1) - 1 : t[k] \in Blanks
    BY <2>3, SkipBlanksFact
  <2>5. SpansEnd(Len(spans))' = 1
    BY <2>1 DEF SpansEnd
  <2>6. OnlyBlanks(SpansEnd(Len(spans)), pos)'
    <3>1. 1 <= pos' /\ \A j \in 1 .. pos' - 1 : text'[j] \in Blanks
      BY <2>2, <2>4
    <3>2. QED
      BY <2>5, <3>1 DEF OnlyBlanks
  <2>7. QED
    BY <2>1, <2>6 DEF NothingLost
<1>5. CASE ScanText
  <2>1. phase = "compiler" /\ phase' = phase /\ NextLexem
    BY <1>5 DEF ScanText
  <2>2. /\ ~ scanned /\ lexer' = lexer /\ text' = text
        /\ EndStep \/ HideStep \/ CloseStep \/ SkipStep \/ IndentStep \/ LexemStep \/ UNCHANGED scanVars
    BY <1>1, <2>1, ScanStep
  <2>3. ASSUME NEW kind, NEW id, NEW to, Reads(kind, id, to)
        PROVE  NothingLost'
    BY <1>1, <2>1, <2>2, <2>3, ReadsNothingLost
  <2>4. /\ spans # <<>> => OnlyBlanks(SpansEnd(Len(spans) - 1), Last(spans).from)
        /\ OnlyBlanks(SpansEnd(Len(spans)), pos)
    BY <2>1, <2>2 DEF NothingLost, LastLineComment
  <2>5. spans' = spans => (spans # <<>> => OnlyBlanks(SpansEnd(Len(spans) - 1), Last(spans).from))'
    BY <2>2, <2>4 DEF OnlyBlanks, SpansEnd
  <2>6. CASE EndStep
    <3>1. spans' = spans /\ pos' = pos
      BY <2>6 DEF EndStep
    <3>2. OnlyBlanks(SpansEnd(Len(spans)), pos)'
      BY <2>2, <2>4, <3>1 DEF OnlyBlanks, SpansEnd
    <3>3. QED
      BY <2>5, <3>1, <3>2 DEF NothingLost
  <2>7. CASE HideStep
    <3>1. spans' = spans
      BY <2>7 DEF HideStep
    <3>2. LastLineComment'
      BY <1>1, <2>1, <2>2, <2>7, HideEndsText
    <3>3. QED
      BY <2>5, <3>1, <3>2 DEF NothingLost
  <2>8. CASE CloseStep \/ SkipStep \/ IndentStep \/ LexemStep
    <3>1. \E kind, id, to : Reads(kind, id, to)
      BY <2>8 DEF CloseStep, SkipStep, IndentStep, LexemStep
    <3>2. QED
      BY <2>3, <3>1
  <2>9. CASE UNCHANGED scanVars
    BY <1>2, <2>1, <2>2, <2>9 DEF scanVars
  <2>10. QED
    BY <2>2, <2>6, <2>7, <2>8, <2>9
<1>6. CASE UNCHANGED vars
  BY <1>2, <1>6 DEF vars, lexerVars
<1>7. QED
  BY <1>3, <1>4, <1>5, <1>6 DEF Next

(***************************************************************************)
(* Nothing of a text is lost or read twice, for every grammar and every    *)
(* text: Lexer::next returns or skips one thing after the other, and only  *)
(* blanks are between (src/lexer.cpp).                                     *)
(***************************************************************************)
THEOREM NothingIsLost == Spec => []NothingLost
<1>1. Init => NothingLost
  BY DEF Init, NothingLost
<1>2. QED
  BY <1>1, InvHolds, NothingLostKept, PTL DEF Spec

-----------------------------------------------------------------------------
(* The lexem is the one the rules choose.                                  *)

Chosen(s) ==
  LET length(i) == MatchLength(lexer.defs[i], text, s.from)
  IN  /\ s.kind = "lexem" /\ s.to > s.from =>
            /\ ~ CommentAt(s.from)
            /\ \A i \in TriedAt(s.from) : length(i) <= s.to - s.from
            /\ \E i \in DOMAIN lexer.defs :
                  /\ lexer.defs[i].id = s.id
                  /\ length(i) = s.to - s.from
                  /\ \A j \in TriedAt(s.from) : length(j) = length(i) => Precedes(i, j)
      /\ s.kind = "error" => CommentAt(s.from) \/ TriedAt(s.from) = {}
      /\ s.kind \in {"lexem", "error"} => \A i \in Missed(s.from) : ~ BeginsPlain(lexer.defs[i].regex)

LEMMA ChosenKept ==
  ASSUME lexer' = lexer, text' = text, NEW s
  PROVE  Chosen(s)' = Chosen(s)
<1>1. TriedAt(s.from)' = TriedAt(s.from) /\ Missed(s.from)' = Missed(s.from)
  BY DEF TriedAt, Missed, MatchingAt
<1>2. CommentAt(s.from)' = CommentAt(s.from)
  BY DEF CommentAt
<1>3. \A i, j : Precedes(i, j)' = Precedes(i, j)
  BY DEF Precedes
<1>4. QED
  BY <1>1, <1>2, <1>3 DEF Chosen

(* All that are tried at a place are candidates there: a pattern is        *)
(* entered with the characters that activate it, a keyword with its first. *)
LEMMA TriedAreCandidates ==
  ASSUME ScanInv, pos <= Len(text), ~ scanned, NEW i \in TriedAt(pos)
  PROVE  \E k \in 1 .. Len(Candidates) : Candidates[k] = i
<1>1. Place
  BY TextIsSeq DEF ScanInv, Place
<1>2. /\ i \in DOMAIN lexer.defs /\ lexer.defs[i].regex # <<>> /\ Length(i) > 0
      /\ lexer.defs[i].keyword \/ text[pos] \in Activation(lexer.defs[i].regex)
  BY DEF TriedAt, Missed, MatchingAt, Length
<1>3. DefsEntered(lexer.defs, lexer.firstmap) /\ KeywordsLiteral(lexer.defs)
  BY <1>1 DEF Place, LexerInv, LexemsEntered
<1>4. text[pos] \in Activation(lexer.defs[i].regex)
  <2>1. CASE lexer.defs[i].keyword
    <3>1. lexer.defs[i].name \in DOMAIN Spelling /\ lexer.defs[i].regex = Literal(lexer.defs[i].name)
      BY <1>2, <1>3, <2>1 DEF KeywordsLiteral
    <3>2. text \in Texts /\ pos \in 1 .. Len(text) /\ Len(text) \in Nat
      <4>1. text \in Seq(Chars) /\ pos \in 1 .. Len(text)
        BY <1>1 DEF Place
      <4>2. text # <<>>
        BY <4>1
      <4>3. QED
        BY <4>1, <4>2 DEF ScanInv
    <3> DEFINE name == lexer.defs[i].name
               ends == MatchEnds(Literal(name), text, pos)
    <3>3. ends \subseteq {pos} \/ text[pos] \in Activation(Literal(name))
      BY <3>1, <3>2, KeywordsAssumption
    <3>4. pos + Length(i) \in ends
      <4>1. text \in Seq(Chars) /\ pos \in 1 .. Len(text) + 1
        BY <1>1, <3>2 DEF Place
      <4>2. pos + Length(i) \in MatchEnds(lexer.defs[i].regex, text, pos)
        BY <1>2, <4>1, MatchLengthFact DEF Length
      <4>3. QED
        BY <3>1, <4>2
    <3>5. pos + Length(i) # pos
      <4>1. Length(i) \in 0 .. Len(text) + 1 - pos
        BY <1>1, LengthFact
      <4>2. QED
        BY <1>2, <3>2, <4>1
    <3> HIDE DEF ends
    <3>6. text[pos] \in Activation(Literal(name))
      BY <3>3, <3>4, <3>5
    <3>7. QED
      BY <3>1, <3>6
  <2>2. QED
    BY <1>2, <2>1
<1>5. text[pos] \in Chars /\ Candidates = lexer.firstmap[text[pos]] /\ DOMAIN Candidates = 1 .. Len(Candidates)
  BY <1>1, CandidatesFact
<1>6. Has(lexer.firstmap, text[pos], i)
  BY <1>2, <1>3, <1>4, <1>5 DEF DefsEntered
<1>7. QED
  BY <1>5, <1>6 DEF Has

(* None that begins plainly is passed over.                                *)
LEMMA PlainAreTried ==
  ASSUME ScanInv, pos <= Len(text), ~ scanned, NEW i \in Missed(pos)
  PROVE  ~ BeginsPlain(lexer.defs[i].regex)
<1> SUFFICES ASSUME BeginsPlain(lexer.defs[i].regex) PROVE FALSE
  OBVIOUS
<1>1. Place
  BY TextIsSeq DEF ScanInv, Place
<1>2. /\ i \in DOMAIN lexer.defs /\ lexer.defs[i].regex # <<>> /\ Length(i) > 0
      /\ text[pos] \notin Activation(lexer.defs[i].regex)
  BY DEF Missed, MatchingAt, Length
<1>3. text \in Texts /\ text \in Seq(Chars) /\ pos \in 1 .. Len(text) /\ Len(text) \in Nat
  <2>1. text \in Seq(Chars) /\ pos \in 1 .. Len(text)
    BY <1>1 DEF Place
  <2>2. text # <<>>
    BY <2>1
  <2>3. QED
    BY <2>1, <2>2 DEF ScanInv
<1>4. text[pos] \notin Blanks
  BY <1>3 DEF ScanInv
<1>5. PICK regex : regex = lexer.defs[i].regex
  OBVIOUS
<1>6. regex \in {RegexOf[s] : s \in DOMAIN RegexOf} \cup {Literal(name) : name \in DOMAIN Spelling}
  <2>1. lexer.defs \in Seq(Definitions)
    BY <1>1 DEF Place, LexerInv, LexemsEntered, Lexers
  <2>2. lexer.defs[i] \in Definitions
    BY <1>2, <2>1
  <2>3. regex \in Regexes /\ regex # <<>>
    BY <1>2, <1>5, <2>2 DEF Definitions
  <2>4. QED
    BY <2>3 DEF Regexes
<1>7. MatchEnds(regex, text, pos) \subseteq {pos} \/ text[pos] \in Activation(regex)
  BY <1>3, <1>4, <1>5, <1>6, ActivationAssumption
<1>8. pos + Length(i) \in MatchEnds(regex, text, pos)
  <2>1. pos \in 1 .. Len(text) + 1
    BY <1>3
  <2>2. QED
    BY <1>2, <1>3, <1>5, <2>1, MatchLengthFact DEF Length
<1>9. pos + Length(i) # pos
  <2>1. Length(i) \in 0 .. Len(text) + 1 - pos
    BY <1>1, LengthFact
  <2>2. QED
    BY <1>2, <1>3, <2>1
<1>10. QED
  BY <1>2, <1>5, <1>7, <1>8, <1>9

LEMMA LexemIsChosen ==
  ASSUME ScanInv, phase = "compiler", ~ scanned, AtLexem
  PROVE  Chosen([kind |-> "lexem", id |-> lexer.defs[Best.idx].id, from |-> pos, to |-> pos + Best.len])
<1> DEFINE len == Best.len
           idx == Best.idx
           s == [kind |-> "lexem", id |-> lexer.defs[idx].id, from |-> pos, to |-> pos + len]
<1>1. Place /\ pos <= Len(text) /\ CommentEntry = 0 /\ idx # 0 /\ lexer.error = "none"
  BY TextIsSeq DEF ScanInv, Place, AtLexem, IsLexem
<1>2. ~ CommentAt(pos)
  BY <1>1, CommentEntryFact
<1>3. IsBest(Best, Len(Candidates))
  BY <1>1, BestFact
<1>4. /\ idx \in 0 .. Len(lexer.defs) /\ len \in 0 .. Len(text) + 1 - pos
      /\ len = Length(idx)
      /\ \A l \in 1 .. Len(Candidates) : Candidates[l] > 0 =>
            /\ Length(Candidates[l]) <= len
            /\ Length(Candidates[l]) = len /\ len > 0 => Precedes(idx, Candidates[l])
  BY <1>1, <1>3 DEF IsBest, Matched
<1>5. Len(lexer.defs) \in Nat /\ DOMAIN lexer.defs = 1 .. Len(lexer.defs)
  BY <1>1, DefsFact
<1>6. idx \in DOMAIN lexer.defs
  BY <1>1, <1>4, <1>5
<1>7. pos \in Nat /\ len \in Nat
  BY <1>1, <1>4 DEF Place
<1> HIDE DEF len, idx
<1>8. pos + len - pos = len /\ (pos + len > pos => len > 0)
  BY <1>7
<1>9. ASSUME NEW j \in TriedAt(pos)
      PROVE  Length(j) <= len /\ (Length(j) = len /\ len > 0 => Precedes(idx, j))
  <2>1. PICK l \in 1 .. Len(Candidates) : Candidates[l] = j
    BY <1>1, TriedAreCandidates
  <2>2. j \in DOMAIN lexer.defs
    BY DEF TriedAt, MatchingAt
  <2>3. j > 0
    BY <1>5, <2>2
  <2>4. QED
    BY <1>4, <2>1, <2>3
<1>10. s.kind = "lexem" /\ s.from = pos /\ s.to = pos + len /\ s.id = lexer.defs[idx].id
  OBVIOUS
<1> HIDE DEF s
<1>11. ASSUME s.to > s.from
       PROVE  /\ ~ CommentAt(s.from)
              /\ \A i \in TriedAt(s.from) : MatchLength(lexer.defs[i], text, s.from) <= s.to - s.from
              /\ \E i \in DOMAIN lexer.defs :
                  /\ lexer.defs[i].id = s.id
                  /\ MatchLength(lexer.defs[i], text, s.from) = s.to - s.from
                  /\ \A j \in TriedAt(s.from) :
                       MatchLength(lexer.defs[j], text, s.from) = MatchLength(lexer.defs[i], text, s.from) => Precedes(i, j)
  <2>1. len > 0 /\ s.to - s.from = len
    <3>1. s.from = pos /\ s.to = pos + len
      BY <1>10
    <3>2. s.to > s.from
      BY <1>11
    <3>3. pos + len > pos
      BY <3>1, <3>2, Zenon
    <3>4. PICK a, b : a = s.to /\ b = s.from
      OBVIOUS
    <3>5. a = pos + len /\ b = pos
      BY <3>1, <3>4, Zenon
    <3>6. a - b = len
      BY <1>7, <3>5
    <3>7. s.to - s.from = len
      BY <3>4, <3>6, Zenon
    <3>8. QED
      BY <1>8, <3>3, <3>7, Zenon
  <2>2. \A i : MatchLength(lexer.defs[i], text, s.from) = Length(i)
    BY <1>10 DEF Length
  <2>3. QED
    BY <1>2, <1>4, <1>6, <1>9, <1>10, <2>1, <2>2
<1>12. s.kind # "error" /\ \A i \in Missed(s.from) : ~ BeginsPlain(lexer.defs[i].regex)
  BY <1>1, <1>10, PlainAreTried
<1>13. Chosen(s)
  BY <1>11, <1>12 DEF Chosen
<1>14. QED
  BY <1>13 DEF s, len, idx

LEMMA NothingTried ==
  ASSUME ScanInv, phase = "compiler", ~ scanned, pos <= Len(text), CommentEntry = 0, Best.idx = 0
  PROVE  TriedAt(pos) = {}
<1>1. Place
  BY TextIsSeq DEF ScanInv, Place
<1>2. IsBest(Best, Len(Candidates))
  BY <1>1, BestFact
<1>3. \A l \in 1 .. Len(Candidates) : Candidates[l] > 0 => Length(Candidates[l]) <= 0
  BY <1>2 DEF IsBest
<1>4. ASSUME NEW j \in TriedAt(pos) PROVE FALSE
  <2>1. PICK l \in 1 .. Len(Candidates) : Candidates[l] = j
    BY TriedAreCandidates
  <2>2. j \in DOMAIN lexer.defs /\ Length(j) > 0
    BY DEF TriedAt, MatchingAt, Length
  <2>3. j > 0
    BY <1>1, <2>2, DefsFact
  <2>4. Length(j) <= 0 /\ Length(j) \in Int
    BY <1>1, <1>3, <2>1, <2>3, LengthFact
  <2>5. QED
    BY <2>2, <2>4
<1>5. QED
  BY <1>4

LEMMA LexemChosenKept == Inv /\ LexemChosen /\ [Next]_vars => LexemChosen'
<1> SUFFICES ASSUME Inv, LexemChosen, [Next]_vars PROVE LexemChosen'
  OBVIOUS
<1>1. ScanInv
  BY DEF Inv
<1>2. LexemChosen <=> \A s \in LastSpan : Chosen(s)
  BY DEF LexemChosen, Chosen
<1>3. LexemChosen' <=> \A s \in LastSpan' : Chosen(s)'
  BY DEF LexemChosen, Chosen
<1>4. ASSUME spans' = spans, lexer' = lexer, text' = text
      PROVE  LexemChosen'
  <2>1. LastSpan' = LastSpan
    BY <1>4 DEF LastSpan
  <2>2. QED
    BY <1>2, <1>3, <1>4, <2>1, ChosenKept
<1>5. CASE ReadGrammar
  BY <1>4, <1>5 DEF ReadGrammar, lexerVars
<1>6. CASE LoadCompiler
  <2>1. spans' = <<>>
    BY <1>1, <1>6 DEF LoadCompiler, ScanInv
  <2>2. LastSpan' = {}
    BY <2>1 DEF LastSpan
  <2>3. QED
    BY <1>3, <2>2
<1>7. CASE ScanText
  <2>1. phase = "compiler" /\ NextLexem
    BY <1>7 DEF ScanText
  <2>2. /\ ~ scanned /\ lexer' = lexer /\ text' = text
        /\ EndStep \/ HideStep \/ CloseStep \/ SkipStep \/ IndentStep \/ LexemStep \/ UNCHANGED scanVars
    BY <1>1, <2>1, ScanStep
  <2>3. ASSUME NEW kind, NEW id, NEW to, Reads(kind, id, to),
               Chosen([kind |-> kind, id |-> id, from |-> pos, to |-> to])
        PROVE  LexemChosen'
    <3>s. PICK s : s = [kind |-> kind, id |-> id, from |-> pos, to |-> to]
      OBVIOUS
    <3>1. spans' # <<>> /\ Len(spans') = Len(spans) + 1 /\ spans'[Len(spans) + 1] = s
      BY <1>1, <2>3, <3>s, ReadsFact
    <3>2. Chosen(s)
      BY <2>3, <3>s
    <3>3. LastSpan' = {s}
      BY <3>1 DEF LastSpan, Last
    <3>4. Chosen(s)'
      BY <2>2, <3>2, ChosenKept
    <3>5. QED
      BY <1>3, <3>3, <3>4
  <2>4. ASSUME NEW kind \in {"comment", "newLine", "open", "close"}, NEW id, NEW to
        PROVE  Chosen([kind |-> kind, id |-> id, from |-> pos, to |-> to])
    BY DEF Chosen
  <2>5. CASE EndStep \/ HideStep \/ UNCHANGED scanVars
    BY <1>4, <2>2, <2>5 DEF EndStep, HideStep, scanVars
  <2>6. CASE CloseStep
    <3>1. \E id \in Int : Reads("close", id, pos)
      BY <2>6 DEF CloseStep
    <3>2. QED
      BY <2>3, <2>4, <3>1
  <2>7. CASE IndentStep
    <3>1. PICK kind \in {"newLine", "open", "close"}, id \in Int : Reads(kind, id, pos)
      BY <2>7 DEF IndentStep
    <3>2. QED
      BY <2>3, <2>4, <3>1
  <2>8. CASE SkipStep
    <3>1. PICK kind \in {"comment", "error"}, id \in Int, to \in pos .. Len(text) + 1 :
            /\ Reads(kind, id, to)
            /\ kind = "error" => CommentAt(pos) \/ (CommentEntry = 0 /\ Best.idx = 0)
      BY <2>8 DEF SkipStep
    <3>2. CASE kind = "comment"
      BY <2>3, <2>4, <3>1, <3>2
    <3>3. CASE kind = "error"
      <4>1. CommentAt(pos) \/ TriedAt(pos) = {}
        BY <1>1, <2>1, <2>2, <2>8, <3>1, <3>3, NothingTried DEF SkipStep
      <4>2. \A i \in Missed(pos) : ~ BeginsPlain(lexer.defs[i].regex)
        BY <1>1, <2>2, <2>8, PlainAreTried DEF SkipStep
      <4>3. Chosen([kind |-> kind, id |-> id, from |-> pos, to |-> to])
        BY <3>3, <4>1, <4>2 DEF Chosen
      <4>4. QED
        BY <2>3, <3>1, <4>3
    <3>4. QED
      BY <3>2, <3>3
  <2>9. CASE LexemStep
    <3>1. AtLexem /\ Reads("lexem", lexer.defs[Best.idx].id, pos + Best.len)
      BY <2>9 DEF LexemStep
    <3>2. Chosen([kind |-> "lexem", id |-> lexer.defs[Best.idx].id, from |-> pos, to |-> pos + Best.len])
      BY <1>1, <2>1, <2>2, <3>1, LexemIsChosen
    <3> DEFINE id == lexer.defs[Best.idx].id
               to == pos + Best.len
    <3>3. Reads("lexem", id, to) /\ Chosen([kind |-> "lexem", id |-> id, from |-> pos, to |-> to])
      BY <3>1, <3>2
    <3> HIDE DEF id, to
    <3>4. QED
      BY <2>3, <3>3
  <2>10. QED
    BY <2>2, <2>5, <2>6, <2>7, <2>8, <2>9
<1>8. CASE UNCHANGED vars
  BY <1>4, <1>8 DEF vars, lexerVars
<1>9. QED
  BY <1>5, <1>6, <1>7, <1>8 DEF Next

(***************************************************************************)
(* A lexem returned is that of the longest match that is tried at its      *)
(* place, of those as long the keyword or the one declared first, comments *)
(* win, and an error means that nothing that is tried matches; all that    *)
(* match are tried but those not known to begin with the character there,  *)
(* and no pattern that begins plainly is among these: for all lexers a     *)
(* grammar can define, with any library of regular expressions that finds  *)
(* the characters of keywords and of patterns that begin plainly           *)
(* (Lexer::next and LexemDef::activation, src/lexer.cpp).                  *)
(***************************************************************************)
THEOREM LexemsAreChosen == Spec => []LexemChosen
<1>1. Init => LexemChosen
  <2>1. Init => LastSpan = {}
    BY DEF Init, ScanFrom, LastSpan
  <2>2. QED
    BY <2>1 DEF LexemChosen
<1>2. QED
  BY <1>1, InvHolds, LexemChosenKept, PTL DEF Spec

-----------------------------------------------------------------------------
(* Indentation.  The scanner looks at a place with what it knows of the    *)
(* text there only: as long as it stays, it finds the same lexem.          *)

CandidatesAt(lx, t, p) == IF p > Len(t) THEN <<>> ELSE lx.firstmap[t[p]]
EolnAt(lx, t, p) ==
  LET ks == {k \in DOMAIN lx.eolnComments : Matches(t, p, Spelling[lx.eolnComments[k]])}
  IN  IF ks = {} THEN 0 ELSE CHOOSE k \in ks : \A j \in ks : k <= j
BracketAt(lx, t, p) ==
  LET ks == {k \in DOMAIN lx.bracketComments : Matches(t, p, Spelling[lx.bracketComments[k].open])}
  IN  IF ks = {} THEN 0 ELSE CHOOSE k \in ks : \A j \in ks : k <= j
CommentEntryAt(c, e, b) ==
  LET hits == {k \in DOMAIN c : (c[k] = EolnEntry /\ e > 0) \/ (c[k] = BracketEntry /\ b > 0)}
  IN  IF hits = {} THEN 0 ELSE c[CHOOSE k \in hits : \A j \in hits : k <= j]
BestAt(lx, t, p, c) ==
  LET better(b, idx) ==
        IF idx < 0 THEN b
        ELSE LET len == MatchLength(lx.defs[idx], t, p)
             IN  IF b.len <= len /\ (b.len < len \/ lx.defs[idx].keyword) THEN [idx |-> idx, len |-> len] ELSE b
      best[k \in 0 .. Len(c)] == IF k = 0 THEN NoMatch ELSE better(best[k - 1], c[k])
  IN  best[Len(c)]

LEMMA AtLexemKept ==
  ASSUME text' = text, pos' = pos, lexer' = lexer
  PROVE  AtLexem' = AtLexem
<1>1. Candidates = CandidatesAt(lexer, text, pos) /\ Candidates' = CandidatesAt(lexer', text', pos')
  BY DEF Candidates, CandidatesAt
<1>2. EolnCommentAt = EolnAt(lexer, text, pos) /\ EolnCommentAt' = EolnAt(lexer', text', pos')
  BY DEF EolnCommentAt, EolnAt
<1>3. BracketCommentAt = BracketAt(lexer, text, pos) /\ BracketCommentAt' = BracketAt(lexer', text', pos')
  BY DEF BracketCommentAt, BracketAt
<1>4. CommentEntry = CommentEntryAt(Candidates, EolnCommentAt, BracketCommentAt)
      /\ CommentEntry' = CommentEntryAt(Candidates', EolnCommentAt', BracketCommentAt')
  BY DEF CommentEntry, CommentEntryAt
<1>5. Best = BestAt(lexer, text, pos, Candidates) /\ Best' = BestAt(lexer', text', pos', Candidates')
  BY DEF Best, Better, BestAt
<1>6. Candidates' = Candidates /\ EolnCommentAt' = EolnCommentAt /\ BracketCommentAt' = BracketCommentAt
  BY <1>1, <1>2, <1>3
<1>7. CommentEntry' = CommentEntry /\ Best' = Best
  BY <1>4, <1>5, <1>6, Zenon
<1>8. QED
  BY <1>7 DEF AtLexem, IsLexem

(* Counting the blocks opened and closed.                                  *)
Before(s, k, kind) == {j \in 1 .. k - 1 : s[j].kind = kind}
DepthIn(s, k) == Cardinality(Before(s, k, "open")) - Cardinality(Before(s, k, "close"))

LEMMA BeforeFact ==
  ASSUME NEW s, NEW k \in Nat \ {0}, NEW kind
  PROVE  /\ IsFiniteSet(Before(s, k, kind)) /\ Cardinality(Before(s, k, kind)) \in Nat
         /\ Cardinality(Before(s, k + 1, kind)) =
              Cardinality(Before(s, k, kind)) + (IF s[k].kind = kind THEN 1 ELSE 0)
<1>1. IsFiniteSet(1 .. k - 1)
  BY FS_Interval
<1>2. Before(s, k, kind) \subseteq 1 .. k - 1
  BY DEF Before
<1>3. IsFiniteSet(Before(s, k, kind))
  BY <1>1, <1>2, FS_Subset
<1>4. Cardinality(Before(s, k, kind)) \in Nat
  BY <1>3, FS_CardinalityType
<1>5. k \notin Before(s, k, kind) /\ 1 .. (k + 1) - 1 = (1 .. k - 1) \cup {k}
  BY <1>2
<1>6. Before(s, k + 1, kind) = IF s[k].kind = kind THEN Before(s, k, kind) \cup {k} ELSE Before(s, k, kind)
  BY <1>5 DEF Before
<1>7. Cardinality(Before(s, k, kind) \cup {k}) = Cardinality(Before(s, k, kind)) + 1
  BY <1>3, <1>5, FS_AddElement
<1>8. QED
  BY <1>3, <1>4, <1>6, <1>7

LEMMA DepthInFact ==
  ASSUME NEW s, NEW k \in Nat \ {0}
  PROVE  /\ DepthIn(s, k) \in Int
         /\ DepthIn(s, k + 1) = IF s[k].kind = "open" THEN DepthIn(s, k) + 1
                                ELSE IF s[k].kind = "close" THEN DepthIn(s, k) - 1 ELSE DepthIn(s, k)
<1> DEFINE open(j) == Cardinality(Before(s, j, "open"))
           close(j) == Cardinality(Before(s, j, "close"))
<1>1. open(k) \in Nat /\ close(k) \in Nat
  BY BeforeFact
<1>2. open(k + 1) = open(k) + (IF s[k].kind = "open" THEN 1 ELSE 0)
  BY BeforeFact
<1>3. close(k + 1) = close(k) + (IF s[k].kind = "close" THEN 1 ELSE 0)
  BY BeforeFact
<1>4. DepthIn(s, k) = open(k) - close(k) /\ DepthIn(s, k + 1) = open(k + 1) - close(k + 1)
  BY DEF DepthIn
<1> HIDE DEF open, close
<1>5. CASE s[k].kind = "open"
  BY <1>1, <1>2, <1>3, <1>4, <1>5
<1>6. CASE s[k].kind = "close"
  BY <1>1, <1>2, <1>3, <1>4, <1>6
<1>7. CASE s[k].kind # "open" /\ s[k].kind # "close"
  BY <1>1, <1>2, <1>3, <1>4, <1>7
<1>8. QED
  BY <1>5, <1>6, <1>7

LEMMA DepthInSame ==
  ASSUME NEW s, NEW u, NEW n \in Nat, \A j \in 1 .. n : u[j] = s[j], NEW k \in 1 .. n + 1
  PROVE  DepthIn(u, k) = DepthIn(s, k)
<1>1. \A j \in 1 .. k - 1 : u[j] = s[j]
  OBVIOUS
<1>2. Before(u, k, "open") = Before(s, k, "open") /\ Before(u, k, "close") = Before(s, k, "close")
  BY <1>1 DEF Before
<1>3. QED
  BY <1>2 DEF DepthIn

LEMMA DepthIsDepthIn ==
  ASSUME NEW k
  PROVE  Depth(k) = DepthIn(spans, k) /\ Depth(k)' = DepthIn(spans', k)
  BY DEF Depth, DepthIn, Before

(* What something returned adds to the lines and the blocks; n is the      *)
(* number of what was returned before.                                     *)
Grown(kind, n) ==
  /\ n \in Nat /\ Len(spans) = n /\ Len(spans') = n + 1
  /\ \A k \in 1 .. n : spans'[k] = spans[k] /\ Column(k)' = Column(k)
  /\ spans'[n + 1].kind = kind /\ spans'[n + 1].from = pos /\ Column(n + 1)' = ColumnAt(pos)
  /\ \A k \in 1 .. n + 1 : Depth(k)' = Depth(k)
  /\ Depth(n + 1) \in Int
  /\ Depth(n + 2)' = IF kind = "open" THEN Depth(n + 1) + 1
                     ELSE IF kind = "close" THEN Depth(n + 1) - 1 ELSE Depth(n + 1)
  /\ FirstOfLine \subseteq 1 .. n
  /\ FirstOfLine' = FirstOfLine \cup (IF kind = "lexem" /\ ColumnAt(pos) >= 0 THEN {n + 1} ELSE {})

LEMMA ReadsGrown ==
  ASSUME ScanInv, lexer' = lexer, text' = text, NEW kind, NEW id, NEW to, Reads(kind, id, to)
  PROVE  \E n : Grown(kind, n)
<1> DEFINE s == [kind |-> kind, id |-> id, from |-> pos, to |-> to]
<1>n. PICK n : n = Len(spans)
  OBVIOUS
<1>1. /\ s.kind = kind /\ s.from = pos /\ n \in Nat
      /\ spans' \in Seq(Spans) /\ Len(spans') = n + 1 /\ \A k \in 1 .. n : spans'[k] = spans[k]
      /\ spans'[n + 1] = s
  BY <1>n, ReadsFact
<1> HIDE DEF s
<1>2. spans \in Seq(Spans) /\ DOMAIN spans = 1 .. n /\ DOMAIN spans' = 1 .. n + 1
  BY <1>n, <1>1 DEF ScanInv
<1>3. \A k : Column(k) = ColumnAt(spans[k].from) /\ Column(k)' = ColumnAt(spans'[k].from)
  BY DEF Column, ColumnAt
<1>4. /\ \A k \in 1 .. n : Column(k)' = Column(k)
      /\ Column(n + 1)' = ColumnAt(pos)
  BY <1>1, <1>3
<1>5. ASSUME NEW k \in 1 .. n + 1 PROVE Depth(k)' = Depth(k)
  <2>1. DepthIn(spans', k) = DepthIn(spans, k)
    BY <1>1, DepthInSame
  <2>2. QED
    BY <2>1, DepthIsDepthIn
<1>6. Depth(n + 1) \in Int
  <2>1. n + 1 \in Nat \ {0}
    BY <1>1
  <2>2. DepthIn(spans, n + 1) \in Int
    BY <2>1, DepthInFact
  <2>3. QED
    BY <2>2, DepthIsDepthIn
<1>7. Depth(n + 2)' = IF kind = "open" THEN Depth(n + 1) + 1
                      ELSE IF kind = "close" THEN Depth(n + 1) - 1 ELSE Depth(n + 1)
  <2>1. n + 1 \in Nat \ {0} /\ n + 1 + 1 = n + 2 /\ n + 1 \in 1 .. n + 1
    BY <1>1
  <2>2. DepthIn(spans', n + 1 + 1) = IF kind = "open" THEN DepthIn(spans', n + 1) + 1
                                     ELSE IF kind = "close" THEN DepthIn(spans', n + 1) - 1 ELSE DepthIn(spans', n + 1)
    BY <1>1, <2>1, DepthInFact
  <2>3. DepthIn(spans', n + 1) = DepthIn(spans, n + 1)
    BY <1>1, <2>1, DepthInSame
  <2>4. Depth(n + 1) = DepthIn(spans, n + 1) /\ Depth(n + 2)' = DepthIn(spans', n + 2)
    BY DepthIsDepthIn
  <2>5. QED
    BY <2>1, <2>2, <2>3, <2>4
<1>8. FirstOfLine \subseteq 1 .. n
  BY <1>2 DEF FirstOfLine
<1>9. FirstOfLine' = FirstOfLine \cup (IF kind = "lexem" /\ ColumnAt(pos) >= 0 THEN {n + 1} ELSE {})
  <2>1. FirstOfLine' = {k \in 1 .. n + 1 : spans'[k].kind = "lexem" /\ Column(k)' >= 0}
    BY <1>2 DEF FirstOfLine
  <2>2. FirstOfLine = {k \in 1 .. n : spans[k].kind = "lexem" /\ Column(k) >= 0}
    BY <1>2 DEF FirstOfLine
  <2>3. spans'[n + 1].kind = kind /\ 1 .. n + 1 = (1 .. n) \cup {n + 1} /\ n + 1 \notin 1 .. n
    BY <1>1
  <2>4. QED
    BY <1>1, <1>4, <2>1, <2>2, <2>3
<1>10. QED
  BY <1>n, <1>1, <1>4, <1>5, <1>6, <1>7, <1>8, <1>9 DEF Grown

-----------------------------------------------------------------------------
(* The blocks that are open.  A line is at the depth of its column as long *)
(* as no line with a smaller column came behind it; while the scanner      *)
(* closes blocks, the lexem of that line is still ahead.                   *)

Increasing == \A i, j \in 1 .. Len(indentstk) : i < j => indentstk[i] < indentstk[j]
DepthInv == \E n \in Nat : n = Len(spans) /\ Depth(n + 1) = Len(indentstk)
FlagInv ==
  indentConsumed =>
    /\ AtLexem /\ Top = ColumnAt(pos)
    /\ \E n \in Nat \ {0} : n = Len(spans) /\ spans[n].kind = "newLine" /\ spans[n].from = pos
LineAt(k) ==
  /\ k > 1 /\ spans[k - 1].kind = "newLine" /\ spans[k - 1].from = spans[k].from
  /\ Depth(k) \in Nat /\ (Depth(k) = 0 <=> Column(k) = 0)
SameAt(j, k) ==
  j < k /\ Column(j) = Column(k) /\ (\A i \in FirstOfLine : i \in j .. k => Column(i) >= Column(j))
    => Depth(j) = Depth(k)
OnStack(k) == Depth(k) <= Len(indentstk) /\ (Depth(k) > 0 => indentstk[Depth(k)] = Column(k))
Passed(k) == \E i \in FirstOfLine : i > k /\ Column(i) < Column(k)
Ahead(k) == pos > Len(text) \/ (AtLexem /\ ColumnAt(pos) >= 0 /\ ColumnAt(pos) < Column(k))

Blocks ==
  /\ Increasing /\ DepthInv /\ FlagInv
  /\ \A k \in FirstOfLine : LineAt(k)
  /\ \A j, k \in FirstOfLine : SameAt(j, k)
  /\ \A k \in FirstOfLine : OnStack(k) \/ Passed(k) \/ Ahead(k)
  /\ scanned => LastLineComment \/ indentstk = <<>>

IndentInv == phase = "compiler" /\ lexer.indentLexems.open # 0 => Blocks

(* What was said about the lines before stays true.                        *)
LEMMA GrownKeepsLines ==
  ASSUME NEW kind, NEW n, Grown(kind, n), \A k \in FirstOfLine : LineAt(k), \A j, k \in FirstOfLine : SameAt(j, k)
  PROVE  /\ \A k \in FirstOfLine :
              /\ k \in 1 .. n /\ Depth(k)' = Depth(k) /\ Column(k)' = Column(k)
              /\ LineAt(k)' /\ (Passed(k) => Passed(k)')
         /\ \A j, k \in FirstOfLine : SameAt(j, k)'
<1>1. /\ n \in Nat /\ FirstOfLine \subseteq 1 .. n /\ FirstOfLine \subseteq FirstOfLine'
      /\ FirstOfLine' \subseteq FirstOfLine \cup {n + 1}
  BY DEF Grown
<1>2. \A k \in 1 .. n : spans'[k] = spans[k] /\ Column(k)' = Column(k) /\ Depth(k)' = Depth(k)
  <2>1. \A k \in 1 .. n : k \in 1 .. n + 1
    BY <1>1
  <2>2. QED
    BY <2>1 DEF Grown
<1>3. ASSUME NEW k \in FirstOfLine
      PROVE  LineAt(k)' /\ (Passed(k) => Passed(k)')
  <2>1. k \in 1 .. n
    BY <1>1
  <2>2. LineAt(k)
    OBVIOUS
  <2>3. k - 1 \in 1 .. n
    BY <1>1, <2>1, <2>2 DEF LineAt
  <2>4. LineAt(k)'
    BY <1>2, <2>1, <2>2, <2>3 DEF LineAt
  <2>5. ASSUME Passed(k) PROVE Passed(k)'
    <3>1. PICK i \in FirstOfLine : i > k /\ Column(i) < Column(k)
      BY <2>5 DEF Passed
    <3>2. i \in 1 .. n /\ i \in FirstOfLine'
      BY <1>1
    <3>3. Column(i)' < Column(k)'
      BY <1>2, <2>1, <3>1, <3>2
    <3>4. QED
      BY <3>1, <3>2, <3>3 DEF Passed
  <2>6. QED
    BY <2>4, <2>5
<1>4. ASSUME NEW j \in FirstOfLine, NEW k \in FirstOfLine PROVE SameAt(j, k)'
  <2>1. j \in 1 .. n /\ k \in 1 .. n /\ SameAt(j, k)
    BY <1>1
  <2>2. SUFFICES ASSUME j < k, Column(j)' = Column(k)',
                        \A i \in FirstOfLine' : i \in j .. k => Column(i)' >= Column(j)'
                 PROVE  Depth(j)' = Depth(k)'
    BY DEF SameAt
  <2>3. ASSUME NEW i \in FirstOfLine, i \in j .. k PROVE Column(i) >= Column(j)
    <3>1. i \in 1 .. n /\ i \in FirstOfLine'
      BY <1>1
    <3>2. Column(i)' >= Column(j)'
      BY <2>2, <2>3, <3>1
    <3>3. QED
      BY <1>2, <2>1, <3>1, <3>2
  <2>4. Column(j) = Column(k)
    BY <1>2, <2>1, <2>2
  <2>5. Depth(j) = Depth(k)
    BY <2>1, <2>2, <2>3, <2>4 DEF SameAt
  <2>6. QED
    BY <1>2, <2>1, <2>5
<1>5. QED
  BY <1>1, <1>2, <1>3, <1>4

(* Nothing new is on a line.                                               *)
KeptLines ==
  /\ \A k \in FirstOfLine' : /\ k \in FirstOfLine /\ Depth(k)' = Depth(k) /\ Column(k)' = Column(k)
                             /\ LineAt(k)' /\ (Passed(k) => Passed(k)')
  /\ \A j, k \in FirstOfLine' : SameAt(j, k)'

LEMMA GrownKept ==
  ASSUME NEW kind, NEW n, Grown(kind, n), Blocks, kind # "lexem" \/ ColumnAt(pos) = -1
  PROVE  KeptLines
<1>1. FirstOfLine' = FirstOfLine
  <2>1. ~(kind = "lexem" /\ ColumnAt(pos) >= 0)
    OBVIOUS
  <2>2. QED
    BY <2>1 DEF Grown
<1>2. (\A k \in FirstOfLine : LineAt(k)) /\ (\A j, k \in FirstOfLine : SameAt(j, k))
  BY DEF Blocks
<1>3. /\ \A k \in FirstOfLine :
              /\ k \in 1 .. n /\ Depth(k)' = Depth(k) /\ Column(k)' = Column(k)
              /\ LineAt(k)' /\ (Passed(k) => Passed(k)')
      /\ \A j, k \in FirstOfLine : SameAt(j, k)'
  BY <1>2, GrownKeepsLines
<1>4. QED
  BY <1>1, <1>3 DEF KeptLines

(* The depth behind what was returned is the number of levels.             *)
LEMMA DepthKept ==
  ASSUME ScanInv, NEW kind, NEW n, Grown(kind, n), DepthInv,
         Len(indentstk') = IF kind = "open" THEN Len(indentstk) + 1
                           ELSE IF kind = "close" THEN Len(indentstk) - 1 ELSE Len(indentstk)
  PROVE  DepthInv'
<1>1. Depth(n + 1) = Len(indentstk) /\ n \in Nat
  BY DEF DepthInv, Grown
<1>2. n + 1 \in Nat /\ n + 1 + 1 = n + 2 /\ n + 1 = Len(spans')
  BY <1>1 DEF Grown
<1>3. Depth(n + 2)' = Len(indentstk')
  BY <1>1 DEF Grown
<1>4. \E m \in Nat : m = Len(spans') /\ Depth(m + 1)' = Len(indentstk')
  <2>1. PICK m \in Nat : m = n + 1
    BY <1>2
  <2>2. m + 1 = n + 2
    BY <1>2, <2>1
  <2>3. QED
    BY <1>2, <1>3, <2>1, <2>2
<1>5. QED
  BY <1>4 DEF DepthInv

(* A comment or an error is skipped.                                       *)
LEMMA SkipKeepsBlocks ==
  ASSUME ScanInv, ~ scanned, lexer' = lexer, text' = text, Blocks, SkipStep
  PROVE  Blocks'
<1>1. PICK kind \in {"comment", "error"}, id \in Int, to \in pos .. Len(text) + 1 : Reads(kind, id, to)
  BY DEF SkipStep
<1>2. PICK n : Grown(kind, n)
  BY <1>1, ReadsGrown
<1>3. KeptLines
  BY <1>2, GrownKept
<1>4. indentstk' = indentstk /\ indentConsumed' = indentConsumed /\ scanned' = scanned /\ pos <= Len(text)
  BY <1>1 DEF SkipStep, Reads
<1>5. ~ AtLexem
  BY DEF SkipStep, AtLexem, IsLexem
<1>6. Increasing'
  BY <1>4 DEF Blocks, Increasing
<1>7. DepthInv'
  BY <1>2, <1>4, DepthKept DEF Blocks
<1>8. FlagInv'
  BY <1>4, <1>5 DEF Blocks, FlagInv
<1>9. ASSUME NEW k \in FirstOfLine' PROVE (OnStack(k) \/ Passed(k) \/ Ahead(k))'
  <2>1. pos \in Nat /\ Len(text) \in Nat
    BY TextIsSeq DEF ScanInv
  <2>2. ~ Ahead(k)
    BY <1>4, <1>5, <2>1 DEF Ahead
  <2>3. OnStack(k) => OnStack(k)'
    BY <1>3, <1>4 DEF OnStack, KeptLines
  <2>4. QED
    BY <1>3, <2>2, <2>3 DEF Blocks, KeptLines
<1>10. QED
  BY <1>3, <1>4, <1>6, <1>7, <1>8, <1>9 DEF Blocks, KeptLines

(* A level is closed: what was on it is passed or ahead.                   *)
LEMMA PopFact ==
  ASSUME ScanInv, Increasing, indentstk # <<>>, indentstk' = Front(indentstk)
  PROVE  /\ Len(indentstk') = Len(indentstk) - 1 /\ Increasing'
         /\ \A k : Depth(k) \in Nat /\ Depth(k)' = Depth(k) /\ Column(k)' = Column(k) /\ OnStack(k)
                     => OnStack(k)' \/ Column(k) = Top
<1>l. PICK l : l = Len(indentstk)
  OBVIOUS
<1>1. /\ l \in Nat \ {0} /\ Len(indentstk') = l - 1
      /\ \A k \in 1 .. l - 1 : indentstk'[k] = indentstk[k]
  <2>1. indentstk \in Seq(Nat \ {0})
    BY DEF ScanInv
  <2>2. l \in Nat \ {0}
    BY <1>l, <2>1
  <2>3. QED
    BY <1>l, <2>2, FrontFact
<1>2. Top = indentstk[l]
  BY <1>l DEF Top, Last
<1>3. Increasing'
  BY <1>l, <1>1 DEF Increasing
<1>4. ASSUME NEW k, Depth(k) \in Nat, Depth(k)' = Depth(k), Column(k)' = Column(k), OnStack(k)
      PROVE  OnStack(k)' \/ Column(k) = Top
  <2>1. PICK d \in Nat : d = Depth(k)
    BY <1>4
  <2>2. d <= l /\ (d > 0 => indentstk[d] = Column(k))
    BY <1>l, <1>4, <2>1 DEF OnStack
  <2>3. CASE d = l
    BY <1>1, <1>2, <2>2, <2>3
  <2>4. CASE d # l
    <3>1. d <= l - 1 /\ (d > 0 => d \in 1 .. l - 1)
      BY <1>1, <2>2, <2>4
    <3>2. d <= Len(indentstk') /\ (d > 0 => indentstk'[d] = Column(k))
      BY <1>1, <2>2, <3>1
    <3>3. QED
      BY <1>4, <2>1, <3>2 DEF OnStack
  <2>5. QED
    BY <2>3, <2>4
<1>5. QED
  BY <1>l, <1>1, <1>3, <1>4

LEMMA CloseKeepsBlocks ==
  ASSUME ScanInv, ~ scanned, lexer' = lexer, text' = text, Blocks, CloseStep
  PROVE  Blocks'
<1>1. PICK id \in Int : Reads("close", id, pos)
  BY DEF CloseStep
<1>2. PICK n : Grown("close", n)
  BY <1>1, ReadsGrown
<1>3. KeptLines
  BY <1>2, GrownKept
<1>4. /\ indentstk # <<>> /\ indentstk' = Front(indentstk) /\ indentConsumed' = indentConsumed
      /\ scanned' = scanned /\ pos > Len(text) /\ pos' = pos
  BY <1>1 DEF CloseStep, Reads
<1>5. ~ AtLexem
  <2>1. pos \in Nat /\ Len(text) \in Nat
    BY TextIsSeq DEF ScanInv
  <2>2. QED
    BY <1>4, <2>1 DEF AtLexem
<1>6. Len(indentstk') = Len(indentstk) - 1 /\ Increasing'
  BY <1>4, PopFact DEF Blocks
<1>7. DepthInv'
  BY <1>2, <1>6, DepthKept DEF Blocks
<1>8. FlagInv'
  BY <1>4, <1>5 DEF Blocks, FlagInv
<1>9. ASSUME NEW k \in FirstOfLine' PROVE Ahead(k)'
  BY <1>4 DEF Ahead
<1>10. QED
  BY <1>3, <1>4, <1>6, <1>7, <1>8, <1>9 DEF Blocks, KeptLines

(* A token of the indentation is returned.                                 *)
LEMMA IndentKeepsBlocks ==
  ASSUME ScanInv, ~ scanned, lexer' = lexer, text' = text, Blocks, IndentStep
  PROVE  Blocks'
<1>1. /\ AtLexem /\ ~ indentConsumed /\ ColumnAt(pos) \in Nat /\ ColumnAt(pos) >= 0 /\ pos' = pos
      /\ Top \in Nat /\ (Top = 0 <=> indentstk = <<>>) /\ pos \in Nat \ {0}
  <2>1. pos \in Nat \ {0} /\ Len(text) \in Nat
    BY TextIsSeq DEF ScanInv
  <2>2. ColumnAt(pos) \in Nat \cup {-1} /\ Top \in Nat /\ (Top = 0 <=> indentstk = <<>>)
    BY <2>1, IndentLexemsFact
  <2>3. QED
    BY <2>1, <2>2 DEF IndentStep
<1>2. AtLexem' /\ ColumnAt(pos)' = ColumnAt(pos) /\ Len(indentstk) \in Nat /\ indentstk \in Seq(Nat \ {0})
  <2>1. AtLexem' = AtLexem
    BY <1>1, AtLexemKept
  <2>2. ColumnAt(pos)' = ColumnAt(pos)
    BY <1>1 DEF ColumnAt
  <2>3. indentstk \in Seq(Nat \ {0})
    BY DEF ScanInv
  <2>4. QED
    BY <1>1, <2>1, <2>2, <2>3
<1>3. ASSUME NEW kind \in {"newLine", "open", "close"}, NEW id, Reads(kind, id, pos)
      PROVE  /\ KeptLines /\ ~ scanned' /\ \E n : Grown(kind, n)
             /\ \A k \in FirstOfLine' : Passed(k) \/ Ahead(k) => Passed(k)' \/ Ahead(k)'
  <2>1. PICK n : Grown(kind, n)
    BY <1>3, ReadsGrown
  <2>2. KeptLines
    BY <2>1, GrownKept
  <2>3. \A k \in FirstOfLine' : Ahead(k) => Ahead(k)'
    BY <1>1, <1>2, <2>2 DEF Ahead, KeptLines
  <2>4. ~ scanned'
    BY <1>3 DEF Reads
  <2>5. QED
    BY <2>1, <2>2, <2>3, <2>4 DEF KeptLines
<1>4. CASE Top = ColumnAt(pos)
  <2>1. indentConsumed' /\ indentstk' = indentstk /\ \E id \in Int : Reads("newLine", id, pos)
    BY <1>1, <1>4 DEF IndentStep
  <2>2. PICK n : Grown("newLine", n)
    BY <1>3, <2>1
  <2>3. KeptLines /\ ~ scanned' /\ \A k \in FirstOfLine' : Passed(k) \/ Ahead(k) => Passed(k)' \/ Ahead(k)'
    BY <1>3, <2>1
  <2>4. DepthInv'
    BY <2>1, <2>2, DepthKept DEF Blocks
  <2>5. FlagInv'
    <3>1. n + 1 \in Nat \ {0} /\ n + 1 = Len(spans') /\ spans'[n + 1].kind = "newLine" /\ spans'[n + 1].from = pos'
      BY <1>1, <2>2 DEF Grown
    <3>2. Top' = ColumnAt(pos)'
      BY <1>2, <1>4, <2>1 DEF Top
    <3>3. QED
      BY <1>2, <3>1, <3>2 DEF FlagInv
  <2>6. Increasing'
    BY <2>1 DEF Blocks, Increasing
  <2>7. \A k \in FirstOfLine' : OnStack(k) => OnStack(k)'
    BY <2>1, <2>3 DEF OnStack, KeptLines
  <2>8. QED
    BY <2>3, <2>4, <2>5, <2>6, <2>7 DEF Blocks, KeptLines
<1>5. CASE Top < ColumnAt(pos)
  <2>1. indentConsumed' = indentConsumed /\ indentstk' = Append(indentstk, ColumnAt(pos))
        /\ \E id \in Int : Reads("open", id, pos)
    BY <1>1, <1>5 DEF IndentStep
  <2>2. PICK n : Grown("open", n)
    BY <1>3, <2>1
  <2>3. KeptLines /\ ~ scanned' /\ \A k \in FirstOfLine' : Passed(k) \/ Ahead(k) => Passed(k)' \/ Ahead(k)'
    BY <1>3, <2>1
  <2>l. PICK l : l = Len(indentstk)
    OBVIOUS
  <2>4. /\ l \in Nat /\ Len(indentstk') = l + 1 /\ indentstk'[l + 1] = ColumnAt(pos)
        /\ \A k \in 1 .. l : indentstk'[k] = indentstk[k]
    <3>1. PICK c \in Nat \ {0} : c = ColumnAt(pos)
      BY <1>1, <1>5
    <3>2. QED
      BY <1>2, <2>1, <2>l, <3>1, AppendProperties
  <2>5. DepthInv'
    BY <2>2, <2>4, <2>l, DepthKept DEF Blocks
  <2>6. FlagInv'
    BY <1>1, <2>1 DEF FlagInv
  <2>7. Increasing'
    <3>1. \A i \in 1 .. l : indentstk[i] \in Nat /\ indentstk[i] <= Top
      <4>1. ASSUME NEW i \in 1 .. l PROVE indentstk[i] \in Nat /\ indentstk[i] <= Top
        <5>1. Top = indentstk[l] /\ l \in 1 .. l
          BY <2>l, <2>4 DEF Top, Last
        <5>2. indentstk[i] \in Nat /\ indentstk[l] \in Nat
          BY <1>2, <2>l, <5>1
        <5>3. i < l => indentstk[i] < indentstk[l]
          BY <2>l, <5>1 DEF Blocks, Increasing
        <5>4. QED
          BY <2>4, <5>1, <5>2, <5>3
      <4>2. QED
        BY <4>1
    <3>2. ASSUME NEW i \in 1 .. l + 1, NEW j \in 1 .. l + 1, i < j PROVE indentstk'[i] < indentstk'[j]
      <4>1. CASE j = l + 1
        <5>1. i \in 1 .. l
          BY <2>4, <3>2, <4>1
        <5>2. indentstk'[i] = indentstk[i] /\ indentstk'[j] = ColumnAt(pos)
          BY <2>4, <4>1, <5>1
        <5>3. QED
          BY <1>1, <1>5, <3>1, <5>1, <5>2
      <4>2. CASE j # l + 1
        <5>1. i \in 1 .. l /\ j \in 1 .. l
          BY <2>4, <3>2, <4>2
        <5>2. QED
          BY <2>4, <2>l, <3>2, <5>1 DEF Blocks, Increasing
      <4>3. QED
        BY <4>1, <4>2
    <3>3. QED
      BY <2>4, <3>2 DEF Increasing
  <2>8. ASSUME NEW k \in FirstOfLine', OnStack(k) PROVE OnStack(k)'
    <3>1. Depth(k) \in Nat /\ Depth(k)' = Depth(k) /\ Column(k)' = Column(k)
      BY <2>3, <2>8 DEF KeptLines, LineAt, Blocks
    <3>2. PICK d \in Nat : d = Depth(k)
      BY <3>1
    <3>3. d <= l /\ (d > 0 => indentstk[d] = Column(k))
      BY <2>8, <2>l, <3>2 DEF OnStack
    <3>4. d <= l + 1 /\ (d > 0 => indentstk'[d] = Column(k))
      BY <2>4, <3>3
    <3>5. QED
      BY <2>4, <3>1, <3>2, <3>4 DEF OnStack
  <2>9. QED
    BY <2>3, <2>5, <2>6, <2>7, <2>8 DEF Blocks, KeptLines
<1>6. CASE Top > ColumnAt(pos)
  <2>1. indentConsumed' = indentConsumed /\ indentstk' = Front(indentstk)
        /\ \E id \in Int : Reads("close", id, pos)
    BY <1>1, <1>6 DEF IndentStep
  <2>2. PICK n : Grown("close", n)
    BY <1>3, <2>1
  <2>3. KeptLines /\ ~ scanned' /\ \A k \in FirstOfLine' : Passed(k) \/ Ahead(k) => Passed(k)' \/ Ahead(k)'
    BY <1>3, <2>1
  <2>4. indentstk # <<>>
    BY <1>1, <1>6
  <2>5. /\ Len(indentstk') = Len(indentstk) - 1 /\ Increasing'
        /\ \A k : Depth(k) \in Nat /\ Depth(k)' = Depth(k) /\ Column(k)' = Column(k) /\ OnStack(k)
                     => OnStack(k)' \/ Column(k) = Top
    BY <2>1, <2>4, PopFact DEF Blocks
  <2>6. DepthInv'
    BY <2>2, <2>5, DepthKept DEF Blocks
  <2>7. FlagInv'
    BY <1>1, <2>1 DEF FlagInv
  <2>8. ASSUME NEW k \in FirstOfLine', OnStack(k) PROVE OnStack(k)' \/ Ahead(k)'
    <3>1. Depth(k) \in Nat /\ Depth(k)' = Depth(k) /\ Column(k)' = Column(k)
      BY <2>3, <2>8 DEF KeptLines, LineAt, Blocks
    <3>2. OnStack(k)' \/ Column(k) = Top
      BY <2>5, <2>8, <3>1
    <3>3. CASE Column(k) = Top
      <4>1. ColumnAt(pos) < Column(k)
        BY <1>1, <1>6, <3>3
      <4>2. Ahead(k)'
        BY <1>1, <1>2, <3>1, <4>1 DEF Ahead
      <4>3. QED
        BY <4>2
    <3>4. QED
      BY <3>2, <3>3
  <2>9. QED
    BY <2>3, <2>5, <2>6, <2>7, <2>8 DEF Blocks, KeptLines
<1>7. QED
  BY <1>1, <1>4, <1>5, <1>6

(* A lexem is returned.  The first of a line is at the depth of the top    *)
(* level, which has its column.                                            *)
LEMMA LexemKeepsBlocks ==
  ASSUME ScanInv, ~ scanned, lexer' = lexer, text' = text, Blocks, LexemStep, lexer.indentLexems.open # 0
  PROVE  Blocks'
<1> DEFINE id == lexer.defs[Best.idx].id
           to == pos + Best.len
<1>1. Reads("lexem", id, to)
  BY DEF LexemStep
<1> HIDE DEF id, to
<1>2. PICK n : Grown("lexem", n)
  BY <1>1, ReadsGrown
<1>3. /\ AtLexem /\ pos <= Len(text) /\ indentstk' = indentstk /\ ~ indentConsumed' /\ ~ scanned'
      /\ indentConsumed \/ ColumnAt(pos) = -1
  <2>1. ~ scanned'
    BY <1>1 DEF Reads
  <2>2. QED
    BY <2>1 DEF LexemStep, AtLexem
<1>4. /\ pos \in Nat \ {0} /\ Len(text) \in Nat /\ ColumnAt(pos) \in Nat \cup {-1}
      /\ Top \in Nat /\ (Top = 0 <=> indentstk = <<>>) /\ Len(indentstk) \in Nat
      /\ \A k \in 1 .. Len(indentstk) : indentstk[k] \in Nat \ {0}
  <2>1. pos \in Nat \ {0} /\ Len(text) \in Nat
    BY TextIsSeq DEF ScanInv
  <2>2. ColumnAt(pos) \in Nat \cup {-1} /\ Top \in Nat /\ (Top = 0 <=> indentstk = <<>>)
    BY <2>1, IndentLexemsFact
  <2>3. indentstk \in Seq(Nat \ {0})
    BY DEF ScanInv
  <2>4. QED
    BY <2>1, <2>2, <2>3
<1>5. ~(pos > Len(text))
  BY <1>3, <1>4
<1>6. Increasing' /\ FlagInv'
  BY <1>3 DEF Blocks, Increasing, FlagInv
<1>7. DepthInv'
  BY <1>2, <1>3, DepthKept DEF Blocks
<1>8. CASE ColumnAt(pos) = -1
  <2>1. KeptLines
    BY <1>2, <1>8, GrownKept
  <2>2. ASSUME NEW k \in FirstOfLine' PROVE (OnStack(k) \/ Passed(k) \/ Ahead(k))'
    <3>1. ~ Ahead(k)
      BY <1>5, <1>8 DEF Ahead
    <3>2. OnStack(k) => OnStack(k)'
      BY <1>3, <2>1 DEF OnStack, KeptLines
    <3>3. QED
      BY <2>1, <3>1, <3>2 DEF Blocks, KeptLines
  <2>3. QED
    BY <1>3, <1>6, <1>7, <2>1, <2>2 DEF Blocks, KeptLines
<1>9. CASE ColumnAt(pos) # -1
  <2>1. /\ ColumnAt(pos) >= 0 /\ ColumnAt(pos) = Top
        /\ n \in Nat \ {0} /\ spans[n].kind = "newLine" /\ spans[n].from = pos
    <3>1. indentConsumed
      BY <1>3, <1>9
    <3>2. PICK m \in Nat \ {0} : m = Len(spans) /\ spans[m].kind = "newLine" /\ spans[m].from = pos
      BY <3>1 DEF Blocks, FlagInv
    <3>3. m = n
      BY <3>2, <1>2 DEF Grown
    <3>4. QED
      BY <1>4, <1>9, <3>1, <3>2, <3>3 DEF Blocks, FlagInv
  <2>2. /\ FirstOfLine \subseteq 1 .. n /\ FirstOfLine' = FirstOfLine \cup {n + 1}
        /\ spans'[n] = spans[n] /\ spans'[n + 1].from = pos /\ Column(n + 1)' = Top
    <3>1. n \in 1 .. n
      BY <2>1
    <3>2. QED
      BY <1>2, <2>1, <3>1 DEF Grown
  <2>3. Depth(n + 1)' = Len(indentstk)
    <3>1. n + 1 \in 1 .. n + 1
      BY <2>1
    <3>2. Depth(n + 1) = Len(indentstk)
      BY <1>2 DEF Blocks, DepthInv, Grown
    <3>3. QED
      BY <1>2, <3>1, <3>2 DEF Grown
  <2>4. /\ \A k \in FirstOfLine :
              /\ k \in 1 .. n /\ Depth(k)' = Depth(k) /\ Column(k)' = Column(k)
              /\ LineAt(k)' /\ (Passed(k) => Passed(k)')
        /\ \A j, k \in FirstOfLine : SameAt(j, k)'
    BY <1>2, GrownKeepsLines DEF Blocks
  <2>5. Top = IF Len(indentstk) = 0 THEN 0 ELSE indentstk[Len(indentstk)]
    BY <1>4 DEF Top, Last
  <2>6. ASSUME NEW k \in FirstOfLine
        PROVE  /\ Column(k) \in Nat /\ Depth(k) \in Nat /\ (Depth(k) = 0 <=> Column(k) = 0)
               /\ OnStack(k) \/ Passed(k) \/ Ahead(k)
    <3>1. k \in DOMAIN spans /\ Column(k) = ColumnAt(spans[k].from) /\ Column(k) >= 0
      BY DEF FirstOfLine, Column, ColumnAt
    <3>2. spans[k].from \in Nat \ {0}
      <4>1. spans \in Seq(Spans)
        BY DEF ScanInv
      <4>2. spans[k] \in Spans
        BY <3>1, <4>1
      <4>3. QED
        BY <4>2 DEF Spans
    <3>3. Column(k) \in Nat \cup {-1}
      BY <3>1, <3>2, IndentLexemsFact
    <3>4. Column(k) \in Nat
      BY <3>1, <3>3
    <3>5. LineAt(k)
      BY DEF Blocks
    <3>6. QED
      BY <3>4, <3>5 DEF Blocks, LineAt
  <2>7. LineAt(n + 1)'
    <3>1. n + 1 > 1 /\ (n + 1) - 1 = n
      BY <2>1
    <3>2. Len(indentstk) = 0 <=> Top = 0
      BY <1>4, <2>5
    <3>3. QED
      BY <1>4, <2>1, <2>2, <2>3, <3>1, <3>2 DEF LineAt
  <2>8. ASSUME NEW j \in FirstOfLine PROVE SameAt(j, n + 1)'
    <3>1. SUFFICES ASSUME Column(j)' = Column(n + 1)',
                          \A i \in FirstOfLine' : i \in j .. n + 1 => Column(i)' >= Column(j)'
                   PROVE  Depth(j)' = Depth(n + 1)'
      BY DEF SameAt
    <3>2. Column(j) = Top /\ Column(j) = ColumnAt(pos)
      BY <2>1, <2>2, <2>4, <3>1
    <3>3. ~ Passed(j)
      <4>1. ASSUME NEW i \in FirstOfLine, i > j, Column(i) < Column(j) PROVE FALSE
        <5>1. i \in FirstOfLine' /\ i \in 1 .. n /\ j \in 1 .. n
          BY <2>2
        <5>2. i \in j .. n + 1
          BY <2>1, <4>1, <5>1
        <5>3. Column(i)' >= Column(j)'
          BY <3>1, <5>1, <5>2
        <5>4. Column(i) >= Column(j)
          BY <2>4, <5>3
        <5>5. Column(i) \in Nat /\ Column(j) \in Nat
          BY <2>6
        <5>6. QED
          BY <4>1, <5>4, <5>5
      <4>2. QED
        BY <4>1 DEF Passed
    <3>4. ~ Ahead(j)
      <4>1. ~(ColumnAt(pos) < Column(j))
        BY <2>6, <3>2
      <4>2. QED
        BY <1>5, <4>1 DEF Ahead
    <3>5. OnStack(j)
      BY <2>6, <3>3, <3>4
    <3>6. PICK d \in Nat : d = Depth(j)
      BY <2>6
    <3>7. d <= Len(indentstk) /\ (d > 0 => indentstk[d] = Top)
      BY <3>2, <3>5, <3>6 DEF OnStack
    <3>l. PICK l \in Nat : l = Len(indentstk)
      BY <1>4
    <3>8. d = l
      <4>1. CASE l = 0
        BY <3>7, <3>l, <4>1
      <4>2. CASE l # 0
        <5>1. l \in 1 .. l /\ Top = indentstk[l] /\ Top # 0
          BY <1>4, <2>5, <3>l, <4>2
        <5>2. d # 0
          BY <2>6, <3>2, <3>6, <5>1
        <5>3. d \in 1 .. l /\ indentstk[d] = indentstk[l]
          BY <3>7, <3>l, <5>1, <5>2
        <5>4. indentstk[l] \in Nat
          BY <1>4, <3>l, <5>1
        <5>5. ~(d < l)
          <6>1. d < l => indentstk[d] < indentstk[l]
            BY <3>l, <5>1, <5>3 DEF Blocks, Increasing
          <6>2. QED
            BY <5>3, <5>4, <6>1
        <5>6. QED
          BY <5>3, <5>5
      <4>3. QED
        BY <4>1, <4>2
    <3>9. QED
      BY <2>3, <2>4, <3>6, <3>8, <3>l
  <2>9. ASSUME NEW j \in FirstOfLine', NEW k \in FirstOfLine' PROVE SameAt(j, k)'
    <3>1. CASE j \in FirstOfLine /\ k \in FirstOfLine
      BY <2>4, <3>1
    <3>2. CASE j \in FirstOfLine /\ k = n + 1
      BY <2>8, <3>2
    <3>3. CASE j = n + 1
      <4>1. k \in 1 .. n \/ k = n + 1
        BY <2>2
      <4>2. ~(j < k)
        BY <2>1, <3>3, <4>1
      <4>3. QED
        BY <4>2 DEF SameAt
    <3>4. QED
      BY <2>2, <3>1, <3>2, <3>3
  <2>10. ASSUME NEW k \in FirstOfLine' PROVE (OnStack(k) \/ Passed(k) \/ Ahead(k))'
    <3>1. CASE k = n + 1
      <4>1. PICK l \in Nat : l = Len(indentstk)
        BY <1>4
      <4>2. l > 0 => indentstk[l] = Top
        BY <2>5, <4>1
      <4>3. Depth(k)' = l /\ Column(k)' = Top /\ Len(indentstk') = l
        BY <1>3, <2>2, <2>3, <3>1, <4>1
      <4>4. OnStack(k)'
        BY <1>3, <4>2, <4>3 DEF OnStack
      <4>5. QED
        BY <4>4
    <3>2. CASE k \in FirstOfLine
      <4>1. OnStack(k) => OnStack(k)'
        BY <1>3, <2>4, <3>2 DEF OnStack
      <4>2. Ahead(k) => Passed(k)'
        <5>1. SUFFICES ASSUME Ahead(k) PROVE Passed(k)'
          OBVIOUS
        <5>2. Top < Column(k)
          BY <1>5, <2>1, <5>1 DEF Ahead
        <5>3. n + 1 \in FirstOfLine' /\ Column(n + 1)' < Column(k)'
          BY <2>2, <2>4, <3>2, <5>2
        <5>4. k \in 1 .. n
          BY <2>4, <3>2
        <5>5. n + 1 > k
          BY <2>1, <5>4
        <5>6. QED
          BY <5>3, <5>5 DEF Passed
      <4>3. QED
        BY <2>4, <2>6, <3>2, <4>1, <4>2
    <3>3. QED
      BY <2>2, <3>1, <3>2
  <2>11. \A k \in FirstOfLine' : LineAt(k)'
    BY <2>2, <2>4, <2>7
  <2>12. QED
    BY <1>3, <1>6, <1>7, <2>9, <2>10, <2>11 DEF Blocks
<1>10. QED
  BY <1>8, <1>9

LEMMA SameSpans ==
  ASSUME spans' = spans, lexer' = lexer, text' = text
  PROVE  /\ FirstOfLine' = FirstOfLine
         /\ \A k : Depth(k)' = Depth(k) /\ Column(k)' = Column(k) /\ LineAt(k)' = LineAt(k)
         /\ \A k : (Passed(k) => Passed(k)') /\ \A j : SameAt(j, k) => SameAt(j, k)'
<1>1. \A k : Depth(k)' = Depth(k) /\ Column(k)' = Column(k)
  <2>1. \A k : Column(k) = ColumnAt(spans[k].from) /\ Column(k)' = ColumnAt(spans'[k].from)
    BY DEF Column, ColumnAt
  <2>2. QED
    BY <2>1, DepthIsDepthIn
<1>2. FirstOfLine' = FirstOfLine
  BY <1>1 DEF FirstOfLine
<1>3. \A k : LineAt(k)' = LineAt(k)
  BY <1>1 DEF LineAt
<1>4. \A k : Passed(k) => Passed(k)'
  BY <1>1, <1>2 DEF Passed
<1>5. \A j, k : SameAt(j, k) => SameAt(j, k)'
  BY <1>1, <1>2 DEF SameAt
<1>6. QED
  BY <1>1, <1>2, <1>3, <1>4, <1>5

(* The text ends, or its rest is hidden.                                   *)
LEMMA EndKeepsBlocks ==
  ASSUME ScanInv, ~ scanned, phase = "compiler", NothingLost, lexer' = lexer, text' = text, Blocks,
         EndStep \/ HideStep, lexer.indentLexems.open # 0
  PROVE  Blocks'
<1>1. spans' = spans /\ indentstk' = indentstk /\ indentConsumed' = indentConsumed
  BY DEF EndStep, HideStep
<1>2. /\ FirstOfLine' = FirstOfLine
      /\ \A k : Depth(k)' = Depth(k) /\ Column(k)' = Column(k) /\ LineAt(k)' = LineAt(k)
      /\ \A k : (Passed(k) => Passed(k)') /\ \A j : SameAt(j, k) => SameAt(j, k)'
  BY <1>1, SameSpans
<1>3. ~ AtLexem
  <2>1. pos \in Nat /\ Len(text) \in Nat
    BY TextIsSeq DEF ScanInv
  <2>2. QED
    BY <2>1 DEF EndStep, HideStep, AtLexem
<1>4. scanned' => (LastLineComment \/ indentstk = <<>>)'
  BY <1>1, HideEndsText DEF EndStep
<1>5. Increasing' /\ FlagInv'
  BY <1>1, <1>3 DEF Blocks, Increasing, FlagInv
<1>6. DepthInv'
  BY <1>1, <1>2 DEF Blocks, DepthInv
<1>7. \A k \in FirstOfLine : (OnStack(k) => OnStack(k)') /\ (Ahead(k) => Ahead(k)')
  <2>1. pos > Len(text) => pos' > Len(text)
    <3>1. pos \in Nat /\ Len(text) \in Nat
      BY TextIsSeq DEF ScanInv
    <3>2. HideStep => ~(pos > Len(text))
      BY <3>1 DEF HideStep
    <3>3. QED
      BY <3>2 DEF EndStep
  <2>2. QED
    BY <1>1, <1>2, <1>3, <2>1 DEF OnStack, Ahead
<1>8. QED
  BY <1>2, <1>4, <1>5, <1>6, <1>7 DEF Blocks

LEMMA IndentKept == Inv /\ NothingLost /\ IndentInv /\ [Next]_vars => IndentInv'
<1> SUFFICES ASSUME Inv, NothingLost, IndentInv, [Next]_vars PROVE IndentInv'
  OBVIOUS
<1>1. ScanInv
  BY DEF Inv
<1>2. ASSUME UNCHANGED <<phase, lexerVars>> PROVE IndentInv'
  <2>1. /\ spans' = spans /\ lexer' = lexer /\ text' = text /\ pos' = pos /\ indentstk' = indentstk
        /\ indentConsumed' = indentConsumed /\ scanned' = scanned /\ phase' = phase
    BY <1>2 DEF lexerVars
  <2>2. SUFFICES ASSUME Blocks PROVE Blocks'
    BY <2>1 DEF IndentInv
  <2>3. /\ FirstOfLine' = FirstOfLine
        /\ \A k : Depth(k)' = Depth(k) /\ Column(k)' = Column(k) /\ LineAt(k)' = LineAt(k)
        /\ \A k : (Passed(k) => Passed(k)') /\ \A j : SameAt(j, k) => SameAt(j, k)'
    BY <2>1, SameSpans
  <2>4. AtLexem' = AtLexem /\ Top' = Top /\ ColumnAt(pos)' = ColumnAt(pos) /\ LastLineComment' = LastLineComment
    BY <2>1, AtLexemKept DEF Top, ColumnAt, LastLineComment, OnlyBlanks, SpansEnd
  <2>5. Increasing' /\ DepthInv' /\ FlagInv'
    BY <2>1, <2>2, <2>3, <2>4 DEF Blocks, Increasing, DepthInv, FlagInv
  <2>6. \A k : (OnStack(k) => OnStack(k)') /\ (Ahead(k) => Ahead(k)')
    BY <2>1, <2>3, <2>4 DEF OnStack, Ahead
  <2>7. QED
    BY <2>1, <2>2, <2>3, <2>4, <2>5, <2>6 DEF Blocks
<1>3. CASE ReadGrammar
  BY <1>2, <1>3 DEF ReadGrammar
<1>4. CASE LoadCompiler
  <2>1. spans = <<>> /\ indentstk = <<>> /\ ~ indentConsumed /\ ~ scanned
    BY <1>1, <1>4 DEF LoadCompiler, ScanInv
  <2>2. spans' = <<>> /\ indentstk' = <<>> /\ ~ indentConsumed' /\ ~ scanned'
    BY <1>4, <2>1 DEF LoadCompiler
  <2>3. FirstOfLine' = {} /\ Len(spans') = 0 /\ Len(indentstk') = 0
    BY <2>2 DEF FirstOfLine
  <2>4. DepthInv'
    <3>1. 0 \in Nat /\ 0 + 1 = 1 /\ 1 .. 1 - 1 = {} /\ 0 - 0 = 0
      OBVIOUS
    <3>2. Before(spans', 1, "open") = {} /\ Before(spans', 1, "close") = {}
      BY <3>1 DEF Before
    <3>3. DepthIn(spans', 1) = 0
      BY <3>1, <3>2, FS_EmptySet DEF DepthIn
    <3>4. Depth(1)' = 0
      BY <3>3, DepthIsDepthIn
    <3>5. PICK n \in Nat : n = 0
      BY <3>1
    <3>6. n + 1 = 1 /\ n = Len(spans')
      BY <2>3, <3>5
    <3>7. n = Len(spans') /\ Depth(n + 1)' = Len(indentstk')
      BY <2>3, <3>4, <3>5, <3>6
    <3>8. QED
      BY <3>7 DEF DepthInv
  <2>5. Increasing' /\ FlagInv'
    BY <2>2, <2>3 DEF Increasing, FlagInv
  <2>6. QED
    BY <2>2, <2>3, <2>4, <2>5 DEF IndentInv, Blocks
<1>5. CASE ScanText
  <2>1. phase = "compiler" /\ phase' = phase /\ NextLexem
    BY <1>5 DEF ScanText
  <2>2. /\ ~ scanned /\ lexer' = lexer /\ text' = text
        /\ EndStep \/ HideStep \/ CloseStep \/ SkipStep \/ IndentStep \/ LexemStep \/ UNCHANGED scanVars
    BY <1>1, <2>1, ScanStep
  <2>3. CASE UNCHANGED scanVars
    BY <1>2, <2>1, <2>2, <2>3 DEF scanVars, lexerVars
  <2>4. ASSUME lexer.indentLexems.open # 0,
               EndStep \/ HideStep \/ CloseStep \/ SkipStep \/ IndentStep \/ LexemStep
        PROVE  Blocks'
    <3>1. Blocks
      BY <2>1, <2>4 DEF IndentInv
    <3>2. QED
      BY <1>1, <2>1, <2>2, <2>4, <3>1, EndKeepsBlocks, CloseKeepsBlocks, SkipKeepsBlocks, IndentKeepsBlocks,
         LexemKeepsBlocks
  <2>5. QED
    BY <2>2, <2>3, <2>4 DEF IndentInv
<1>6. CASE UNCHANGED vars
  BY <1>2, <1>6 DEF vars, lexerVars
<1>7. QED
  BY <1>3, <1>4, <1>5, <1>6 DEF Next

LEMMA IndentImplies == Inv /\ IndentInv => IndentationBlocks
<1> SUFFICES ASSUME Inv, IndentInv, lexer.indentLexems.open # 0
             PROVE  /\ \A k \in FirstOfLine : LineAt(k)
                    /\ \A j, k \in FirstOfLine : SameAt(j, k)
                    /\ scanned /\ ~ LastLineComment => Depth(Len(spans) + 1) = 0
  BY DEF IndentationBlocks, LineAt, SameAt
<1>1. CASE phase = "compiler"
  <2>1. Blocks
    BY <1>1 DEF IndentInv
  <2>2. ASSUME scanned, ~ LastLineComment PROVE Depth(Len(spans) + 1) = 0
    <3>1. Len(indentstk) = 0
      BY <2>1, <2>2 DEF Blocks
    <3>2. QED
      BY <2>1, <3>1 DEF Blocks, DepthInv
  <2>3. QED
    BY <2>1, <2>2 DEF Blocks
<1>2. CASE phase # "compiler"
  <2>1. spans = <<>> /\ ~ scanned
    BY <1>2 DEF Inv, ScanInv
  <2>2. FirstOfLine = {}
    BY <2>1 DEF FirstOfLine
  <2>3. QED
    BY <2>1, <2>2
<1>3. QED
  BY <1>1, <1>2

(***************************************************************************)
(* The tokens of the indentation are those of blocks, for every grammar    *)
(* that declares them and every text: the lexem a line begins with follows *)
(* a newLine, lines with the same column are at the same depth unless a    *)
(* line between them has a smaller column, and all blocks are closed at    *)
(* the end (Scanner::getIndentToken and Lexer::next, src/lexer.cpp).       *)
(* A line that begins with a bracket comment has no first lexem, the code  *)
(* issues no token for what comes behind the comment.  A text that ends in *)
(* a line comment without an end of line is left with its blocks open.     *)
(***************************************************************************)
THEOREM IndentationMakesBlocks == Spec => []IndentationBlocks
<1>1. Init => IndentInv
  BY DEF Init, IndentInv
<1>2. Init => NothingLost
  BY DEF Init, NothingLost
<1>3. QED
  BY <1>1, <1>2, InvHolds, NothingLostKept, IndentKept, IndentImplies, PTL DEF Spec
=============================================================================
