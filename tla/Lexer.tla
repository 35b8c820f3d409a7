------------------------------- MODULE Lexer -------------------------------
(***************************************************************************)
(* Scanning a text (src/lexer.cpp): Lexer::next with the state of the      *)
(* Scanner.  A step is one turn of the loop in Lexer::next: it skips a     *)
(* comment, stays at an element to ignore, or returns a lexem to the       *)
(* parser.  pos is behind the blanks that follow what was read, as         *)
(* Scanner::next leaves it.                                                *)
(*                                                                         *)
(* spans is history: what was read so far, with its place in the text.     *)
(***************************************************************************)
EXTENDS LexerDefs

VARIABLES lexer,          \* the definitions, see LexerDefs
          text,           \* Scanner::m_src
          pos,            \* m_srcitr
          indentstk,      \* m_indentstk
          indentConsumed, \* m_indentConsumed
          spans,          \* what was returned or skipped
          scanned         \* the empty lexem was returned, the caller stops

scanVars == <<text, pos, indentstk, indentConsumed, spans, scanned>>
lexerVars == <<lexer, text, pos, indentstk, indentConsumed, spans, scanned>>

\* Scanner::next: the next place at or behind p that is not blank
SkipBlanks(t, p) ==
    CHOOSE q \in p..(Len(t) + 1) :
        /\ \A k \in p..(q - 1) : t[k] \in Blanks
        /\ q > Len(t) \/ t[q] \notin Blanks

Matches(t, p, s) == p + Len(s) - 1 <= Len(t) /\ SubSeq(t, p, p + Len(s) - 1) = s

\* Scanner::scan: the place behind the next s, 0 if there is none
Behind(t, p, s) ==
    LET found == {q \in p..Len(t) : Matches(t, q, s)}
    IN  IF found = {} THEN 0 ELSE (CHOOSE q \in found : \A r \in found : q <= r) + Len(s)

\* Scanner::indentCount: the blanks before p if nothing else is before it on its line, else -1
indentCount(t, p, tabSize) ==
    LET stop == CHOOSE k \in 0..(p - 1) :
                    /\ \A j \in (k + 1)..(p - 1) : t[j] \in Blanks \ {"\n"}
                    /\ k = 0 \/ t[k] \notin Blanks \ {"\n"}
        width[j \in stop..(p - 1)] ==
            IF j = stop THEN 0 ELSE width[j - 1] + (IF t[j] = "\t" THEN tabSize ELSE 1)
    IN  IF stop = 0 \/ t[stop] = "\n" THEN width[p - 1] ELSE -1

-----------------------------------------------------------------------------
Candidates == IF pos > Len(text) THEN <<>> ELSE lexer.firstmap[text[pos]]

\* The first comment of the list that begins at the place, 0 for none
EolnCommentAt ==
    LET ks == {k \in DOMAIN lexer.eolnComments : Matches(text, pos, Spelling[lexer.eolnComments[k]])}
    IN  IF ks = {} THEN 0 ELSE CHOOSE k \in ks : \A j \in ks : k <= j
BracketCommentAt ==
    LET ks == {k \in DOMAIN lexer.bracketComments : Matches(text, pos, Spelling[lexer.bracketComments[k].open])}
    IN  IF ks = {} THEN 0 ELSE CHOOSE k \in ks : \A j \in ks : k <= j

\* The candidate that ends the search, a comment that begins here; lexems before it do not count
CommentEntry ==
    LET hits == {k \in DOMAIN Candidates : \/ Candidates[k] = EolnEntry /\ EolnCommentAt > 0
                                           \/ Candidates[k] = BracketEntry /\ BracketCommentAt > 0}
    IN  IF hits = {} THEN 0 ELSE Candidates[CHOOSE k \in hits : \A j \in hits : k <= j]

(* Mutant: of matches as long the last one is taken.                       *)
BetterOrLast(best, idx) ==
    IF idx < 0 THEN best
    ELSE LET len == MatchLength(lexer.defs[idx], text, pos)
         IN  IF best.len <= len THEN [idx |-> idx, len |-> len] ELSE best

NoMatch == [idx |-> 0, len |-> 0]

\* The candidate chosen: a longer one, or one as long if it is a keyword.  The lengths begin with 0.
Better(best, idx) ==
    IF idx < 0 THEN best
    ELSE LET len == MatchLength(lexer.defs[idx], text, pos)
         IN  IF best.len <= len /\ (best.len < len \/ lexer.defs[idx].keyword)
             THEN [idx |-> idx, len |-> len] ELSE best
Best ==
    LET best[k \in 0..Len(Candidates)] == IF k = 0 THEN NoMatch ELSE Better(best[k - 1], Candidates[k])
    IN  best[Len(Candidates)]

-----------------------------------------------------------------------------
Return(kind, id, from, to) ==
    spans' = Append(spans, [kind |-> kind, id |-> id, from |-> from, to |-> to])

\* One Close for every level that is open, then the empty lexem
EndOfText ==
    /\ pos > Len(text)
    /\ IF lexer.indentLexems.open # 0 /\ indentstk # <<>>
       THEN /\ indentstk' = Front(indentstk)
            /\ Return("close", lexer.indentLexems.close, pos, pos)
            /\ UNCHANGED scanned
       ELSE /\ scanned' = TRUE
            /\ UNCHANGED <<indentstk, spans>>
    /\ UNCHANGED <<text, pos, indentConsumed>>

\* A comment that no end of line follows is taken for the end of the text
SkipEolnComment ==
    /\ CommentEntry = EolnEntry
    /\ LET open == Len(Spelling[lexer.eolnComments[EolnCommentAt]])
           next == Behind(text, pos + open, <<"\n">>)
       IN  IF next = 0
           THEN /\ scanned' = TRUE
                /\ pos' = pos + open
                /\ UNCHANGED spans
           ELSE /\ pos' = SkipBlanks(text, next)
                /\ Return("comment", EolnEntry, pos, next)
                /\ UNCHANGED scanned
    /\ UNCHANGED <<text, indentstk, indentConsumed>>

\* Without its end the comment is an error, and what follows its start is read on
SkipBracketComment ==
    /\ CommentEntry = BracketEntry
    /\ LET comment == lexer.bracketComments[BracketCommentAt]
           inside  == pos + Len(Spelling[comment.open])
           next    == Behind(text, inside, Spelling[comment.close])
       IN  IF next = 0
           THEN /\ pos' = SkipBlanks(text, inside)
                /\ Return("error", -1, pos, inside)
           ELSE /\ pos' = SkipBlanks(text, next)
                /\ Return("comment", BracketEntry, pos, next)
    /\ UNCHANGED <<text, indentstk, indentConsumed, scanned>>

\* What follows is for the candidate that was chosen, best
BadCharacter(best) ==
    /\ best.idx = 0
    /\ pos' = SkipBlanks(text, pos + 1)
    /\ Return("error", -1, pos, pos + 1)
    /\ UNCHANGED <<text, indentstk, indentConsumed, scanned>>

\* An element to ignore is not consumed: the loop looks at the same place again
Ignore(best) ==
    /\ best.idx # 0
    /\ lexer.defs[best.idx].id = 0
    /\ UNCHANGED scanVars

(* Mutant: the flag is not asked for.                                      *)
IndentTokenAgain ==
    LET cnt == indentCount(text, pos, lexer.indentLexems.tabSize)
        top == IF indentstk = <<>> THEN 0 ELSE Last(indentstk)
    IN  CASE lexer.indentLexems.open = 0 \/ cnt = -1 -> "none"
          [] OTHER -> IF top = cnt THEN "newLine" ELSE IF top < cnt THEN "open" ELSE "close"

\* Scanner::getIndentToken: the token to return before the lexem, "none" for none
IndentToken ==
    LET cnt == indentCount(text, pos, lexer.indentLexems.tabSize)
        top == IF indentstk = <<>> THEN 0 ELSE Last(indentstk)
    IN  CASE lexer.indentLexems.open = 0 \/ indentConsumed \/ cnt = -1 -> "none"
          [] OTHER -> IF top = cnt THEN "newLine" ELSE IF top < cnt THEN "open" ELSE "close"

IsLexem(best) == best.idx # 0 /\ lexer.defs[best.idx].id # 0

Indentation(best) ==
    /\ IsLexem(best)
    /\ IndentToken # "none"
    /\ \/ /\ IndentToken = "newLine"
          /\ indentConsumed' = TRUE
          /\ UNCHANGED indentstk
       \/ /\ IndentToken = "open"
          /\ indentstk' = Append(indentstk, indentCount(text, pos, lexer.indentLexems.tabSize))
          /\ UNCHANGED indentConsumed
       \/ /\ IndentToken = "close"
          /\ indentstk' = Front(indentstk)
          /\ UNCHANGED indentConsumed
    /\ Return(IndentToken, lexer.indentLexems[IndentToken], pos, pos)
    /\ UNCHANGED <<text, pos, scanned>>

(* Mutant: the character behind the lexem is skipped.                      *)
TakeLexemAndNext(best) ==
    /\ IsLexem(best)
    /\ IndentToken = "none"
    /\ pos' = SkipBlanks(text, Min({pos + best.len + 1, Len(text) + 1}))
    /\ Return("lexem", lexer.defs[best.idx].id, pos, pos + best.len)
    /\ indentConsumed' = (indentConsumed /\ lexer.indentLexems.open = 0)
    /\ UNCHANGED <<text, indentstk, scanned>>

(* Mutant: the flag is not reset.                                          *)
TakeLexemKeepsFlag(best) ==
    /\ IsLexem(best)
    /\ IndentToken = "none"
    /\ pos' = SkipBlanks(text, pos + best.len)
    /\ Return("lexem", lexer.defs[best.idx].id, pos, pos + best.len)
    /\ UNCHANGED <<text, indentstk, indentConsumed, scanned>>

\* The flag that the indentation of this place was returned is reset by asking for it
TakeLexem(best) ==
    /\ IsLexem(best)
    /\ IndentToken = "none"
    /\ pos' = SkipBlanks(text, pos + best.len)
    /\ Return("lexem", lexer.defs[best.idx].id, pos, pos + best.len)
    /\ indentConsumed' = (indentConsumed /\ lexer.indentLexems.open = 0)
    /\ UNCHANGED <<text, indentstk, scanned>>

NextLexem ==
    /\ ~ scanned
    /\ \/ EndOfText
       \/ SkipEolnComment
       \/ SkipBracketComment
       \/ /\ pos <= Len(text)
          /\ CommentEntry = 0
          /\ \E best \in {Best} :
                BadCharacter(best) \/ Ignore(best) \/ Indentation(best) \/ TakeLexem(best)
    /\ UNCHANGED lexer

\* The scanner starts before the blanks at the beginning; the first call skips them
ScanFrom(t) ==
    /\ text = t
    /\ pos = SkipBlanks(t, 1)
    /\ indentstk = <<>>
    /\ indentConsumed = FALSE
    /\ spans = <<>>
    /\ scanned = FALSE
============================================================================
