------------------------------ MODULE Patterns ------------------------------
(***************************************************************************)
(* How a lexer uses the patterns of its definitions: where the library of  *)
(* regular expressions finds the ends of the matches that begin at a place *)
(* and which characters activate a pattern (src/lexer.cpp).  The longest   *)
(* match is taken; the library would prefer an earlier alternative to a    *)
(* longer one.                                                             *)
(***************************************************************************)
EXTENDS LexerDefs

RECURSIVE PartEnds(_, _, _), AltEnds(_, _, _, _)
OnceEnds(part, text, p) ==
    IF part.kind = "group" THEN UNION {AltEnds(alt, 1, text, p) : alt \in ToSet(part.alts)}
    ELSE IF part.kind = "end" THEN {p} \cap {Len(text) + 1}
    ELSE IF p <= Len(text) /\ ((text[p] \in part.chars) # part.neg) THEN {p + 1} ELSE {}

PartEnds(part, text, p) ==
    LET again(ends) == UNION {PartEnds([part EXCEPT !.mult = "many"], text, q) : q \in ends}
    IN  CASE part.mult = "one"  -> OnceEnds(part, text, p)
          [] part.mult = "opt"  -> {p} \cup OnceEnds(part, text, p)
          [] part.mult = "some" -> again(OnceEnds(part, text, p))
          [] part.mult = "many" -> {p} \cup again(OnceEnds(part, text, p) \ {p})

AltEnds(alt, i, text, p) ==
    IF i > Len(alt) THEN {p} ELSE UNION {AltEnds(alt, i + 1, text, q) : q \in PartEnds(alt[i], text, p)}

RegexEnds(regex, text, p) == UNION {AltEnds(alt, 1, text, p) : alt \in ToSet(regex)}

(***************************************************************************)
(* The characters that activate a pattern, found by a walk over its source *)
(* from part i of alternative a on with the characters acc so far: it      *)
(* stops at the first part that cannot be empty.  "*" is looked for behind *)
(* sets and groups, never behind a single character, "?" nowhere, and      *)
(* further alternatives only behind a group.                               *)
(***************************************************************************)
RECURSIVE Collected(_, _, _, _)
Collected(regex, a, i, acc) ==
    IF i > Len(regex[a])
    THEN IF a < Len(regex) THEN acc \cup ({"|"} \cap Chars) ELSE acc
    ELSE LET part == regex[a][i]
             all  == CASE part.kind \in {"char", "end"} -> acc \cup part.chars
                       [] part.kind = "set"   -> IF part.neg THEN (Chars \ Blanks) \ (acc \cup part.chars)
                                                             ELSE acc \cup part.chars
                       [] part.kind = "group" -> acc \cup Collected(part.alts, 1, 1, {})
         IN  IF part.kind = "group" /\ i = Len(regex[a]) /\ a < Len(regex)
             THEN Collected(regex, a + 1, 1, all)
             ELSE IF part.kind \in {"set", "group"} /\ part.mult = "many" THEN Collected(regex, a, i + 1, all)
                  ELSE all

ActivatedBy(regex) == Collected(regex, 1, 1, {})
=============================================================================
