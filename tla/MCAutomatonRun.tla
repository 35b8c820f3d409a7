--------------------------- MODULE MCAutomatonRun ---------------------------
(***************************************************************************)
(* Grammars for AutomatonRun.                                              *)
(***************************************************************************)
EXTENDS AutomatonRun, FiniteSetsExt

Prod(left, right, value, assoc) ==
  [left |-> left, right |-> right, priority |-> [value |-> value, assoc |-> assoc]]

Rule(left, right) == Prod(left, right, 0, "Undefined")

(* Left recursion and parentheses.                                         *)
Sums == <<Rule("S", <<"E">>), Rule("E", <<"E", "+", "T">>), Rule("E", <<"T">>),
          Rule("T", <<"a">>), Rule("T", <<"(", "E", ")">>)>>

(* Ambiguous without the priorities.                                       *)
Operators == <<Rule("S", <<"E">>), Prod("E", <<"E", "+", "E">>, 1, "Left"),
               Prod("E", <<"E", "*", "E">>, 2, "Left"), Prod("E", <<"E", "^", "E">>, 3, "Right"),
               Rule("E", <<"a">>)>>

Elses == <<Rule("S", <<"C">>), Prod("C", <<"i", "C">>, 1, "Left"),
           Prod("C", <<"i", "C", "e", "C">>, 1, "Right"), Rule("C", <<"a">>)>>

DanglingElse == <<Rule("S", <<"C">>), Prod("C", <<"i", "C">>, 1, "Left"),
                  Prod("C", <<"i", "C", "e", "C">>, 2, "Left"), Rule("C", <<"a">>)>>

(* Empty words in lists, in the middle and at the end.                     *)
Lists == <<Rule("S", <<"T", "c", "B">>), Rule("T", <<"A", "B">>), Rule("A", <<"A", "a">>), Rule("A", <<>>),
           Rule("B", <<"b", "B">>), Rule("B", <<>>)>>

(* LALR(1), but not with the FOLLOW sets of nonterminals.                  *)
Assignments == <<Rule("S", <<"A">>), Rule("A", <<"L", "=", "R">>), Rule("A", <<"R">>),
                 Rule("L", <<"*", "R">>), Rule("L", <<"a">>), Rule("R", <<"L">>)>>

(* LR(1), but not LALR(1).                                                 *)
JoinConflict == <<Rule("S", <<"T">>), Rule("T", <<"a", "A", "d">>), Rule("T", <<"b", "B", "d">>),
                  Rule("T", <<"a", "B", "e">>), Rule("T", <<"b", "A", "e">>),
                  Rule("A", <<"c">>), Rule("B", <<"c">>)>>

(* Ambiguous: the number of B is open.                                     *)
HiddenRecursion == <<Rule("S", <<"T">>), Rule("T", <<"B", "T", "x">>), Rule("T", <<"y">>), Rule("B", <<>>)>>

(* The same with priorities that contradict each other.                    *)
HiddenPriorities == <<Rule("S", <<"T">>), Rule("T", <<"B", "T", "x">>), Prod("T", <<"y">>, 1, "Right"),
                      Prod("B", <<>>, 1, "Left")>>

(* The same with one that prefers the reduction: B for ever.               *)
HiddenReduction == <<Rule("S", <<"T">>), Prod("T", <<"B", "T", "x">>, 1, "Left"), Prod("T", <<"y">>, 1, "Left"),
                     Prod("B", <<>>, 1, "Left")>>

(* The priorities take the sentence x y z out of the language.             *)
LostSentence == <<Rule("S", <<"A">>), Prod("A", <<"x", "y", "z">>, 1, "Left"), Prod("A", <<"B", "y", "w">>, 1, "Left"),
                  Prod("B", <<"x">>, 2, "Left")>>

(* LALR(1): after the first x comes a t of C, or the x is an A.            *)
MixedContexts == <<Rule("S", <<"T">>), Rule("T", <<"A">>), Rule("T", <<"C">>), Rule("A", <<"x">>),
                   Rule("A", <<"x", "A", "t">>), Rule("C", <<"x", "t">>)>>

(* Productions as long, and as many states and terminals as there may be,  *)
(* and grammars with one more.                                             *)
Letters == <<"a", "b", "c", "d", "e", "f", "g", "h", "i", "j", "k", "l", "m", "n", "o", "p">>

LongWords(last) ==
  <<Rule("S", <<"T">>), Rule("T", [n \in 1 .. 7 |-> "a"]), Rule("T", [n \in 1 .. 7 |-> "b"]),
    Rule("T", [n \in 1 .. 7 |-> "c"]), Rule("T", [n \in 1 .. 7 |-> "d"]), Rule("T", last)>>

TooLong == <<Rule("S", <<"T">>), Rule("T", [n \in 1 .. 8 |-> "a"])>>

ManyTerminals(last) ==
  <<Rule("S", <<"T">>), Rule("T", SubSeq(Letters, 1, 7)), Rule("T", SubSeq(Letters, 8, 14)), Rule("T", last)>>

TooMany == Append(JoinConflict, Rule("B", <<"d", "c">>))

TooUrgent == <<Rule("S", <<"T">>), Prod("T", <<"a">>, MaxPriority, "Left")>>

(* One follow set less than there may be; too many when the LR(1) states   *)
(* are joined; too many before.                                            *)
ManyFollows(last) ==
  <<Rule("S", <<"T">>), Rule("T", <<"X", "a", "X", "f", "X", "g">>), Rule("T", <<"X", "b">>), Rule("T", <<"X", "c">>),
    Rule("T", <<"X", "d">>), Rule("T", last), Rule("X", <<"x">>)>>

AtLimits ==
  {TooUrgent, ManyFollows(<<"X", "e">>), ManyFollows(<<"X", "e", "X", "h">>), ManyFollows(<<"X", "e", "X", "h", "X", "i">>),
   LongWords(<<"e">>), LongWords(<<"e", "e">>), TooLong, ManyTerminals(<<"o">>), ManyTerminals(<<"o", "p">>), TooMany}

(* All grammars with up to five of these productions besides the start.    *)
Pool == <<Rule("A", <<>>), Rule("A", <<"x">>), Rule("A", <<"A", "x">>), Rule("A", <<"x", "A">>),
          Rule("A", <<"B", "y">>), Rule("A", <<"B", "A">>),
          Rule("B", <<>>), Rule("B", <<"x">>), Rule("B", <<"y", "B">>), Rule("B", <<"A">>)>>

(* With the rank of the production as priority, the first or the last      *)
(* one, or the associativity, conflicts with shifts are solved.            *)
Prioritized(G, Rank(_), assoc) ==
  [p \in DOMAIN G |-> IF p = 1 THEN G[p] ELSE Prod(G[p].left, G[p].right, Rank(p), assoc)]

Rankings(G) ==
  {Prioritized(G, LAMBDA p : p - 1, "Left"), Prioritized(G, LAMBDA p : Len(G) + 1 - p, "Left"),
   Prioritized(G, LAMBDA p : 1, "Left"), Prioritized(G, LAMBDA p : 1, "Right")}

Chosen(choice) == <<Rule("S", <<"A">>)>> \o [i \in 1 .. Cardinality(choice) |-> Pool[SetToSortSeq(choice, <)[i]]]

SmallGrammars == {G \in {Chosen(c) : c \in UNION {kSubset(k, DOMAIN Pool) : k \in 1 .. 5}} : WellFormed(G)}

ChosenGrammars ==
  {Sums, Operators, Elses, DanglingElse, Lists, Assignments, JoinConflict, HiddenRecursion,
   HiddenPriorities, HiddenReduction, LostSentence, MixedContexts} \cup AtLimits

RankedGrammars == UNION {Rankings(G) : G \in {G \in SmallGrammars : Len(G) <= 4}}

AllGrammars == ChosenGrammars \cup SmallGrammars \cup RankedGrammars

LalrGrammars == {Sums, Lists, Assignments, MixedContexts}

IsSmall(G) == \E p \in DOMAIN Pool : G[2].left = Pool[p].left /\ G[2].right = Pool[p].right

TokensOf(G) == IF IsSmall(G) THEN 3 ELSE IF G \in AtLimits THEN 8 ELSE 5

(* Every sentence of 5 tokens begins one of this length.                   *)
WordsOf(G) == IF IsSmall(G) THEN 6 ELSE 11
=============================================================================
