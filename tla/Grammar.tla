------------------------------ MODULE Grammar ------------------------------
(***************************************************************************)
(* Grammars as the grammar parser hands them to Automaton::build, and what *)
(* they mean by themselves: their sentences, and the canonical LR(1)       *)
(* construction with one lookahead per item, joined by cores to LALR(1).   *)
(* This is what the tables made in automaton.cpp are compared with.        *)
(***************************************************************************)
EXTENDS Integers, Sequences, SequencesExt

CONSTANTS
  Grammars,   \* sequences of productions [left, right, priority], the start production first
  MaxWord(_)  \* bound of the length of the sentences compared

Eof == "$"    \* the terminal 0

Assoziativity == {"Undefined", "Left", "Right"}

Priority == [value : Nat, assoc : Assoziativity]

Nonterminals(G) == {G[p].left : p \in DOMAIN G}

Symbols(G) == Nonterminals(G) \cup UNION {Range(G[p].right) : p \in DOMAIN G}

Terminals(G) == Symbols(G) \ Nonterminals(G)

(* What the grammar parser has tested: no production is there twice, every *)
(* nonterminal but the start symbol is used, the start symbol has only the *)
(* first production.                                                       *)
WellFormed(G) ==
  /\ \A p \in DOMAIN G : G[p].priority \in Priority
  /\ \A p, q \in DOMAIN G : G[p].left = G[q].left /\ G[p].right = G[q].right => p = q
  /\ \A A \in Nonterminals(G) : A = G[1].left <=> ~\E p \in DOMAIN G : A \in Range(G[p].right)
  /\ \A p \in DOMAIN G : G[p].left = G[1].left => p = 1
  /\ Eof \notin Symbols(G)

ASSUME GrammarsAssumption == \A G \in Grammars : WellFormed(G)

-----------------------------------------------------------------------------
(* The words up to a bound that the nonterminals derive, from words known.*)
Concatenated(U, V, bound) == {w \in {u \o v : u \in U, v \in V} : Len(w) <= bound}

WordsOfSequence(words, symbols, bound) ==
  FoldLeft(LAMBDA U, x : Concatenated(U, IF x \in DOMAIN words THEN words[x] ELSE {<<x>>}, bound),
           {<<>>}, symbols)

RECURSIVE Derived(_, _)
Derived(G, words) ==
  LET more == [A \in Nonterminals(G) |->
                 UNION {WordsOfSequence(words, G[p].right, MaxWord(G)) : p \in {p \in DOMAIN G : G[p].left = A}}]
  IN  IF more = words THEN words ELSE Derived(G, more)

Words == [G \in Grammars |-> Derived(G, [A \in Nonterminals(G) |-> {}])]

IsProductive(G) == \A A \in Nonterminals(G) : Words[G][A] # {}

Sentences == [G \in Grammars |-> Words[G][G[1].left]]

-----------------------------------------------------------------------------
(* The canonical construction: items with a single terminal as lookahead.  *)
Starting(G, x) == IF x \in Terminals(G) THEN {x} ELSE {w[1] : w \in Words[G][x] \ {<<>>}}

CanVanish(G, x) == x \in Nonterminals(G) /\ <<>> \in Words[G][x]

StartingRest(G, rest, lookahead) ==
  UNION {Starting(G, rest[j]) : j \in {j \in DOMAIN rest : \A k \in 1 .. j - 1 : CanVanish(G, rest[k])}}
    \cup IF \A k \in DOMAIN rest : CanVanish(G, rest[k]) THEN {lookahead} ELSE {}

Following(G, it) ==
  IF it.pos = Len(G[it.prod].right) THEN {} ELSE {G[it.prod].right[it.pos + 1]}

RECURSIVE CanonicalClosure(_, _)
CanonicalClosure(G, items) ==
  LET Predicted(it) ==
        [prod : {p \in DOMAIN G : G[p].left \in Following(G, it)}, pos : {0},
         follow : StartingRest(G, SubSeq(G[it.prod].right, it.pos + 2, Len(G[it.prod].right)), it.follow)]
      more == items \cup UNION {Predicted(it) : it \in items}
  IN  IF more = items THEN items ELSE CanonicalClosure(G, more)

CanonicalGoto(G, items, x) ==
  CanonicalClosure(G, {[it EXCEPT !.pos = @ + 1] : it \in {it \in items : x \in Following(G, it)}})

RECURSIVE CanonicalStates(_, _, _)
CanonicalStates(G, known, new) ==
  LET next == UNION {{CanonicalGoto(G, items, x) : x \in UNION {Following(G, it) : it \in items}} : items \in new}
      all  == known \cup new
  IN  IF next \subseteq all THEN all ELSE CanonicalStates(G, all, next \ all)

Core(items) == {<<it.prod, it.pos>> : it \in items}

(* The LALR(1) states of a grammar: core -> items with their lookaheads.   *)
CanonicalLalr(G) ==
  LET states == CanonicalStates(G, {}, {CanonicalClosure(G, {[prod |-> 1, pos |-> 0, follow |-> Eof]})})
  IN  [core \in {Core(items) : items \in states} |-> UNION {items \in states : Core(items) = core}]

Lalr == [G \in Grammars |-> CanonicalLalr(G)]

(* A terminal for which a state has two reductions, or one and a shift.    *)
HasConflict(G) ==
  \E core \in DOMAIN Lalr[G] :
    LET complete == {it \in Lalr[G][core] : Following(G, it) = {}}
        shifted  == UNION {Following(G, it) : it \in Lalr[G][core]}
    IN  \E it \in complete :
          it.follow \in shifted \/ \E other \in complete : other.follow = it.follow /\ other # it

(* FOLLOW of a nonterminal: the lookaheads its items have in any state.    *)
FollowOf(G, A) ==
  {it.follow : it \in {it \in UNION {Lalr[G][core] : core \in DOMAIN Lalr[G]} : G[it.prod].left = A}}
=============================================================================
