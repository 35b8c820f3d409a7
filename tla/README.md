# Formal models of mewa

mewa is a compiler front-end generator in C++17 with Lua as scripting language. This
directory holds TLA+ models of its core, configurations to check them with TLC,
and proofs for TLAPS. Paths below are relative to the root of the repository.

## 1. The system

A grammar is compiled to an LALR(1) automaton. At run time the automaton drives a shift/reduce
parser that builds an abstract syntax tree on the Lua stack and attaches to its nodes
*scopes* and *scope-steps*, which are intervals and values of a counter. Then the Lua functions
of the nodes are called. They define types, reductions and objects in the *type database*, where
every definition is valid in one scope, and query it at one scope-step.

### Components

| Component | Source | State | Operations | Modelled by |
|---|---|---|---|---|
| Scoped map | `src/scope.hpp` | array of elements `[scope, value, prev]`, search tree from key and end of scope to the first element of a list | `set`, `getOrSet`, `get`, `getDef`, `match_range` | `InvTree`, `ScopedMap`, `ScopedDict` |
| Scoped instance, objects | `src/scope.hpp`, `src/typedb.cpp` | one array and search tree per object name | `setObjectInstance`, the two getters, `getObjectInstanceTree` | `ScopedInstance`, `ObjectInstances` |
| Reductions | `src/scope.hpp`, `src/typedb.cpp` | array of relations linked to chains, scoped map to the heads | `def_reduction`, `getReduction`, `getReductions`, tree | `ReductionTable`, `ScopedRelations` |
| Types | `src/typedb.cpp`, `src/lualib_mewa.cpp` | type records, parameters, scoped map to the heads of lists of overloads | `def_type`, `def_type_as`, `getType`, `getTypes`, what the functions of a type show, tree | `TypeTable` |
| Search for types | `src/typedb.cpp` | stack of elements, priority queue (per call) | `deriveType`, `resolveType` | `TypeSearch`, `Derivation` |
| Tree, Lua nodes and iterators | `src/tree.hpp`, `src/lua_userdata.hpp`, `src/lualib_mewa.cpp` | nodes with first child and sibling, counted references, closures | `addChild`, `instance_tree`, `chld`, collection | `ScopedInstance`, `InstanceTrees` |
| Run of the compiler | `src/lua_run_compiler.cpp`, `src/lualib_mewa.cpp` | state stack, Lua stack, counter of steps; print, debug file, output | `feedLexem`, calls of node functions, `compiler:run` | `ParserRun`, `Compilation`, `AutomatonRun` |
| Lua API of the database | `src/lualib_mewa.cpp` | current scope and step | `scope`, `step`, `set_instance`, getters | `Compilation` |
| Automaton builder | `src/automaton.cpp` | nullable and FIRST sets, states as sets of items, follow sets, actions, gotos, warnings | passes of `Automaton::build` | `Automaton`, checked against `Grammar` |
| Tables of a compiler | `src/automaton_tostring.cpp`, `src/lua_load_automaton.cpp` | packed numbers, list of lexems, list of calls | written by the generator, loaded by the compiler | `PackedTable`, `LexerDefs`, `CallTable` |
| Grammar parser | `src/automaton_parser.cpp` | state of the parser, variables of the rule or command that is read | tokens of the grammar | `GrammarParser` |
| Lexer | `src/lexer.cpp` | definitions, map of first characters; position, indentation stack | definitions, `next` | `LexerDefs`, `Lexer` |
| Identifier map | `src/identmap.hpp` | names and numbers | `get`, `lookup`, `inv` | not modelled; names are model values |
| Serialization, command line, errors, files, memory | the rest of `src/` | | | not modelled: formatting, input and output, allocation |

### Interaction

```
 GrammarParser --productions--> Automaton --PackedTable--> AutomatonRun: feedLexem on these tables
       |
       +--LexerDefs, CallTable--> Lexer --lexems--> ParserRun: feedLexem with any actions
          (Language)                                    | AST with scopes and steps
                                                        v
                              Compilation: calls of the functions of the nodes, current scope and step
                                                        |
                                        ObjectInstances   TypeTable   ReductionTable
                                          |     \              |              |
                                 InstanceTrees   \        ScopedMap  <--------+
                                                  \            |
                                                   +------> InvTree     deriveType, resolveType
                                                                        read both tables
```

There is one thread and nothing is persisted: what is hard here are long sequences of legal calls.
The order of definitions decides how lists are linked. Errors thrown in the middle of an
operation leave what was done before. Several tables share arrays. Variables
of a loop survive from one turn to the next. A counter shared by all nodes has to make nested scopes. The
search must end in spite of circles, and must not end before the last tie. What one program
writes as numbers another one has to read as the same things. The list of hazards with their lines is in `PROJECT.json`.

### What makes the components correct

* Scoped map: it is a dictionary that answers with the innermost covering definition, whatever the
  order of the definitions and whatever other keys there are.
* Objects: the same, where the last definition of a scope wins, also after refused calls.
* Reductions: none is lost or shown for another type or scope; inner scopes shadow outer ones.
* Types: lists of overloads are exact and found again as long as the scopes of a context and name nest, handles are stable,
  failed definitions leave no trace in the lists.
* Search: cheapest path within the bound, ties reported, termination.
* Automaton: a grammar compiled without a conflict is parsed exactly, errors are found at the first
  wrong token, priorities make the tree they promise, the parser ends. Conflicts solved by priorities are an
  exception where they do not only choose between trees (section 5).
* Run of the compiler: the two stacks agree, no token is lost or reordered, scopes are
  nested (what the tables rely on) and cover what is below them. What a function looks up is
  what the structure of the tree says, and a run leaves nothing behind for the next one.
* Grammar parser: what is accepted is read as it is written.
* Tables: what is loaded means what was written, or is refused.
* Lexer: the best of the matches tried is returned, nothing is lost, indentation makes blocks, every text is read to its end.
* Trees: every definition is shown once and in its place; a tree lives as long as somebody uses it.

## 2. The modules

* `InvTree`: the operators of the inverse tree. The loops along `prev` are described by the set
  of elements they pass (`Walk`), the least set closed under `prev`: no recursion, so proofs can
  use it. The statement `pred.prev = new` of the two relinking loops is one operator
  (`linkLeftNeighbours`), because lists that join share the element changed. Indices start with
  1, -1 is `NoLink`.
* `ScopedDict`: the abstract dictionary, with the definitions and the last reply.
* `ScopedMap`: the table with one action per call and its result, including the refusal, and the keys and values
  `getTree` collects (`ListedIn`). `owner` is auxiliary: which key an element is stored for.
* `ScopedInstance`: the table of one key where the last definition wins, and the trees made of it: the
  array of nodes of `tree.hpp`, `ScopeHierarchyTreeBuilder`, which adds the lists one after the other,
  `translate`, and `ScopeListMap`, which puts the scopes of all keys into one tree. `Shows` says what a tree has to be:
  a node for every scope, below the one of the smallest enclosing scope.
* `ObjectInstances`: the array of instances, one per name, with the empty table for unknown names, that is the
  first one.
* `InstanceTrees` (`EXTENDS ObjectInstances`): the nodes, closures and collected userdata of Lua on a
  tree, with its counter of references.
* `ScopedRelations`, `ReductionTable`: relations in the order of their definition, and the chains
  that implement them. The heads of the chains are in a `ScopedMap` (`Heads`), as in the code: where scopes overlap it refuses some
  and loses others, and the tables do so too. `def_reduction` is the call from Lua with the checks of its arguments.
* `TypeTable`: in the same way with a `ScopedMap` of the heads (`TypeMap`), with the calls `def_type` and `def_type_as` and
  everything the functions of `typedb` show of a type.
* `TypeSearch`: one turn of the loop of the search is one step. The calls of `deriveType` and
  `resolveType_` differ only in the starts and in the test for the goal.
* `Derivation`: `deriveType` on the table of reductions: definitions, then a query, then its search.
* `ParserRun`: one action per case of `feedLexem`. The tables of the automaton are not there: any action
  may come, so what holds is true of every automaton with these productions. A node has
  only its scope, the order of the tokens below it and the scopes below it.
* `Compilation` (`EXTENDS ParserRun`): a compiler object and its runs. After a parse the functions of the nodes on top
  are called; they are the user's: they traverse arguments as `typesystem_utils.lua` does, set an object, print or
  raise an error, in any order. `frames` are the functions that run, with what they put back. Objects are the
  dictionary `ScopedDict`. `clean` and `printed` are auxiliary.
* `Grammar`: what a grammar means by itself: its sentences up to a length, and the textbook
  construction of LALR(1) states from canonical LR(1) items with one lookahead each. It is
  not a model of code but what the code is compared with, `WellFormed` excepted: the tests the grammar
  parser makes.
* `Automaton`: `Automaton::build`, one action per pass of a loop: nullable nonterminals, FIRST sets, LR(0)
  states, LR(1) states with the follow set per nonterminal the code has, their join, then for every state the shifts
  and gotos and for every follow set the reductions, inserted into the table cell by cell as
  `insertAction` does, and the refusal of `mewa.cpp` if there was a warning. `follows` are the follow sets of `FollowMap`,
  with the refusal of a join when there are too many.
* `PackedTable`: the numbers that tables are written with; the widths of the fields are constants.
* `AutomatonRun` (`EXTENDS Automaton`): the tables are packed and loaded again, then `feedLexem` on them with any input. `ParserRun` has the details of the
  Lua stack and the scopes for any tables, `AutomatonRun` has the tables and only the shape of the tree.
* `GrammarParser`: `parseLanguageDef`, one step for every token. `phase` and `cur` are the state and the local variables of
  the function, `def` is what was read, `result` the error.
* `LexerDefs`: the definitions of a lexer, the calls that add one, and the way of the definitions to the table and back. A regular expression
  is a sequence of parts; where its matches end and by which characters it is activated are constants, so that
  what is proved holds for any library.
* `Patterns`: these constants as the runs have them: the matches of `std::regex` and the walk of `LexemDef::activation` over the source
  of a pattern.
* `Lexer`: `Lexer::next` on a text of single characters, a turn of its loop is a step, with the tokens of the indentation.
* `CallTable`: the list of calls written and loaded, with the type system as the other table.
* `Language`: all of these one after the other: a grammar is read, written, loaded, and a text is scanned.
* `MC*`: instances.
* `*Proofs`: theorems. `InvTreeProofs` has the lemmas on the inverse tree and on the trees of nodes made of it (`ScopedInstance`).
  `ScopedMapProofs`, `ObjectInstancesProofs` (also about `InstanceTrees`), `TypeTableProofs` and `DerivationProofs` (about `ReductionTable` and
  `Derivation`) stand on it; `DerivationProofs` stands on `TypeSearchProofs`; `CompilationProofs` is about `ParserRun` first, then about
  `Compilation`; `LanguageProofs` is about `LexerDefs`, `Lexer` and what `Language` defines with them.

## 3. The runs

| Run | Bounds | What it shows |
|---|---|---|
| `scoped_map` | 2 keys, 2 values, 5 scopes (equal ends, equal starts, neighbours, a chain of three, two that overlap), 3 elements | `UplinksSound` and `AnswersAsDict` as long as the scopes of a key nest, refinement of `ScopedDict`: keys that share the array do not interfere, only scopes that overlap are refused |
| `scoped_map_lost` (violation) | 1 key, 5 scopes, some overlapping, 5 elements | an accepted definition that covers the step is not found |
| `object_instances` | 2 names, 2 handles, 5 scopes, two of them overlapping, 4 elements; up to 3 nodes shown and 2 userdata at a time | last one wins, a refused set changes nothing; whatever overlaps were accepted the lists stay ordered and within their name and what is found covers the step; getters and tree per name as long as its scopes nest; the counter of a tree is the number of its userdata, an iterator starts at the first child of its node and skips none |
| `tree_children` (violation) | 1 name | the iterator over children returns a child twice |
| `derivation` | 3 reductions between 3 types in two scopes, tags, weights, constructors and handles at and behind their limits, then a query | chains, queries, refinement of `ScopedRelations`, `get_reduction` never reports an ambiguity, the tree of reductions; the answer is the cheapest derivation of the visible reductions |
| `type_search` | all graphs with up to 7 edges between 4 types and small weights; one start or several, one goal or several | minimal result, ties, no path twice, termination |
| `type_table` | 4 overloads (two differ in constructors only, one is too long), 2 contexts, an invalid one and a handle of no type, synonyms, 3 scopes: `[2,5]` and `[3,7]` overlap, `[4,5]` is inside both, so that some tables nest, some refuse and some lose a scope; 3 records | exact lists and lists found again as long as the scopes of a context and name nest, handles that show what was passed, returned handles, the tree of types if all scopes nest |
| `compilation` | 6 productions, 6 actions of the parser in all runs, 2 actions of functions, 2 runs | stacks agree, order of tokens, scopes; lookups resolve as the tree is nested, scope, step, print and debug output are put back, the output is complete |
| `automaton` | 12 chosen grammars (left recursion, empty words in lists, operators and dangling else with priorities, LALR(1) but not SLR(1), LR(1) but not LALR(1), hidden left recursion without and with priorities, priorities that take a sentence away) with inputs up to 5 tokens, 10 grammars at the limits of the tables, priorities and follow sets and behind, all grammars with up to 5 of 10 productions over two nonterminals and those with up to 3 of them with four rankings by priority, with inputs up to 3 tokens: 1045 grammars | lookaheads between LALR(1) and FOLLOW; the tables loaded are those built; what is accepted is a sentence, what is refused is not the beginning of one unless priorities decided more than a tree; precedence and associativity in the tree; termination unless priorities solved a conflict about nothing |
| `automaton_lalr` (violation) | 4 LALR(1) grammars | a grammar without an LALR(1) conflict is refused |
| `language` | 4 grammars, every token of them dropped or replaced, 2 orders of loading, a type system with functions, a string and a missing member, 8 texts | accepted grammars are read as written, numbers of terminals and calls and the patterns with their selections survive loading, the best match of those tried, which keywords and plain patterns are, nothing lost, blocks of the indentation, every scan ends or stays for a known reason |
| `language_ignore` (violation) | 1 grammar with `%IGNORE`, a text | a text with an element to ignore is never read to its end |

`ScopedMap` and `ObjectInstances` are checked up to a renaming of keys, values, names and handles
(`SYMMETRY`), which the code only compares; what is checked there are invariants and steps, no liveness.

Why the bounds are enough: a list operation looks at one list and the lists that join it, and
each of the three cases of an insertion needs at most three elements of one end or of neighbours.
`object_instances` has four elements, so an insertion of each case follows one of every other, `scoped_map` has
three for two keys that share the array, and the theorems of section 4 hold for any number.
A chain or a list of overloads has its cases with the first, the second and the third element.
A search with four types has paths of three edges, ties of paths of different length, and
a circle through the goal. Six actions of the parser are enough for a production of two symbols
above productions with and without elements and with a scope, or for a failed or short run and another one. Two actions of functions are enough to
set an object in a block and another one inside or after it, or to print to both sections. The small
grammars are all that fit a pool with left, right and hidden recursion, a circle and empty
words, so conflicts, joins and nonterminals that derive nothing occur in every combination. The widths of the packed fields are
scaled down (`ShiftState = 5` and so on), and the limits derived from them as in the code, so that small grammars reach and pass
each of them: `AtLimits` has grammars with the last number of productions, states, terminals and elements that fits and with one more.
`MaxNonterminal`, `MaxTerminal`, `MaxNofProductions` and `MaxProductionLength` of the language runs are small for the same reason. The grammars of `language` have
each kind of definition; one token dropped or replaced leads into the errors of the parser. The texts have comments, nested blocks, a dedent over two levels, keywords
that begin another element, and characters that nothing matches. Larger
sizes of the tables are what the theorems are for.

`CHECK_DEADLOCK FALSE` stands where a run really ends: a search that is done, a parser that has
accepted or thrown, a text that is read, a grammar that is refused, and tables or bounds that are full in the model (`MaxTypes`, `MaxFeeds`, `MaxShown`, `MaxRuns`).

The modules with variables have a type invariant `TypeOK`. It holds in these instances, but is not among the
invariants of the runs: the questions they ask are others. It is proved for `ScopedMap`, `ObjectInstances`, `ReductionTable`,
`TypeTable`, `TypeSearch` and `ParserRun`.

Bounds that are not of the code: `MaxElements`, `MaxRelations`, `MaxTypes`, `MaxStack`,
`MaxFeeds`, `MaxCalls`, `MaxRuns`, `MaxUserdata`, `MaxShown`, `MaxSpans`, `MaxTokens`, `MaxWord`. `MaxStack` is bigger than any search of the run needs, and any parse with a grammar
whose nonterminals all derive a word, else `Terminates` would fail. `MaxWord` bounds the sentences an
input is compared with: every beginning of a sentence within `MaxTokens` is the beginning of one within `MaxWord`
(in the chosen grammars a token opens at most two places that one token closes), else
`ParsesLanguage` would fail.

Fairness: `WF_vars(Turn)` in the search, `WF_vars(Run)` in the parser on its tables, the loops of
`luaRunCompiler`, and `WF_vars(ScanText)` in the lexer, the loop of `Lexer::next` and of its caller; the input is finite. A turn is one iteration of a `while` loop that nothing
interrupts; the only way for it to go on forever is that there is always another element, what
`Terminates` excludes. The passes of the builder need none: nothing is claimed to happen in them.

## 4. The theorems

Proved with TLAPS, for every value of the constants: any number of keys, names, types, productions and calls. The constants have only
the assumptions stated with them in the modules (a bound is a natural number, a set of flags has Boolean members and the like).

### Tables

* `ScopedMapProofs`. `ListsWellLinked` (`UplinksSound`) and `AnswersRight` (`AnswersAsDict`) hold for every key whose own
  scopes nest, after any definitions of other keys. The inductive invariant `IInv` is `TypeOK /\ Ordered /\ UplinksSound`. `UplinksSound` has
  `WellLinked` of the list of such a key: the search tree leads to the innermost element of each end and every uplink to the
  smallest enclosing scope. For all keys, those whose scopes overlap included, `Ordered` has `Ascending`: ends never decrease along a list and an
  element is linked to one of its own key. Without it a list that lost its order could reach into the list of a key that nests, so
  `UplinksSound` alone is not inductive. `InvTreeProofs` derives from the invariant by which elements a walk passes
  (`Walk` of a well linked list is the chain of enclosing scopes), where it stops, and that the relinked array is
  well linked again, with sets closed under `prev` in place of an induction over the length of a list.
  `OnlyOverlapRefused` says that a refused scope overlaps one of its key. `MapImplementsDict` is the refinement of `ScopedDict` for the
  behaviours in which the scopes of each key nest, `LaminarImplementsDict` its corollary for scopes that can never overlap (`Laminar`).
* `ObjectInstancesProofs`: the same for the objects, with the arrays of all names: `ListsStayOrdered` for all scopes,
  `AnswersRight` and `ObjectsImplementDict` as above; `RefusedChangesNothing`. `TreesAreObjects`: with trees and iterators these theorems hold as well.
  `TreesAlwaysCounted`: the counter of a tree is the number of its userdata; the invariant adds that a closure that is alive
  keeps its node alive.
* `ObjectInstancesProofs!TreesAlwaysShow` (`TreeShowsInstances`): whenever the scopes of a name nest, `ScopedMap::getTree` has a node for each
  of its instances, below the node of the smallest enclosing scope, and passes them outer ones first; both copies of the tree
  show the same. The lemmas are in `InvTreeProofs`. `Climbing` says of the list of a name what `ScopeHierarchyTreeBuilder` needs: ends ascend and an
  uplink leads to a later element whose scope encloses. Then every turn of the builder keeps `Shape` of the node array: a node is a kid of
  exactly one other, kids are joined in one list, and each is below the node of its smallest enclosing scope among the ones
  added so far (`AddChildShape`). Recursive functions over the array (`nodes passed`, paths to
  the root) exist by an induction over the nodes, which their scopes order (`PathExists`, `DepthFirstPasses`). The
  strengthening is `FirstEmpty`: the first array is that of no name.
* `ObjectInstancesProofs!IteratorsAlwaysOnChildren` (`IteratorOnChildren`): an iterator that has returned nothing stands at the first child
  of the node it was made of, it returns only children of this node, and none before the one left of it. The invariant has `Forest`, that the trees alive are copies with the shape above, and
  `OnChildren` for the iterators, abandoned ones included.
* `TypeTableProofs!TypeTreesAlwaysShow` (`TypeTreeShows`), `DerivationProofs!ReductionTreesAlwaysShow` (`ReductionTreeShows`): `type_tree` and
  `reduction_tree` show every scope once, below its smallest enclosing scope, with the first types or with all reductions of it, as long as the
  scopes of all types or of all reductions nest. Three steps. `TreeOfAllShows` (`InvTreeProofs`): scopes that nest, stored in the order
  of `ScopeCompare`, are never refused, and the tree made of the table shows them. `TranslateShows`: the copy made by `Tree::translate` shows the
  same. What is copied so far is a part of the tree (`IsPart`): every copy has a source, no two the same, and is a kid of the copy of the parent of its
  source. The stack has the copies whose kids are not copied yet (`InCopy`), each node of the tree is on it once, and so it is empty
  after as many turns as there are nodes, with every node copied (`NothingOpen`, `AllCopied`). `RevaluedShows`: a tree with
  other values in its nodes shows these. Then what the heads stand for: the head of a list is the first type of its scope, context and name
  (`HeadsAreFirst`, if there are no synonyms), the chains of the heads have the relations of a scope (`HeadsLead`).
* `DerivationProofs` and `TypeTableProofs` stand on `ScopedMapProofs`: the table of the heads is an instance of `ScopedMap`, every call is a
  step of it or leaves it alone, so its invariant holds in all states (`TableInductive`, `SameMap`), whatever scopes are refused or lost. Where
  the scopes of a key nest, the head found for a scope is the one defined for it. Only there
  anything can be said of a list after further calls: with `[2,5]`, `[4,5]` and `[3,7]` in this order the code does not find what was defined in `[2,5]` any more.
* `ChainsAlwaysOfOwners` (`ChainsOfOwners`): for each type whose scopes nest, the chain of a scope has exactly the relations defined, passed in their
  order. The invariant `InChains` says that chains are ascending in the array, which is why the new
  relation is linked behind the last one the check for duplicates has passed. `ChainsImplementRelations` (`ImplementsRelations`) is the refinement of `ScopedRelations` for the behaviours in
  which the scopes of every type nest. `AnswersRight` (`AnswersAsRelations`) holds of each type whose scopes nest.
* `HandlesAlwaysStable` (`HandlesStable`): what a handle shows never changes; the list found for a scope, context and name is found after each call that leaves
  the scopes of this context and name nested, and parameters that lead to a type in it go on to do so. `DefinedAlwaysFound` (`DefinedIsFound`) is about the step of a definition, for all scopes: the handle returned is found in
  the next state; a duplicate or an error leaves every list as it was. `ListsAlwaysExact` (`ListsExact`): what getTypes returns, and the order in which the list
  passes it, for contexts and names whose scopes nest, while there are no synonyms.

### Search

* `TypeSearchProofs!PathsAlwaysTakenOnce`: two elements of the stack never show the same path. The invariant: elements with the
  same predecessor have different types (`Siblings`) and an element in the queue is not yet a predecessor (`Unexpanded`), so an element is
  expanded once. `SearchSpec` supposes `InputOK`: the reductions of a type have different targets, for which `candidatemap`
  (`scope.hpp:908`) cares, and weights are not negative (`scope.hpp:864`).
* `TypeSearchProofs!ResultAlwaysMinimal`, `ConflictAlwaysTie`: the answer of a search that has ended is a cheapest path from a context type to a
  goal, if there is one, and a second one is told exactly if there is one. The paths are those of the definition (sequences of different types),
  and not what the search has looked at. The invariant has a witness, the function `P` from the elements of the stack to the types on their way,
  which grows with the stack. `Known`: these are paths, `pathlen` is what they count, and the weight of a queue element is the sum of
  its path. `Complete`: if an element has left the queue, its path made longer by any allowed reduction is on the stack. From this follows `Frontier`,
  the argument of Dijkstra: an allowed path is that of an element that has left the queue, or an element of the queue is not heavier. `Progress`
  says what it means for the search that runs, `IsFinished` for the one that has ended: the loop pops elements until one is heavier than the
  result, as a conflict may still come. A path ends the search where it finds a goal only for the second time; the element of the first result is expanded
  like any other. The proof needs that no path is on the stack twice, else one path would be in conflict with itself,
  and `TypesAssumption`: types are finitely many, as the table of types holds all of them.
* `DerivationProofs!DerivesAlwaysMinimal` (`DerivesMinimal`) joins table and search: whenever the scopes of the reductions of each type nest,
  `deriveType` finds a sequence of the reductions defined that are visible and selected, if there is one, and one of least cost. While a query is answered the
  table does not change, so the invariants of both hold side by side (`SearchInv`), `AnswersRight` says what edges the search
  is given (`EdgesAre`), and the paths of the search correspond to sequences of reductions with the same cost and the same
  number of counted ones (`AllowedIsSolution`, `SolutionIsAllowed`). `DerivesMinimal` supposes that there is at most one such reduction between two
  types: of several, that differ in their tag, the first one defined is used even if it is dearer (section 5).

### Run of the compiler

* `CompilationProofs`, for any actions of the parser. `ElementsAccounted` (`StackAgrees`): the states account for every element of the Lua stack.
  `ScopesAlwaysNested`: the invariant `Counters` adds that the counters of the states never
  decrease from the bottom to the top and never exceed the counter of steps, and that every scope
  made so far ends at most at the counter and does not reach across the counter of a state.
  `ScopesAlwaysCover` adds `ScopesBelow`: what belongs to a state and to those above it starts at its counter or later.
  `TokensAlwaysInOrder` adds `TokensKept`: the concatenation over the Lua stack is the sequence read.
* The same in every run of a compiler object (`...InEveryRun`): a run starts with a context of its own, which is an
  initial state of `ParserRun`, and nothing but `feedLexem` changes it. `ContextAlwaysRestored`: every frame holds what the call was made in.
  `FirstOutputAlwaysComplete`: the texts printed are divided among buffer and sections.
* `ResolvedAlwaysLexically` (`ResolvedLexically`) is the theorem that joins the parts: the parser numbers scopes and steps as nodes are completed, the
  functions traverse the nodes from the top and set scope and step of typedb, and the dictionary answers by these numbers.
  The proof has two halves. `ForestKept`: there are a set of nodes closed under arguments, and for each node the scopes
  opened in it, such that arguments follow each other - what was opened in one ends before the next one starts - and
  what is opened below a node is inside its scope, or ends before the step of the node. The function from nodes to scopes
  is a witness that grows with each reduction, so no recursion over trees is needed. `Lexical`: the frames are a path in this forest, every
  frame holds the scope and step of the one around it, and an object belongs to the outermost scope, to a frame with that scope, or to a scope `Passed`:
  ended at the current step and before all nodes still to be called. So exactly the scopes of the frames cover the current step, and they nest as
  the frames do. The hypothesis `MaxFeeds < MaxStep` says that the counter of steps does not reach the end of the outermost scope, `INT_MAX` in the code.

`ScopesAlwaysNested` gives `Laminar`, so the corollaries hold for the scopes the parser
makes. A program in Lua that invents scopes of its own is covered key by key, as long as the scopes of a key nest; the run `scoped_map_lost` shows
what happens to a key whose scopes do not.

### Lexer

`LanguageProofs` follows the definitions from the grammar to the table and back, and then the scanner through the text, for all grammars,
texts and orders of the lists in a table. Of the library of regular expressions and of the walk that finds the characters that activate one
it is assumed that the characters the matches of a keyword, and of a pattern that begins plainly, begin with are among them
(`KeywordsAssumption`, `ActivationAssumption`; the run evaluates both with `Patterns`, the walk of the code). Plainly begins a pattern without alternatives
that has a set or a character that may not be left out, behind sets that may (`BeginsPlain`). Of the characters and names it is assumed that they
are characters and names (`CharsAssumption`, `SourcesAssumption`, `TextsAssumption`).

* The invariant of the definitions, `LexerInv`: the candidates of a character are in the order in which they were declared and complete. Every
  definition with a pattern is a candidate of each character that activates it, a keyword of its first one, and every comment is
  entered where it begins. `CommandKeeps` and `GrammarKeeps` show it for every step of the grammar parser, errors included, `LoadLexerKeeps` for the lexer loaded
  from the table (an induction over its entries).
* The invariant of the scanner, `ScanInv`: the place is at the end of the text or at a character that is not blank. `ScanStep` describes a step by
  what is returned, where it ends and what happens to the stack of the indentation, which is all that the three theorems need.
* `NothingIsLost` (`NothingLost`).
* `LexemsAreChosen` (`LexemChosen`). A definition is tried if it matches and is activated by the character at the place (`TriedAt`). `BestFact`: after the
  candidates up to `k` the choice is the longest of them, and precedes those as long. `TriedAreCandidates`: what is tried is among the candidates.
  `PlainAreTried`: what matches and begins plainly is tried, as every keyword. An expression whose characters the code does not find, as `a*b` at a `b`, is not tried, and
  an error may be returned where it matches (section 5).
* `IndentationMakesBlocks` (`IndentationBlocks`), without lines that begin with a bracket comment, for which the code returns no tokens, and without the
  blocks open at the end of a text that ends in a line comment. The invariant `Blocks`: the columns on the stack increase (`Increasing`), the depth
  is the height of the stack (`DepthInv`), and the flag is set only between the newLine of a line and its lexem, when the top has the column of the line (`FlagInv`). For each
  line so far, the level of its depth still has its column (`OnStack`), or a line with a smaller column came behind it
  (`Passed`), or will come: the scanner is closing blocks before the lexem of such a line, or at the end (`Ahead`). The last case is why the invariant needs
  that the scanner finds the same lexem as long as it stays where it is (`AtLexemKept`). A comment that hides the rest of the text needs `NothingLost`.

### Only model-checked

* `Terminates`, `ScanEnds` (liveness under fairness).
* `AcceptedAsWritten`, `LoadedNumbersAgree`: the first compares what the parser of grammars has read with what sets of tokens say without
  a state; both would need an invariant that relates every variable of this parser to the tokens behind it.
* `LookaheadsCover`, `TablesRead`, `ParsesLanguage`, `PriorityRespected`: `Grammar`, and with it `Automaton` and `AutomatonRun`, have `RECURSIVE`
  operators, as `PackedTable`; the prover has no SMT backend for a module that reaches one, and what they compute is defined by
  induction over data.

## 5. Findings

Each is the counterexample of a run:

1. `scope.hpp:249`: overlapping scopes are detected only along one list; accepted ones hide
   definitions (`scoped_map_lost`), and the same scope can then be defined a second time.
2. `automaton.cpp:257`: the closure has one follow set per nonterminal of a state, for the kernel items and those
   of the closure together. It is never too small (`LookaheadsCover`), but too big for some LALR(1)
   grammars, which are refused with a conflict (`automaton_lalr`).
3. `lualib_mewa.cpp:1170`: the iterator over children goes on from the node it started with, so that
   the second child is returned for ever (`tree_children`).
4. `lexer.cpp:613`: an element to ignore is neither consumed nor returned, the scan does not end (`language_ignore`).

The models follow the code also where it differs from its documentation, or surprises, in these places
that no run is spent on.

Type database:

* of two selected reductions between the same types in one scope the first one defined is used, even if it is dearer
  (`scope.hpp:911`; `typedb.hpp:345` promises the minimal sum). `DerivesMinimal` is about the reductions that are used;
* `typedb.hpp:333` promises an error of `getReduction` for an ambiguity, which `AnswersAsRelations` shows
  it never reports;
* `scope.hpp:864` accepts the weight 0.0, the message of the error says `<= 0.0` is bad;
* `scope.hpp:875` takes two definitions for equal that differ in the weight. A constructor that is not nil gets a new
  reference of the Lua registry in each call, so called from Lua only definitions without a constructor are ever equal,
  a repeated one with the same constructor is refused as a duplicate;
* types are duplicates if their parameter types are equal, whatever the constructors of the parameters; after `defineTypeAs`
  (`typedb.cpp:253`) a list of overloads can have two types with equal parameters;
* the tree of types has only the first type of a list of overloads. The trees of types and reductions put the
  scopes of all keys into one instance: with overlapping ones, `[1,5]`, `[3,5]` and `[2,6]` in this order, one disappears from the tree;
* a hole in a list of parameters leaves the type -1, which `defineType` does not check; `getArgumentAsTypeConstructorPairList`
  converts an element twice and leaks a registry reference. Neither is modelled.

Run of the compiler:

* a production marked with `(>>)` or `({})` without a function counts no step and opens no scope (`lua_run_compiler.cpp:452`, `doc/grammar.md:87`);
* a function called on top does not get the scope and step of its node, it runs in the outermost scope at step 0, and
  `get_instance` there finds objects of a block already left that starts at step 0. `ResolvedLexically` is about the functions below;
* with several passes over the arguments a node completed just before a block has the step at which the
  block starts and sees its objects in a later pass. Only a single pass is modelled;
* a second run on the same type database finds definitions of the first, as steps start with 0 again, and a second run of a compiler
  prints the output of the first again. `ResolvedLexically` and `FirstOutputComplete` are about the first run;
* a run that fails leaves `print` redirected, even when the compiler is gone, the debug file open for the next run,
  and the scope and step of the inner node (`clean` in `ContextRestored`).

Automaton:

* a grammar with nonterminals that derive no word at all is compiled without a warning; for `S = A; A = B A; B = ;`
  the parser pushes empty `B` forever. `Terminates` and the part of `ParsesLanguage` on beginnings
  of sentences are stated for the other grammars (`IsProductive`). The test for unreachable nonterminals of the grammar parser
  asks only whether they are used anywhere;
* priorities also solve conflicts that are no choice between two trees, without a warning (`automaton.cpp:920-957`), and the language loses sentences. For
  `S = A; A/L1 = "x" "y" "z"; A/L1 = B "y" "w"; B/L2 = "x";` the parser refuses `x y z` at `z` (`LostSentence`). `ParsesLanguage` is about errors of
  the grammars in which all solved conflicts only choose a tree (`ChoosesTree`): those of operators and of a dangling else;
* a conflict about an empty production that is solved for the reduction makes the parser reduce for ever: `S = T; T/L1 = B T "x"; T/L1 = "y"; B/L1 = ;` compiles without
  a warning, and on `y` it pushes `B` until memory ends (`HiddenReduction`). Even a conflict solved for the shift may leave the reduction for `$`, which FIRST
  sets have from nonterminals that may be empty. `Terminates` exempts grammars with such a conflict (`SolvesEmpty`);
* the limits of calls and nonterminals are not tested where they are packed, they cannot be reached below the limit of productions; the
  number of follow sets is tested only when two are joined, before the number of states is.

Grammar and lexer:

* an empty keyword, or one whose match has the length 0 because the text ends within it, is chosen and returned without an advance
  (`lexer.cpp:595`): `ScanEnds` lets the scan stay there, as at an element to ignore;
* the characters that activate an expression are found incompletely (`lexer.cpp:66-200`): `a*b` is not activated by `b`, `(c|d)` not by `d`, and `x?` matches
  less than it should. At such a character an error is returned although the expression matches, or a shorter match of another one, where `doc/grammar.md:61` has
  the longest match of all. `LexemChosen` is about the definitions that are tried (`TriedAt`), and says that keywords and
  plain patterns are always tried; the run has `a*b`, `(a|+)` and `(a)|(+)`, which are missed at some places (`Missed`);
* a `$` in a keyword is not escaped in its pattern (`lexer.cpp:19`), where it is the end of the text: the keyword `$` is never consumed;
* `stringToRegex` (`lexer.cpp:459-472`) reads to the zero byte and not to the end of the view it gets. In the generator a keyword is a part of the text of
  the grammar, and its pattern runs on to the end of it. No text is scanned by the generator, and the first character, which activates
  the pattern, is the right one but for the empty keyword;
* a comment to the end of the line without a line end is the end of the text without the tokens that close open blocks; a line that starts with
  a comment in brackets gets no token for the new line; a dedent to a level that is not open closes and opens a block;
* a loaded lexer has its keywords behind all other terminals: a grammar that defines a lexem after the first keyword gets
  other numbers than its tables use (`KeywordsLast` in `LoadedNumbersAgree`);
* a name in `%INDENTL` that is empty gets a number (`lexer.cpp:433-449`), but is written as an element to ignore (`lexer.cpp:641-644`), so that
  the numbers behind it are others when the table is loaded; no run has such a grammar;
* a priority is cut to 16 bits before its limit is tested, and the test for overflow of numbers is incomplete (`PrioritiesInRange`);
* a reference to a member of the type system that is a string is loaded as a string argument; string arguments are written without escapes;
* a compiler whose table has an empty list of calls does not call any function.

## 6. Abstractions

* Weights are integers: rounding and the epsilon of the comparisons are not modelled.
* Names, constructors and the contents of nodes are model values or numbers. References to the Lua registry are numbers.
* The reductions of a type come to the search in the order of their targets, in the code in that of the chains. Only which of two paths of the
  same weight is the result, and which the conflict, depends on it, and no property tells.
* Memory never runs out; the width of integers is modelled only where tables are packed (`PackedTable`): the limits of 2^31 elements are out of
  reach of the program.
* Empty scopes are not among the inputs of the tables. The parser makes none, as `ScopesNested` shows.
* The handle of a follow set is the set. In the code a handle is its number, given in the order of the joins; the only
  thing this order decides is the sequence in which the reductions of a state are inserted, which is arbitrary in
  `InsertReductions` except that `{$}`, the handle 0, is first.
* The LR(1) states are joined in the order of their numbers, in the code in that of a hash map. The follow sets joined on the way, and so whether there
  are too many of them, may depend on it, the states do not.
* A state of the automaton has the number in the order found. A pass over all productions uses the sets of the pass before and not
  those it is changing: the fixpoint is the same, and nothing reads the sets before.
* The arguments that are rejected before anything changes are one outcome (`Reject`, `rejected`).
* Regular expressions are `std::regex`, a library: `Patterns` matches sequences of classes and groups, and of all matches that begin at a place
  the longest counts (the library would prefer an earlier alternative to a longer one). Texts are ASCII, line numbers are left out.
* The tokens of a grammar are given: the lexer that reads grammars is an instance of the same `Lexer`.
* The trees of `InstanceTrees` are made after the definitions: a tree is a copy, later definitions do not change it. The identifiers
  of userdata and closures (`Free`, `New`) stand for the memory Lua gives them. What a node shows of itself (`mewa_objtree_instance`) is left out.
* The objects of `Compilation` are in the dictionary `ScopedDict`, as `ObjectInstances` implements it for scopes that nest: those of the parser do.

## 7. Not modelled

* `resolveType` on the tables of types and reductions together: the search is (`TypeSearch`), both tables are.
* The lists of types and reductions of a node of their trees as Lua iterators.
* Decorators in the comments of a grammar, its commands for file names, `typeToString`, debug output.
* The version and the options of a compiler table, the command line (`mewa.cpp` but the refusal of a grammar with conflicts).
* `IdentMap`, a hash map from names to numbers, and the memory resources.
* Serialization of Lua values, errors, strings, files: formatting, input and output.
* The example compilers, which use the program; `.Attic`, a former version that nothing builds.

## 8. Plan

What is left, in this order:

1. `resolveType` composed with `TypeTable` and `ReductionTable`, as `Derivation` is.
2. The iterators over the lists of a node, `IdentMap` with the names of `TypeTable`.
