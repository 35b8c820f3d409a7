----------------------------- MODULE Compilation -----------------------------
(***************************************************************************)
(* A compiler object of lualib_mewa.cpp and its runs: the call of          *)
(* compiler:run opens the debug output and redirects print, the parser     *)
(* builds the AST (ParserRun), the functions of the nodes on top of it are *)
(* called and traverse the nodes below, with the scope and step of the     *)
(* type database set for each, and the text printed is put into the        *)
(* sections of the output.                                                 *)
(*                                                                         *)
(* The functions are those of the user: in any order they traverse the     *)
(* arguments of their node as utils.traverse of the examples does, set an  *)
(* object in the current scope, print, or raise an error.  One name of an  *)
(* object is looked at, as the dictionary ObjectInstances implements; an   *)
(* object set and a text printed are the number of the call.               *)
(***************************************************************************)
EXTENDS ParserRun

CONSTANTS
  DebugOutputs,   \* whether a run is called with a file for the debug output
  MaxStep,        \* the end of the outermost scope (INT_MAX)
  MaxCalls,       \* bound of what the functions of the nodes do
  MaxRuns         \* bound of the runs

ASSUME DebugAssumption == DebugOutputs \subseteq BOOLEAN

ASSUME BoundsAssumption == MaxStep \in Nat \ {0} /\ MaxCalls \in Nat /\ MaxRuns \in Nat

VARIABLES
  stage,          \* "none" without a compiler, "idle", "parse", "call"
  top,            \* the element of the Lua stack called next
  frames,         \* the functions of nodes that are running
  curScope, curStep,
  objects,        \* scope -> the object set in it
  printFn,        \* the function print of Lua: "console" or "redirected"
  savedPrint,     \* the one put back at the end of the run
  debugFile,      \* "none" or "open"
  outputBuffer,   \* what was printed
  outputSections, \* the sections of the output
  output,         \* what the last run has written
  calls,          \* number of calls of the functions of nodes
  runs,           \* number of runs
  clean,          \* auxiliary: no run failed so far
  printed         \* auxiliary: what the first run of this compiler printed

compilerVars == <<top, frames, curScope, curStep, objects, printFn, savedPrint, debugFile,
                  outputBuffer, outputSections, output, calls, runs, clean, printed>>

allVars == <<vars, stage, compilerVars>>

Global == [start |-> 0, end |-> MaxStep]

Sections == {"Code", "Auto"}

NoText == [s \in Sections |-> <<>>]

CompilerInit ==
  /\ Init
  /\ stage = "none" /\ top = 1 /\ frames = <<>>
  /\ curScope = Global /\ curStep = 0
  /\ objects = [s \in {} |-> 0]
  /\ printFn = "console" /\ savedPrint = "console" /\ debugFile = "none"
  /\ outputBuffer = <<>> /\ outputSections = NoText /\ output = NoText
  /\ calls = 0 /\ runs = 0 /\ clean = TRUE /\ printed = [no |-> 0, text |-> NoText]

-----------------------------------------------------------------------------
mewa_new_compiler ==
  /\ stage = "none"
  /\ stage' = "idle"
  /\ debugFile' = "none" /\ outputBuffer' = <<>> /\ outputSections' = NoText
  /\ printed' = [no |-> 0, text |-> NoText]
  /\ UNCHANGED <<vars, top, frames, curScope, curStep, objects, printFn, savedPrint, output,
                 calls, runs, clean>>

mewa_destroy_compiler ==
  /\ stage = "idle" /\ runs < MaxRuns
  /\ stage' = "none"
  /\ debugFile' = "none"
  /\ UNCHANGED <<vars, top, frames, curScope, curStep, objects, printFn, savedPrint,
                 outputBuffer, outputSections, output, calls, runs, clean, printed>>

(* CompilerContext: Fresh of ParserRun in the next state.                  *)
NewContext ==
  /\ stateStack' = <<NewState(0, 0, 0)>> /\ luaStack' = <<>> /\ scopestep' = 0
  /\ phase' = "run" /\ tokens' = 0 /\ scopes' = {}
  /\ UNCHANGED feeds

(* compiler:run up to the first token.                                     *)
StartRun(debug) ==
  /\ stage = "idle" /\ runs < MaxRuns
  /\ stage' = "parse"
  /\ NewContext
  /\ runs' = runs + 1 /\ top' = 1
  /\ debugFile' = IF debug THEN "open" ELSE debugFile
  /\ savedPrint' = printFn
  /\ printFn' = "redirected"
  /\ printed' = [printed EXCEPT !.no = @ + 1]
  /\ UNCHANGED <<frames, curScope, curStep, objects, outputBuffer, outputSections, output,
                 calls, clean>>

(* An exception leaves everything as it is, only the Lua stack is unwound. *)
Fail ==
  /\ stage' = "idle"
  /\ frames' = <<>>
  /\ clean' = FALSE
  /\ UNCHANGED <<vars, top, curScope, curStep, objects, printFn, savedPrint, debugFile,
                 outputBuffer, outputSections, output, calls, runs, printed>>

Parse ==
  /\ stage = "parse"
  /\ Feed
  /\ UNCHANGED <<stage, compilerVars>>

ParsingFailed == stage = "parse" /\ phase = "error" /\ Fail

Parsed ==
  /\ stage = "parse" /\ phase = "accepted"
  /\ stage' = "call"
  /\ UNCHANGED <<vars, compilerVars>>

-----------------------------------------------------------------------------
(* typedb:scope and typedb:step with arguments.                            *)
SetScope(scope, step) == curScope' = scope /\ curStep' = step

(* Mutant: the default is the end of the scope, that is behind it.         *)
StepBehindScope(scope) == scope.end

DefaultStep(scope) == scope.end - 1

SetStep(step) == curStep' = step /\ UNCHANGED curScope

(* The nodes that are not made of a production with a function.            *)
IsLexem(node) == node.args = <<>> /\ node.tokens # <<>>

Frame(node, inScope) ==
  [node |-> node, next |-> 1, inScope |-> inScope, object |-> 0,
   scope_bk |-> curScope, step_bk |-> curStep]

Running == stage = "call" /\ frames # <<>>

Bump == [frames EXCEPT ![Len(frames)].next = @ + 1]

(* luaCallNodeFunction: the scope of the node is not set here.             *)
CallTopNode ==
  /\ stage = "call" /\ frames = <<>> /\ top <= Len(luaStack)
  /\ ~IsLexem(luaStack[top])
  /\ top' = top + 1
  /\ frames' = <<Frame(luaStack[top], FALSE)>>
  /\ UNCHANGED <<vars, stage, curScope, curStep, objects, printFn, savedPrint, debugFile,
                 outputBuffer, outputSections, output, calls, runs, clean, printed>>

(* NoLuaFunctionDefinedForItem                                             *)
TopNodeWithoutFunction ==
  /\ stage = "call" /\ frames = <<>> /\ top <= Len(luaStack)
  /\ IsLexem(luaStack[top])
  /\ Fail

(* utils.traverse, processSubnode: on to the next argument.                *)
CallSubnode ==
  /\ Running
  /\ LET f     == Last(frames)
         child == f.node.args[f.next]
     IN  /\ f.next <= Len(f.node.args)
         /\ IF IsLexem(child)
            THEN frames' = Bump /\ UNCHANGED <<curScope, curStep>>
            ELSE /\ frames' = Append(Bump, Frame(child, child.isScope))
                 /\ IF child.isScope THEN SetScope(child.scope, DefaultStep(child.scope))
                    ELSE SetStep(child.scope.start)
  /\ UNCHANGED <<vars, stage, top, objects, printFn, savedPrint, debugFile, outputBuffer,
                 outputSections, output, calls, runs, clean, printed>>

(* Mutant: the step is left to the default.                                *)
PutBackScope(f) ==
  IF Len(frames) = 1 THEN UNCHANGED <<curScope, curStep>>
  ELSE IF f.inScope THEN SetScope(f.scope_bk, DefaultStep(f.scope_bk))
  ELSE SetStep(f.step_bk)

PutBack(f) ==
  IF Len(frames) = 1 THEN UNCHANGED <<curScope, curStep>>
  ELSE IF f.inScope THEN SetScope(f.scope_bk, f.step_bk)
  ELSE SetStep(f.step_bk)

(* A function returns, with or without having seen all arguments.          *)
Return ==
  /\ Running
  /\ PutBack(Last(frames))
  /\ frames' = Front(frames)
  /\ UNCHANGED <<vars, stage, top, objects, printFn, savedPrint, debugFile, outputBuffer,
                 outputSections, output, calls, runs, clean, printed>>

(* The frame whose node opened the current scope, 0 for the outermost.     *)
ScopeFrame ==
  LET opened == {i \in DOMAIN frames : frames[i].inScope}
  IN  IF opened = {} THEN 0 ELSE Max(opened)

-----------------------------------------------------------------------------
Call == Running /\ calls < MaxCalls /\ calls' = calls + 1

(* typedb:set_instance of the object looked at.                            *)
set_instance ==
  /\ Call
  /\ objects' = [s \in DOMAIN objects \cup {curScope} |->
                   IF s = curScope THEN calls' ELSE objects[s]]
  /\ frames' = [i \in DOMAIN frames |-> IF i = ScopeFrame THEN [frames[i] EXCEPT !.object = calls']
                                        ELSE frames[i]]
  /\ UNCHANGED <<vars, stage, top, curScope, curStep, printFn, savedPrint, debugFile,
                 outputBuffer, outputSections, output, runs, clean, printed>>

Note(section) ==
  printed' = IF printed.no = 1 THEN [printed EXCEPT !.text[section] = Append(@, calls')]
             ELSE printed

(* print: lua_print_redirected                                             *)
print ==
  /\ Call
  /\ outputBuffer' = Append(outputBuffer, calls')
  /\ Note("Code")
  /\ UNCHANGED <<vars, stage, top, frames, curScope, curStep, objects, printFn, savedPrint,
                 debugFile, outputSections, output, runs, clean>>

(* print_section: lua_print_section_redirected                             *)
print_section(section) ==
  /\ Call
  /\ outputSections' = [outputSections EXCEPT ![section] = Append(@, calls')]
  /\ Note(section)
  /\ UNCHANGED <<vars, stage, top, frames, curScope, curStep, objects, printFn, savedPrint,
                 debugFile, outputBuffer, output, runs, clean>>

Raise == Running /\ calls < MaxCalls /\ Fail

-----------------------------------------------------------------------------
CallsDone == stage = "call" /\ frames = <<>> /\ top > Len(luaStack)

(* Mutant: the code replaces the section instead of being appended.        *)
MappedReplacing == [outputSections EXCEPT !["Code"] = outputBuffer]

(* The section "Code" with what was printed.                               *)
Mapped == [outputSections EXCEPT !["Code"] = @ \o outputBuffer]

FinishRun ==
  /\ CallsDone
  /\ stage' = "idle"
  /\ outputSections' = Mapped
  /\ output' = Mapped
  /\ printFn' = savedPrint
  /\ debugFile' = "none"
  /\ UNCHANGED <<vars, top, frames, curScope, curStep, objects, savedPrint, outputBuffer,
                 calls, runs, clean, printed>>

(* The file cannot be written.                                             *)
WriteFailed ==
  /\ CallsDone
  /\ stage' = "idle"
  /\ outputSections' = Mapped
  /\ clean' = FALSE
  /\ UNCHANGED <<vars, top, frames, curScope, curStep, objects, printFn, savedPrint, debugFile,
                 outputBuffer, output, calls, runs, printed>>

CompilerNext ==
  \/ mewa_new_compiler \/ mewa_destroy_compiler
  \/ \E debug \in DebugOutputs : StartRun(debug)
  \/ Parse \/ ParsingFailed \/ Parsed
  \/ CallTopNode \/ TopNodeWithoutFunction \/ CallSubnode \/ Return
  \/ set_instance \/ print \/ (\E section \in Sections : print_section(section)) \/ Raise
  \/ FinishRun \/ WriteFailed

CompilerSpec == CompilerInit /\ [][CompilerNext]_allVars
-----------------------------------------------------------------------------
ObjectName == "object"

Dict == INSTANCE ScopedDict
          WITH Keys <- {ObjectName}, Values <- Nat, Scopes <- Scope, NullVal <- 0,
               defs <- [n \in {ObjectName} |-> objects], reply <- stage

(* The queries of typedb with the current step and the current scope.      *)
get_instance == Dict!Lookup(ObjectName, curStep)

this_instance == Dict!LookupDef(ObjectName, curScope)

(* The object set last by a function of a node that encloses the one       *)
(* running, the innermost first, or the one set outside of all scopes.     *)
SetAround ==
  LET setting == {i \in DOMAIN frames : frames[i].inScope /\ frames[i].object # 0}
  IN  IF setting = {} THEN Dict!LookupDef(ObjectName, Global)
      ELSE frames[Max(setting)].object

(* Scopes are pairs of numbers counted in the order the nodes were         *)
(* completed; what is found with them is what the structure of the AST     *)
(* says: while a function below the top runs, the current scope is that of *)
(* the innermost node around it that has one, this_instance returns what   *)
(* was set in this node, and get_instance the object set in the innermost  *)
(* node around it that has set one, and never one of a node that was left. *)
ResolvedLexically ==
  runs = 1 /\ stage = "call" /\ Len(frames) > 1 =>
    /\ curScope = IF ScopeFrame = 0 THEN Global ELSE frames[ScopeFrame].node.scope
    /\ ScopeFrame # 0 => this_instance = frames[ScopeFrame].object
    /\ get_instance = SetAround

(* As long as no run failed, every run and every function called on top    *)
(* leaves the scope, the step, print and the debug output as they were.    *)
ContextRestored ==
  clean /\ frames = <<>> =>
    /\ curScope = Global /\ curStep = 0
    /\ stage \in {"none", "idle"} => printFn = "console" /\ debugFile = "none"

(* The output of the first run of a compiler has every text its functions  *)
(* printed once, in the section it was printed to.                         *)
FirstOutputComplete ==
  clean /\ stage = "idle" /\ printed.no = 1 =>
    \A s \in Sections :
      /\ ToSet(output[s]) = ToSet(printed.text[s])
      /\ Len(output[s]) = Len(printed.text[s])
=============================================================================
