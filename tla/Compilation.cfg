CONSTANTS
  Productions <- Called
  MaxFeeds = 6
  DebugOutputs = {TRUE}
  MaxStep = 1000
  MaxCalls = 2
  MaxRuns = 2
SPECIFICATION CompilerSpec
INVARIANTS StackAgrees TokensInOrder ScopesNested ScopeCoversSubtree
INVARIANTS ResolvedLexically ContextRestored FirstOutputComplete
CHECK_DEADLOCK FALSE
