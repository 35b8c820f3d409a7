CONSTANTS
  Names = {a}
  ContextArgs <- SomeContexts
  AliasArgs = {0, 2}
  Overloads <- SomeOverloads
  Scopes <- NestedAndOverlapping
  MaxNofParameter = 3
  MaxTypes = 3
  MaxElements = 3
  MaxStep = 7
SPECIFICATION Spec
INVARIANTS ListsExact TypeTreeShows
PROPERTIES HandlesStable DefinedIsFound
