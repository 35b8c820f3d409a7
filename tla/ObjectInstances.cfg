CONSTANTS
  Names = {n1, n2}
  Handles = {h1, h2}
  NullVal = null
  Scopes <- AlmostNested
  Steps <- StepsTo6
  MaxStep = 6
  MaxElements = 4
  MaxUserdata = 2
  MaxShown = 3
SPECIFICATION TreesSpec
SYMMETRY Renaming
CHECK_DEADLOCK FALSE
INVARIANTS ListsOrdered AnswersAsDict TreeShowsInstances TreesCounted IteratorOnChildren
PROPERTY ImplementsDict
