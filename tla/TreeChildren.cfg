CONSTANTS
  Names = {n1}
  Handles = {h1}
  NullVal = null
  Scopes <- AlmostNested
  Steps <- StepsTo6
  MaxStep = 6
  MaxElements = 3
  MaxUserdata = 2
  MaxShown = 3
SPECIFICATION TreesSpec
CHECK_DEADLOCK FALSE
INVARIANT ChildReturnedOnce
