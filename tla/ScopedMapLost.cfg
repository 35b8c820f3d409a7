CONSTANTS
  Keys = {k1}
  Values = {v1}
  NullVal = null
  Scopes <- OverlappingScopes
  Steps <- StepsTo7
  MaxElements = 5
SPECIFICATION Spec
INVARIANT CoveringDefinitionFound
