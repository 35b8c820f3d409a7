CONSTANTS
  Keys = {k1, k2}
  Values = {v1, v2}
  NullVal = null
  Scopes <- AlmostNested
  Steps <- StepsTo4
  MaxElements = 3
SPECIFICATION Spec
SYMMETRY Renaming
INVARIANTS UplinksSound AnswersAsDict
PROPERTY ImplementsDict
