CONSTANTS
  NofTypes = 3
  Calls <- CallsAtLimits
  Scopes <- TwoScopes
  Steps <- StepsAtEnds
  TagMasks <- SomeTagMasks
  MaxRelations = 3
  MaxStep = 5
  Queries <- OneToThreeQueries
  TagsCount = {1}
  MaxStack = 20
SPECIFICATION DSpec
INVARIANTS ChainsOfOwners AnswersAsRelations DerivesMinimal ReductionTreeShows
PROPERTY ImplementsRelations
CHECK_DEADLOCK FALSE
