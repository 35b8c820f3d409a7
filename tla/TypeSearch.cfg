CONSTANTS
  Types <- FourTypes
  MaxStack = 40
SPECIFICATION Spec
INVARIANTS ResultMinimal ConflictIsTie PathsTakenOnce
PROPERTY Terminates
CHECK_DEADLOCK FALSE
