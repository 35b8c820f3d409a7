CONSTANTS
  Grammars <- AllGrammars
  MaxTokens <- TokensOf
  MaxWord <- WordsOf
  MaxStack = 14
  ShiftState = 5
  ShiftTerminal = 4
  ShiftCall = 4
  ShiftProductionLength = 3
  ShiftNofProductions = 3
  ShiftPriority = 3
SPECIFICATION Spec
CHECK_DEADLOCK FALSE
INVARIANTS LookaheadsCover TablesRead ParsesLanguage PriorityRespected
PROPERTY Terminates
