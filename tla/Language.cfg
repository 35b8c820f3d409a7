SPECIFICATION Spec
CONSTANTS
    Chars <- MCChars
    Spelling <- MCSpelling
    RegexOf <- MCRegexOf
    MatchEnds <- RegexEnds
    Activation <- ActivatedBy
    MaxPriority = 32
    MaxNonterminal = 4
    MaxNofProductions = 6
    MaxTerminal = 8
    MaxProductionLength = 6
    Sources <- MCSources
    Texts <- MCTexts
    LoadOrders <- MCLoadOrders
    TypeSystem <- MCTypeSystem
    ConstantValues <- MCConstantValues
    MaxSpans = 16
INVARIANTS AcceptedAsWritten LoadedNumbersAgree LexemChosen NothingLost IndentationBlocks
PROPERTY ScanEnds
CHECK_DEADLOCK FALSE
