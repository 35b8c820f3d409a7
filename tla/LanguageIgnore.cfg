SPECIFICATION Spec
CONSTANTS
    Chars <- MCChars
    Spelling <- MCSpelling
    RegexOf <- MCRegexOf
    MatchEnds <- RegexEnds
    Activation <- ActivatedBy
    MaxPriority = 32
    MaxNonterminal = 4
    MaxNofProductions = 6
    MaxTerminal = 8
    MaxProductionLength = 6
    Sources <- ViolationSources
    Texts <- ViolationTexts
    LoadOrders <- MCLoadOrders
    TypeSystem <- MCTypeSystem
    ConstantValues <- MCConstantValues
    MaxSpans = 16
PROPERTY TextIsRead
CHECK_DEADLOCK FALSE
