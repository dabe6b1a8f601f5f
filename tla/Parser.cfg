SPECIFICATION MCFairSpec
CONSTANTS
    Tokens = {"Ident", "Ok", "Underscore", "Phase", "Pipe", "Plus", "Star", "Minus", "LParen", "RParen", "LBrace", "RBrace", "LBracket", "RBracket", "Comma", "Colon", "Semi", "Dot", "Arrow", "FatArrow", "Assign", "PlusAssign", "At", "Base", "Import", "Fn", "Type", "Enum", "Let", "Return", "Defer", "For", "In", "While", "Loop", "Break", "If", "Else", "Match", "Mut", "Void", "OrReturn", "OrElse", "Int", "Str", "Prim"}
    LineStarts = {"Minus", "LBrace", "LParen", "Ident"}
    MaxOpen = 3
INVARIANTS
    ParserTypeOK
    DepthIsNesting
    LoopsAreFlat
    SuppressedOnlyInHeaders
    ZonesInOrder
PROPERTIES
    KeepsReading
