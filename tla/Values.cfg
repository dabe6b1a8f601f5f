SPECIFICATION MCSpec
CONSTANTS
    Constructs = {"if", "while", "loop", "for", "break", "continue", "return", "match", "empty_match", "or_return", "or_panic", "or_zero", "or_else", "defer"}
    FnKinds = {"fn", "__main"}
    MaxFns = 2
    MaxLabels = 6
    MaxDefers = 1
    MaxArms = 2
    MaxDepth = 3
    MaxNames = 6
    MaxHeld = 1
    PartialMatches = FALSE
INVARIANTS
    ValueTypeInv
    OperandsDefined
    WrittenOnce
