SPECIFICATION MCSpec
CONSTANTS
    Constructs = {"if", "loop", "while", "for", "break", "continue", "return", "or_else", "defer", "nested_defer", "jump_in_defer", "empty_match"}
    FnKinds = {"fn", "__main"}
    MaxFns = 2
    MaxLabels = 6
    MaxDefers = 2
    MaxArms = 1
    MaxDepth = 4
INVARIANTS
    TypeInv
    UniqueLabels
    LoopStackMatches
