SPECIFICATION MCSpec
CONSTANTS
    Constructs = {"if", "while", "loop", "for", "break", "continue", "return", "match", "or_return", "or_panic", "or_zero", "or_else"}
    FnKinds = {"fn"}
    MaxFns = 1
    MaxLabels = 9
    MaxDefers = 0
    MaxArms = 3
    MaxDepth = 3
INVARIANTS
    UniqueLabels
    TargetsResolved
    Closed
    OneTerminatorPerLabel
    ReachableIffLive
