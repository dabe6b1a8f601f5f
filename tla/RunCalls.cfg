SPECIFICATION MCFairSpec
CONSTANTS
    Constructs = {"if", "for", "break", "match", "or_panic", "or_zero", "or_else", "defer"}
    FnKinds = {"fn"}
    MaxFns = 1
    MaxLabels = 7
    MaxDefers = 2
    MaxArms = 2
    MaxDepth = 3
    Trip = 2
PROPERTIES
    KeepsDeferPromise
    CallReturns
