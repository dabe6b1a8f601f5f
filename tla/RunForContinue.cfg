SPECIFICATION MCFairSpec
CONSTANTS
    Constructs = {"for", "continue"}
    FnKinds = {"fn"}
    MaxFns = 1
    MaxLabels = 4
    MaxDefers = 0
    MaxArms = 1
    MaxDepth = 2
    Trip = 2
PROPERTIES
    CallReturns
