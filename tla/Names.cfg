SPECIFICATION MCSpec
CONSTANTS
    Names = {"x", "g"}
    Fns = {"f", "g"}
    Enums = {"E"}
    MaxFns = 1
    MaxBindings = 2
    MaxDepth = 2
INVARIANTS
    VariablesRight
    
