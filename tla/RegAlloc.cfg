SPECIFICATION MCSpec
CONSTANTS
    NumTemps = 4
    NumArgs = 1
    Temps <- MCTemps
    Vars = {"x"}
    Params <- MCParams
    Ops = {"const", "binary", "call", "literal"}
    Regions = {"if", "loop"}
    StoresInRegions = FALSE
    UsesAcrossCalls = FALSE
    MaxCode = 5
    MaxTurns = 1
INVARIANTS
    RegAllocTypeOK
    NoSharing
    OperandsRight
