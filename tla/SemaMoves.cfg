SPECIFICATION MCSpec
CONSTANTS
    Names = {"x", "E"}
    Payloads = {"x"}
    Enums = {"E"}
    Sigs <- MCSigs
    Params <- MCParams
    Exprs <- MoveExprs
    Blocks = {"fn", "loop", "then", "else"}
    MaxStmts = 3
    MaxFns = 1
    MaxDepth = 2
INVARIANTS
    SemaTypeOK
    ScopesBalanced
    AcceptedNeverUsesMoved
