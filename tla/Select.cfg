SPECIFICATION MCSpec
CONSTANTS
    LowSpan = 4
    MidSpan = 8
    HighSpan = 4
    TopSpan = 2
    Width = 8
    Junk = {127}
INVARIANTS
    LiteralsLoaded
    TargetsAgree
