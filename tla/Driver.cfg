SPECIFICATION MCSpec
CONSTANTS
    MaxLen = 4
    Sources <- MCSources
    Keywords <- MCKeywords
    MacroWord <- MCMacroWord
    MaxInt = 9
    Invocations <- MCInvocations
INVARIANTS
    LongestMatch
    NothingLost
    SuccessDelivers
    TouchesOnlyProducts
    WritesOnlyAccepted
