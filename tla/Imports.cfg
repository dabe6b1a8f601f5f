SPECIFICATION MCFairSpec
CONSTANTS
    Main = Main
    A = A
    B = B
    Def = Def
    Files <- MCFiles
    Root = Main
    Shapes <- MCShapes
INVARIANTS
    ImportsTypeOK
    Opened
    MergesAll
    ImportsComeFirst
    SafeRootStaysSafe
PROPERTIES
    Resolves
