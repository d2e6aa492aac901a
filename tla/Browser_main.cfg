SPECIFICATION BrowserSpec
CONSTANTS
    c1 = c1
    c2 = c2
    Null = Null
    Contexts <- MCContexts
    MaxVersion = 2
    Interruptions = {"by_user_early"}
SYMMETRY Symmetry
VIEW Live
INVARIANT JumpEndsInLivingList
INVARIANT ListsFitContext
