SPECIFICATION Spec
CONSTANTS
    b1 = b1
    b2 = b2
    e1 = e1
    e2 = e2
    None = None
    Browsers <- MCBrowsers
    Errors <- MCErrors
    Texts = {"a"}
    LocksCross = FALSE
    MaxQueue = 2
    Answers = {"OK", "FAILED"}
SYMMETRY Sym
INVARIANT SearchRequestIsOwned
INVARIANT AllIsShown
