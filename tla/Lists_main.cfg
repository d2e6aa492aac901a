SPECIFICATION Spec
CONSTANTS
    A = A
    C = C
    main_view = main_view
    Lists = {A, C}
    Size <- SizeDef
    NoList = NoList
    Replacements <- ReplacementsDef
    NoItem = NoItem
    UINT_MAX = 4
    Viewports = {main_view}
    ViewSize <- ViewSizeDef
    Fetches = {f1, f2}
    Queries = {q1, q2}
    None = None
    Unknown = Unknown
    Dead = Dead
    EnteredListsChange = FALSE
SYMMETRY Symmetry
VIEW LiveState
CHECK_DEADLOCK FALSE
INVARIANT CacheIsRight
INVARIANT AnswerForCurrentQuery
INVARIANT UpdatesFit
