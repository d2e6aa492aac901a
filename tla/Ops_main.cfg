SPECIFICATION Spec
CONSTANTS
    Finds = {f1, f2, f3}
    Fetches = {u1}
    Places = {p1, p2, p3}
    None = None
    ReturnsToPlaces = FALSE
SYMMETRY Symmetry
VIEW OpsView
CHECK_DEADLOCK FALSE
INVARIANT OperationsAccounted
INVARIANT NobodyWaitsInVain
