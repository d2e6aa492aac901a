CONSTANTS
    A = A
    B = B
    C = C
    D = D
    E = E
    F = F
    G = G
    Lists = {A, B, C, D, E, F, G}
    Root = A
    Entries <- MCEntries
    File = File
    NoList = NoList
    Modes = {"FLAT", "DEPTH_FIRST"}
    MAX_DIRECTORY_DEPTH = 3
    None = None
    ListLeft = FALSE
SPECIFICATION Spec
INVARIANT FindsNeighbour
PROPERTY SearchEnds
