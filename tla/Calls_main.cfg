SPECIFICATION MCSpec
CONSTANTS
    r1 = r1
    c1 = c1
    c2 = c2
    b1 = b1
    User = User
    None = None
    MaxTriggers = 1
    MaxCalls = 2
    Calls = {r1, c1, b1}
    Root = {r1}
    Child = {c1}
    Blocking = {b1}
    Replies = {"cookie", "data", "refused", "exception"}
    Fetches = {"data", "refused", "exception"}
    Signals = {"available", "error"}
    Aborts = {"aborted", "failed"}
    Entrances = {"succeeded", "failed"}
    Kinds = {"cookie", "async"}
    AsyncCallNames = {a1, a2, a3}
    NoCall = NoCall
    MaxBusyCount = 2
INVARIANTS CallsAreNotified BusyForCalls CallsAreKept BusyWhileWaiting
PROPERTIES NeverDestroyedActive LastWins
