SPECIFICATION Spec
CONSTANTS
    s1 = s1
    s2 = s2
    None = None
    Streams <- MCStreams
    MaxPosition = 1
    MaxEvents = 3
    RenewsMetaData = FALSE
    Tasks = {"scroll", "search", "listen"}
    max_lines = 3
    MaxItems = 7
    MaxCount = 4
    Characters = {1, 2, 3}
    MaxLength = 2
    MaxListItems = 4
INVARIANT CursorIsShown
INVARIANT FindsFirstMatch
INVARIANT KnownAndShown
PROPERTY NoItemSkipped
PROPERTY SearchEnds
