SPECIFICATION Spec
CONSTANTS
    None = None
    Last = 2
    Positions = {1, 2}
    StreamIds = {"s1", "s2", "s3", "s4"}
    OpIds = {"o1", "o2", "o3", "o4"}
    Commands = {"play", "start", "stop", "pause", "next", "previous", "wind"}
    Faults = {"stream", "early", "find", "uris", "lost", "taken", "shutdown", "select", "deselect"}
    can_skip_on_error = TRUE
    can_prefetch_for_gapless = TRUE
    can_fast_wind_backward = FALSE
    maximum_number_of_prefetched_streams = 1
    MaxCommands = 2
    MaxFaults = 1
    MaxSignals = 2
CHECK_DEADLOCK FALSE
INVARIANT QueueConsistent
INVARIANT OperationsAccounted
INVARIANT StreamsAccounted
PROPERTY QueueOrder
PROPERTY PlayedFromQueue
