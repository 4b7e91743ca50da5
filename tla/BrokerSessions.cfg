SPECIFICATION Spec
CONSTANTS
    NULL = NULL
    max_inflight = 1
    max_queued = 1
    allow_duplicate_messages = FALSE
    queue_qos0_messages = TRUE
    Chars <- MCChars
    Slots <- MCSlots
    Conns <- MCConns
    Scenarios <- MCScenarios
    MaxRestarts = 1
INVARIANTS
    RefCounts
    PointersHold
    InFlightLimit
    WillMeansLost
PROPERTIES
    RestartKeepsSessions
