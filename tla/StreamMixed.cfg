SPECIFICATION Spec
CONSTANTS
    Upstreams <- Mixed
    MaxChunks = 4
INVARIANTS
    ClosedAtEnd
CHECK_DEADLOCK FALSE
