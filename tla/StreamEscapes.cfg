SPECIFICATION Spec
CONSTANTS
    Upstreams <- Escaped
    MaxChunks = 4
INVARIANTS
    TextIntact
CHECK_DEADLOCK FALSE
