SPECIFICATION FairSpec
CONSTANTS
    Upstreams <- TextAndTools
    MaxChunks = 6
INVARIANTS
    TypeOK
    NothingElseDropped
    ClosedAtEnd
PROPERTIES
    ImplementsMessageStream
    EventuallyStopped
CHECK_DEADLOCK FALSE
