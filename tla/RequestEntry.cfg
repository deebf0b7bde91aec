SPECIFICATION FairSpec
CONSTANTS
    Requests = {r1, r2, r3}
    Bodies = {plain, streamed, bad}
    Streams = {streamed}
    Invalid = {bad}
    Rate = 2
    Window = 2
    MaxTimers = 2
    NoRequest = NoRequest
    NoBody = NoBody
INVARIANTS
    TypeOK
    RateHeld
    EntryExpires
    OneUpstreamCall
    WaiterHasLeader
PROPERTIES
    EveryRequestAnswered
