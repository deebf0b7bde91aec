SPECIFICATION LoadedSpec
CONSTANTS
    m1 = m1
    Requests = {r1, r2, r3}
    Models = {m1}
    Chains <- TwiceChain
    FailureThreshold = 2
    HalfOpenMaxCalls = 2
    FailureCap = 2
INVARIANTS
    TypeOK
    BreakerConsistent
    NoStuckHalfOpen
PROPERTIES
    TerminalErrorHonest
    MovesOnEvidence
    BreakerRecovers
