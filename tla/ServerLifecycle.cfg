SPECIFICATION FairSpec
CONSTANTS
    p1 = p1
    p2 = p2
    p3 = p3
    Pids <- ThreePids
    NoPid = NoPid
    MaxActive = 1
    MaxServers = 2
INVARIANTS
    TypeOK
    SettledServerKeepsFile
    DrainHonoured
PROPERTIES
    StopsEventually
