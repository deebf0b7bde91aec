SPECIFICATION FairSpec
CONSTANTS
    Chains <- UpToThree
INVARIANTS
    TypeOK
    OneMessage
    ClientTold
    QuotaTold
PROPERTIES
    EventuallyReleased
CHECK_DEADLOCK FALSE
