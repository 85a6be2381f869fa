CONSTANTS
    MaxRetries = 1
    ApConfigs = {1, 2}
    MaxEvents = 2
    MaxRequests = 4
SPECIFICATION FairSpec
INVARIANTS
    TypeOK
    NeverForgotten
    ApIsCurrent
    LeftMeansAp
PROPERTIES
    FallbackComes
    StatusCatchesUp
CHECK_DEADLOCK FALSE
