CONSTANTS
    Capacity = 2
    Rates = {96, 1152}
    MaxPlugs = 3
SPECIFICATION FairSpec
INVARIANTS
    TypeOK
    WriteHasHandle
    NoHandleLeak
    GoneIsReported
    AvailableIsOpen
    RateUnlessRaced
PROPERTIES
    NeverClosesLive
    GoneIsClosed
    PluggedIsServed
CHECK_DEADLOCK FALSE
