SPECIFICATION FairSpec
CONSTANTS
    MinToggle = 2
    MaxNow = 3
    Boards = {"works", "slow", "fails"}
    Chunks = 2
    Timeouts = 2
    MaxFaults = 2
INVARIANTS
    TypeOK
    Bootable
    ServedPairMatches
PROPERTIES
    RelayInterval
    ServesAgain
\* A board with a torn TLS pair that nobody restarts stops.
CHECK_DEADLOCK FALSE
