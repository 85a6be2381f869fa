CONSTANTS
    NSessions = 2
    TimeoutS = 2
    NHosts = 2
    MaxFailed = 2
    LockoutS = 2
    Addrs = {a1, a2, a3}
    NoAddr = NoAddr
    TicksPerSec = 1
    MaxLogins = 3
    MaxTime = 5
SPECIFICATION AuthSpec
SYMMETRY Symm
INVARIANTS
    AuthTypeOK
    AbandonedExpires
    NoInheritedLockout
PROPERTIES
    LruEviction
    LockoutHonoured
CHECK_DEADLOCK FALSE
