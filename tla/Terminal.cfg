CONSTANTS
    NSessions = 1
    TimeoutS = 1
    NHosts = 1
    MaxFailed = 1
    LockoutS = 1
    Addrs = {a1}
    NoAddr = NoAddr
    TicksPerSec = 2
    MaxLogins = 2
    MaxTime = 6
    Fds = {fd1, fd2, fd3}
    NClients = 3
    Ports = {0}
    Recheck = 2
    MaxConns = 3
SPECIFICATION Spec
SYMMETRY Symm
INVARIANTS
    TypeOK
    ClientOwnsSocket
    RevokedWithinRecheck
    KeystrokesNeedSession
    PasswordCutsAll
CHECK_DEADLOCK FALSE
