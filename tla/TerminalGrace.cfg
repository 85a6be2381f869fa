CONSTANTS
    NSessions = 1
    TimeoutS = 1
    NHosts = 1
    MaxFailed = 1
    LockoutS = 1
    Addrs = {a1}
    NoAddr = NoAddr
    TicksPerSec = 2
    MaxLogins = 2
    MaxTime = 6
    Fds = {fd1, fd2}
    NClients = 2
    Ports = {0}
    Recheck = 2
    MaxConns = 2
SPECIFICATION Spec
INVARIANT RevocationImmediate
CHECK_DEADLOCK FALSE
