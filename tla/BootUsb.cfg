SPECIFICATION FairSpec
CONSTANTS
    MinToggle = 2
    MaxNow = 1
    Boards = {"fails"}
    Chunks = 1
    Timeouts = 1
    MaxFaults = 0
PROPERTY
    UsbIsOptional
