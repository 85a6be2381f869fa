CONSTANTS
    Producers = {uart, usb}
    Slots = 2
    Modulus = 4
    Payloads = 2
    MaxChunks = 2
SPECIFICATION FairSpec
INVARIANTS
    TypeOK
    OneWakeup
    NoLostWakeup
PROPERTIES
    RefinesFifo
    EnqueuedIsSent
CHECK_DEADLOCK FALSE
