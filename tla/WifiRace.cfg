CONSTANTS
    MaxRetries = 1
    ApConfigs = {1}
    MaxEvents = 2
    MaxRequests = 1
SPECIFICATION Spec
INVARIANT DisconnectMeansAp
CHECK_DEADLOCK FALSE
