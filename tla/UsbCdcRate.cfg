CONSTANTS
    Capacity = 2
    Rates = {96, 1152}
    MaxPlugs = 1
SPECIFICATION Spec
INVARIANT RateTakesEffect
CHECK_DEADLOCK FALSE
