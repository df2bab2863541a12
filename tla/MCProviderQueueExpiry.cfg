CONSTANTS
    Names <- MCNames
    Model = "a"
    MaxAttempts = 2
    FallbackProfiles <- MCFallbacks
    Removable = {}
    Modes <- MCModes
    Parts = 1
    TTL = 1
    Interval = 1
    Faults <- MCFaults
SPECIFICATION PSpec
INVARIANT ExpiryIsNoAnswer
\* The turn ends and nothing else has to happen.
CHECK_DEADLOCK FALSE
