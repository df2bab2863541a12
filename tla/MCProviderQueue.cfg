CONSTANTS
    Names <- MCNames
    Model = "a"
    MaxAttempts = 2
    FallbackProfiles <- MCFallbacks
    Removable = {"b"}
    Modes <- MCModes
    Parts = 1
    TTL = 1
    Interval = 1
    Faults <- MCFaults
SPECIFICATION PSpec
INVARIANT AnswerIsTheJobs
PROPERTIES ImplementsDispatch NothingSentAfterAbort
\* The turn ends and nothing else has to happen.
CHECK_DEADLOCK FALSE
