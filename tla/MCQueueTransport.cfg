CONSTANTS
    Modes <- MCModes
    Parts = 2
    TTL = 2
    Interval = 1
    Faults <- MCFaults
SPECIFICATION QueueSpec
INVARIANTS VerdictIsTrue OneJobPerCall
PROPERTIES QuietAfterAbort CallEnds
\* The call returns and nothing else has to happen.
CHECK_DEADLOCK FALSE
