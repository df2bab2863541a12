CONSTANTS
    Names <- MCNames
    Model = "a"
    MaxAttempts = 2
    FallbackProfiles <- MCFallbacks
    Removable = {"b"}
SPECIFICATION KSpec
INVARIANTS ScopeEndsWithCall WorkerGetsToken KeyOfItsOwn
PROPERTIES AbortsNeverRetry DirectEnds TurnEnds TimeoutEndsTurn NoWorkerAfterAbort
\* The turn ends and nothing else has to happen.
CHECK_DEADLOCK FALSE
