CONSTANTS
    Names <- MCNames
    Model = "a"
    MaxAttempts = 3
    FallbackProfiles <- MCFallbacks
    Removable = {"a", "b", "c"}
SPECIFICATION FairSpec
INVARIANTS TypeOK OneTerminal CallBudget RetryOnlyAfterTransient FallbackOrder ExhaustsFallbacks
PROPERTIES NoRetryAfterAbort ImplementsTurn
\* run() returns: the turn has ended.
CHECK_DEADLOCK FALSE
