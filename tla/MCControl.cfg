CONSTANTS
    Users = {"user"}
    Models = {"model"}
    Families <- MCFamilies
    PodIds <- MCAnyCaller
SPECIFICATION ControlSpec
INVARIANT CapabilityFirst
PROPERTY OnlyConfirmedChanges
\* Callers may stay idle for ever.
CHECK_DEADLOCK FALSE
