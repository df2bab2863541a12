CONSTANTS
    Users = {"user"}
    Models = {"model"}
    Families <- MCFamilies
    PodIds <- MCExtension
SPECIFICATION ControlSpec
INVARIANT PodCommandsServed
\* Callers may stay idle for ever.
CHECK_DEADLOCK FALSE
