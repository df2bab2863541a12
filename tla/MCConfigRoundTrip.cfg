CONSTANTS
    Names <- MCNames
    Sessions = {"s"}
    Guided <- MCGuided
    FirstFiles <- MCFiles
    HandWritten <- MCNoEntries
    MaxCommands = 3
SPECIFICATION ConfigSpec
PROPERTY RoundTrips
\* No session has to do anything.
CHECK_DEADLOCK FALSE
