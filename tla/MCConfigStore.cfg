CONSTANTS
    Names <- MCNames
    Sessions = {s, t}
    Guided <- MCGuided
    FirstFiles <- MCFiles
    HandWritten <- MCHandWritten
    MaxCommands = 3
SPECIFICATION ConfigSpec
SYMMETRY MCSymmetry
INVARIANTS ConfigTypeOK FilesWhole
PROPERTIES RegistrationOnlyShrinks RejectedAreReported RewriteKeeps
\* No session has to do anything.
CHECK_DEADLOCK FALSE
