CONSTANTS
    Chunks <- MCChunks
    Frames <- MCFrames
    MaxUnits = 3
    MaxIndex = 1
SPECIFICATION AnswersSpec
INVARIANTS EventsBuildMessage NothingLost CallsReassembled
\* An answer is replayed once.
CHECK_DEADLOCK FALSE
