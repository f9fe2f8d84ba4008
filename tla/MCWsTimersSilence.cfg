SPECIFICATION Spec
CONSTANTS
    PingEvery = 4
    ReadTimeout = 12
    WriteTimeout = 1
    MaxLate = 1
    MaxFrames = 1
    MaxQuiet = 29
INVARIANT SilenceEnds
CHECK_DEADLOCK FALSE
