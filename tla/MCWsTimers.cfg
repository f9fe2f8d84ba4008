SPECIFICATION FairSpec
CONSTANTS
    PingEvery = 3
    ReadTimeout = 4
    WriteTimeout = 2
    MaxLate = 1
    MaxFrames = 2
    MaxQuiet = 7
INVARIANT StallNoticed
PROPERTY PingsGoOn
CHECK_DEADLOCK FALSE
