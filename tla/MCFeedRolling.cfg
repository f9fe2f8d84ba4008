SPECIFICATION Spec
CONSTANTS
    Nitro = {n1}
    Eira = {e1}
    Key = {k1}
    Message <- Backlog
    Instant <- InstantDef
    NoInstant = NoInstant
    NoKey = NoKey
    Warmup = 0
    MinSources = 2
    Interval = 1
    Deadline = 2
    StampMode = "arrival"
    MaxSeen = 0
    Capacity = 1
    MaxLag = 1
    MaxInstant = 2
    MaxEvents = 4
    Ceaseless = FALSE
    MaxBatch = 2
    Sigints = 0
INVARIANTS RollingMissesOnlyLate RollingStaysCounted CountedOnce FinalMissesOnlyLate
PROPERTIES RefinesWindows RefinesBlocks
CHECK_DEADLOCK FALSE
