SPECIFICATION Spec
CONSTANTS
    Nitro = {n1}
    Eira = {e1}
    Key = {k1}
    Message <- OneBlock
    Instant <- InstantDef
    NoInstant = NoInstant
    NoKey = NoKey
    Warmup = 0
    MinSources = 2
    Interval = 1
    Deadline = 2
    StampMode = "arrival"
    MaxSeen = 1
    Capacity = 1
    MaxLag = 1
    MaxInstant = 2
    MaxEvents = 2
    Ceaseless = FALSE
    MaxBatch = 1
    Sigints = 1
INVARIANT CtrlCNoticed
CHECK_DEADLOCK FALSE
