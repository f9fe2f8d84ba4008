SPECIFICATION Spec
CONSTANTS
    Source = {s1, s2}
    Instant <- InstantDef
    NoInstant = NoInstant
    Warmup = 1
    MaxInstant = 4
    MaxSkew = 1
    MaxReconnects = 1
SYMMETRY Symmetry
INVARIANTS OpenIffAllConnected InWindowSound InWindowComplete WindowSecondsNear
PROPERTY WindowSettles
CHECK_DEADLOCK FALSE
