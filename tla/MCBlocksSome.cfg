SPECIFICATION Spec
CONSTANTS
    Source = {s1, s2, s3}
    Key = {k1, k2}
    Instant <- InstantDef
    NoInstant = NoInstant
    NoSource = NoSource
    MinSources = 2
    MaxSkew = 1
    MaxEvents = 2
    MaxInstant = 3
SYMMETRY Symmetry
INVARIANTS FirstIsEarliest CompleteByCount CompletionTimely OneLinePerBlock LineNearlyRight
PROPERTY RefinesRace
CHECK_DEADLOCK FALSE
