SPECIFICATION Spec
CONSTANTS
    s1 = s1
    s2 = s2
    s3 = s3
    h1 = h1
    h2 = h2
    h3 = h3
    b1 = b1
    b2 = b2
    b3 = b3
    q1 = q1
    q2 = q2
    q3 = q3
    n1 = n1
    n2 = n2
    Source = {s1, s2, s3}
    Hash = {h1, h2, h3}
    Block = {b1, b2, b3}
    Key = {q1, q2, q3, n1, n2}
    NoKey = NoKey
    NoCount = NoCount
    NoInstant = NoInstant
    Instant <- InstantDef
    Window <- WindowDef
    Content <- ContentDef
    NitroKey <- NitroKeyDef
    NumKey <- NumKeyDef
    Setups <- SetupsDef
    Buckets <- BucketsDef
    Lead = 1
    MinSources = 2
    MaxEvents = 2
INVARIANTS AttributionOrderless FirstsRight BlocksInBuckets
SYMMETRY Symmetry
CHECK_DEADLOCK FALSE
