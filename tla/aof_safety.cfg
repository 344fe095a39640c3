SPECIFICATION Spec
CONSTANTS
    r1 = r1
    r2 = r2
    r3 = r3
    k1 = k1
    Request <- MCRequest
    Compacted <- MCCompacted
    Size <- MCSize
    BufCap = 3
    Threshold = 4
    Snapshots <- MCSnapshots
    Strategies = {"always", "everysec", "no"}
    MaxCrashes = 1
    MaxFaults = 1
    Never = Never
INVARIANTS
    TypeOK
    StreamIntact
    AckedInLog
    AlwaysDurable
    NoTearWhileHealthy
    RefusedOnlyAfterFailure
PROPERTIES
    CloseLosesNothing
    FailStop
    ImplementsDurableLog
