SPECIFICATION LiveSpec
CONSTANTS
    r1 = r1
    r2 = r2
    r3 = r3
    k1 = k1
    Request <- MCRequest
    Compacted <- MCCompacted
    Size <- MCSize
    BufCap = 3
    Threshold = 4
    Snapshots <- MCSnapshots
    Strategies = {"everysec"}
    MaxCrashes = 0
    MaxFaults = 0
    Never = Never
PROPERTIES
    AckedBecomesDurable
