SPECIFICATION Spec
CONSTANTS
    c1 = c1
    v1 = v1
    v2 = v2
    snapshotTask = snapshotTask
    rewriteTask = rewriteTask
    bgsave = bgsave
    Request = {c1, v1}
    Creating = {c1}
    SnapshotTask = snapshotTask
    RewriteTask = rewriteTask
    SaveCalls = {bgsave}
    RewriteAfter = 2
    Strategies = {"always"}
    MaxEnds = 1
    MaxFaults = 0
INVARIANT NoReplayConflict
CHECK_DEADLOCK FALSE
