SPECIFICATION LiveSpec
CONSTANTS
    c1 = c1
    v1 = v1
    v2 = v2
    snapshotTask = snapshotTask
    rewriteTask = rewriteTask
    bgsave = bgsave
    Request = {v1}
    Creating = {}
    SnapshotTask = snapshotTask
    RewriteTask = rewriteTask
    SaveCalls = {bgsave}
    RewriteAfter = 2
    Strategies = {"everysec"}
    MaxEnds = 0
    MaxFaults = 1
PROPERTIES CleanStopKeeps StopEnds RequestsAnswered
CHECK_DEADLOCK FALSE
