CONSTANTS
    u = u
    v = v
    w = w
    Vector = {u, v, w}
    Dim <- MCDim
    Batch <- MCBatch
    Deletion <- MCDeletion
    Absent = Absent
    NoSnapshot = NoSnapshot
    MaxId = 3
    MaxLog = 3
    MaxUnlogged = 2
    MaxRestarts = 2
SPECIFICATION Spec
INVARIANTS
    TypeOK
    IndexCovers
    AllSearchable
    CountsExact
    OneDimension
    RestartExact
    RefusedOnlyByTombstone
PROPERTIES
    NothingOverwritten
    IdsNeverReused
CHECK_DEADLOCK FALSE
VIEW MCView
