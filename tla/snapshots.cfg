SPECIFICATION Spec
CONSTANTS
    v1 = v1
    v2 = v2
    v3 = v3
    Vec = {v1, v2}
    Labelled = {v1}
    Config = {l2, cosine}
    None = None
    Refused = Refused
    PerSecond = 2
    MaxTime = 3
    MaxBackups = 2
INVARIANTS
    FilesStable
    MetadataAgrees
    RestartKeeps
    TimesOrdered
CHECK_DEADLOCK FALSE
