CONSTANTS
    Point = {0, 1, 3}
    Distance <- MCDistance
    M = 1
    EfConstruction = 2
    EfSearch = 3
    MaxLayers = 2
    MaxId = 4
SPECIFICATION Spec
INVARIANTS
    GraphSound
    ResultsSound
    NearestIsLocalOptimum
    ExactWhileSmall
    ReloadExact
PROPERTIES
    ImplementsGraph
CHECK_DEADLOCK FALSE
