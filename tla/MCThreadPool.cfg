SPECIFICATION FairSpec
CONSTANTS
    Worker = {w1, w2, w3}
    Task = {k1, k2, k3}
    NoTask = NoTask
    Nobody = Nobody
INVARIANTS
    TypeOK
    DestroyedQuiet
PROPERTIES
    ServiceSpec
    EveryTaskStarts
    ShutdownCompletes
CHECK_DEADLOCK FALSE
