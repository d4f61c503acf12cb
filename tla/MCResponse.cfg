SPECIFICATION FairSpec
CONSTANTS
    Room = 3
    HeadLen = 1
    Window = 2
    Half = 4
    Sizes = {0, 1, 3, 4, 9}
    MaxRequests = 2
    MaxChanges = 2
    Unit = Unit
    None = None
INVARIANTS
    TypeOK
    InFrame
    NoFileLeft
    AsAnnounced
    HeadsFit
PROPERTIES
    Completes
CHECK_DEADLOCK FALSE
