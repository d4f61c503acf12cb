SPECIFICATION FairSpec
CONSTANTS
    Conn = {c1, c2}
    Fd = {f1, f2}
    Worker = {w1, w2}
    Client = {p1, p2}
    PipeSize = 1
    MaxTasks = 3
    BitOfNone = None
    None = None
CONSTRAINTS
    NoRace
    OneStays
PROPERTIES
    Served
CHECK_DEADLOCK FALSE
