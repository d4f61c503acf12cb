SPECIFICATION Spec
CONSTANTS
    Conn = {c1, c2}
    Fd = {f1, f2}
    Worker = {w1, w2}
    Client = {p1, p2}
    PipeSize = 2
    MaxTasks = 3
    BitOfNone = f1
    None = None
SYMMETRY Symmetry
ACTION_CONSTRAINT QuietAfterRace
INVARIANTS
    TypeOK
    OneOwner
    NoStranded
    SelectSafe
    AnswersTheAsker
    FreedQuiet
PROPERTIES
    TurnsOver
CHECK_DEADLOCK FALSE
