SPECIFICATION Spec
CONSTANTS
    Dialogues <- LongGet
    Size <- Medium
    RBuf = 8
    DBuf = 4
    Window = 1
CHECK_DEADLOCK FALSE
INVARIANT RemainFits
