SPECIFICATION Spec
CONSTANTS
    Dialogues <- TwoGets
    Size <- Halves
    RBuf = 20
    DBuf = 10
    Window = 1
CHECK_DEADLOCK FALSE
INVARIANT StaleIsHarmless
