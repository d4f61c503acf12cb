SPECIFICATION FairSpec
CONSTANTS
    Dialogues <- TwoRequests
    Size <- Halves
    RBuf = 6
    DBuf = 3
    Window = 2
CONSTRAINT Followed
CHECK_DEADLOCK FALSE
INVARIANTS TypeOK Intact InStep AnswersInOrder
PROPERTY Answered
