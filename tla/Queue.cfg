CONSTANTS
    Frames = {f1, f2}
    Mailboxes = {m1, m2}
    CAN_QUEUE = 3
    Free = Free
    Garbage = Garbage
SPECIFICATION FairSpec
INVARIANT TypeOK
INVARIANT CheckHolds
PROPERTY ImplementsQueues
PROPERTY TxKeepsMoving
