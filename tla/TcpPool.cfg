SPECIFICATION FairSpec
CONSTANTS
    Writer = {w1, w2}
    Reader = {r1}
    Conn = {c1, c2}
    Chunks = 2
    Upload = {u1, u2}
    MaxIdle = 1
    MaxServed = 2
    None = None
CHECK_DEADLOCK FALSE
INVARIANTS
    TypeOK
    OwnAnswers
    CountedIntact
PROPERTIES
    LockReturns
    IsTransfer
