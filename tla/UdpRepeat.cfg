SPECIFICATION FairSpec
CONSTANTS
    Packets = 1
    Window = 2
    ReceiverWindow = 2
    AckBits = 2
    MaxRetries = 2
    Task = {t1, t2}
    AckEvery = 2
    Sweeps = TRUE
    Nobody = Nobody
INVARIANTS
    TypeOK
    AcksTruthful
    WrittenOnce
    DoneIsStored
PROPERTIES
    IsTransfer
    FinishingEnds
