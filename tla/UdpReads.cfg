SPECIFICATION FairSpec
CONSTANTS
    Packets = 3
    Window = 2
    ReceiverWindow = 2
    AckBits = 2
    MaxRetries = 2
    Socket = {s1, s2}
    Server = Server
    MaxReads = 2
    AckEvery = 2
INVARIANTS
    TypeOK
    AckedIsHeld
    DoneIsRead
PROPERTIES
    SlotsReturn
    IsTransfer
