SPECIFICATION FairSpec
CONSTANTS
    Payload = {p1}
    Staging = {s1}
    Relay = {r1}
    Monitor = Monitor
    None = None
    PayloadBytes = 3
    ChunkBytes = 2
    Headroom = 1
    Total = 8
    Reserve = 1
    Ceiling = 4
    AppLevels = {0, 5}
    MaxPins = 1
INVARIANTS
    TypeOK
    Covered
    UnderSample
    JobWithinNode
PROPERTIES
    Drained
