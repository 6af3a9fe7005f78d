SPECIFICATION FairSpec
CONSTANTS
    Node = {1, 2}
    MaxInc = 2
    MaxCuts = 1
    MaxExchanges = 1
INVARIANTS
    TypeOK
    ActiveJobContinuous
PROPERTIES
    Converges
    ComputeLossNoticed
