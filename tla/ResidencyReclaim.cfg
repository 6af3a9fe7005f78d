SPECIFICATION FairSpec
CONSTANTS
    Node = {n1, n2}
    Compute = {n1}
    Origin = put
    Renewal = {renew1}
    Release = {}
    Migration = {mig1}
    None = None
    Lease = 1
    Deadline = 1
    MaxInc = 1
    MaxGossip = 0
INVARIANTS
    TableBacked
PROPERTIES
    Reclaimed
