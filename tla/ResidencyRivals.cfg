SPECIFICATION Spec
CONSTANTS
    Node = {n1, n2, n3}
    Compute = {n1, n2, n3}
    Origin = put
    Renewal = {}
    Release = {}
    Migration = {mig1, mig2}
    None = None
    Lease = 2
    Deadline = 1
    MaxInc = 1
    MaxGossip = 0
INVARIANTS
    TypeOK
    TableBacked
    PublishedUnique
    DiscardsOwnCopy
SYMMETRY Symmetric
