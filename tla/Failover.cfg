SPECIFICATION FSpec
CONSTANTS
    Node = {n1, n2}
    Heir = n2
    Compute = {}
    Origin = put
    Renewal = {}
    Release = {}
    Migration = {mig1}
    None = None
    Lease = 1
    Deadline = 1
    MaxInc = 1
    MaxGossip = 1
INVARIANTS
    CopySurvives
