SPECIFICATION Spec
CONSTANTS
    Node = {n1, n2}
    Compute = {n1}
    Origin = put
    Renewal = {}
    Release = {}
    Migration = {mig1}
    None = None
    Lease = 2
    Deadline = 1
    MaxInc = 2
    MaxGossip = 1
INVARIANTS
    TableBacked
    OnlyCasPublishes
PROPERTIES
    TableForward
