SPECIFICATION Spec
CONSTANTS
    Node = {n1}
    Compute = {n1}
    Origin = put
    Renewal = {renew1}
    Release = {free1}
    Migration = {}
    None = None
    Lease = 2
    Deadline = 1
    MaxInc = 2
    MaxGossip = 1
INVARIANTS
    FreeReleases
