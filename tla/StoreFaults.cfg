SPECIFICATION Spec
CONSTANTS
    Tensor = {x1, x2, x3}
    Initial = {x1}
    Main = Main
    Prefetch = {}
    Parts = 2
    Capacity = 1
    Id = {1, 2, 3, 4}
    None = None
INVARIANTS
    TypeOK
    WeightDurable
    ExactOwnership
    ListedLive
SYMMETRY Symmetric
CHECK_DEADLOCK FALSE
