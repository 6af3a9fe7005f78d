SPECIFICATION PrefetchSpec
CONSTANTS
    Tensor = {x1, x2, x3}
    Initial = {x1, x2}
    Main = Main
    Prefetch = {worker}
    Parts = 1
    Capacity = 2
    Id = {1, 2, 3, 4}
    None = None
INVARIANTS
    ExactOwnership
CHECK_DEADLOCK FALSE
