SPECIFICATION Spec
CONSTANTS
    Cols = 4
    Tier <- MCTier
    Concurrency <- OneEach
    Workers = 2
    Cap = 2
    MaxCost = 2
    MaxBatches = 2
INVARIANTS
    OvershootBounded
    RateLimitRespected
PROPERTIES
    NoCallAtCap
    BatchEnds
CHECK_DEADLOCK FALSE
