SPECIFICATION EdgeSpec
CONSTANTS
    Routes <- TwoRoutes
    Limit <- Limits
    Window <- TwoWindows
    Horizon = 3
    MaxRequests = 5
    Handlers = {h1, h2}
    h1 = h1
    h2 = h2
    CacheLife = 2
    FetchTime = 1
    MaxKeys = 2
    JoseHasAlgorithms = FALSE
SYMMETRY Symmetry
INVARIANTS WindowBounded RetryAfterHolds
PROPERTIES ReplacedKeyDies NewKeyLearned
CHECK_DEADLOCK FALSE
