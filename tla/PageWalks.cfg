SPECIFICATION ListSpec
CONSTANTS
    MaxRows = 5
    MaxReturns = 1
    PageSize = 2
INVARIANTS NoHoles LossBounded NextPageHasRows
CHECK_DEADLOCK FALSE
