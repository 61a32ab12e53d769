SPECIFICATION FairSpec
CONSTANTS
    Events = {1, 2}
    Workers = {w1, w2}
    BatchSize = 2
    Restarted = TRUE
    MaxCrashes = 1
    MaxStored = 2
    w1 = w1
    w2 = w2
PROPERTIES PendingGoOut OthersGoOut DeliveryKept
CHECK_DEADLOCK FALSE
