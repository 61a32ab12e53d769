SPECIFICATION FairSpec
CONSTANTS
    Pairings = {p1}
    Calls = {c1, c2, c3, c4}
    MaxAttempts = 2
    InfoEnabled = FALSE
    Scheduler = Scheduler
    Nobody = Nobody
    p1 = p1
    c1 = c1
    c2 = c2
    c3 = c3
    c4 = c4
INVARIANTS AttemptsCounted PairedOnce
PROPERTIES DecidedStays CallsAnswered
CHECK_DEADLOCK FALSE
