SPECIFICATION FairSpec
CONSTANTS
    Requests = {r1, r2, r3}
    Users = {u1, u2}
    Connections = {k1, k2}
    r1 = r1
    r2 = r2
    r3 = r3
    u1 = u1
    u2 = u2
    k1 = k1
    k2 = k2
INVARIANTS AccountOnce AnswersHold PoolReturned SuspendedShutOut
PROPERTIES RequestsEnd
CHECK_DEADLOCK FALSE
