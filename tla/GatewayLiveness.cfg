SPECIFICATION CalmSpec
CONSTANTS
    Sockets = {k1, k2}
    NoSocket = NoSocket
    MaxRevocations = 2
    MaxStops = 1
    k1 = k1
    k2 = k2
PROPERTIES DeadEntriesGo StopHeard RevocationHeard
CHECK_DEADLOCK FALSE
