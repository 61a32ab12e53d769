SPECIFICATION Spec
CONSTANTS
    Sockets = {k1, k2, k3}
    NoSocket = NoSocket
    MaxRevocations = 1
    MaxStops = 1
    k1 = k1
    k2 = k2
    k3 = k3
SYMMETRY Symmetry
INVARIANT ServedIsMapped
PROPERTY OpenStaysMapped
CHECK_DEADLOCK FALSE
