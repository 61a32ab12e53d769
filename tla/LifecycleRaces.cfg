SPECIFICATION ConnectedSpec
CONSTANTS
    Commands = {c1}
    DeviceReports <- Refusal
    MaxDeliver = 1
    MaxCancels = 1
    MaxEvents = 7
    InfoEnabled = FALSE
    c1 = c1
INVARIANTS ApprovalGate OneVerdict
PROPERTIES FinalStatesStay NoCommandForgotten
CHECK_DEADLOCK FALSE
