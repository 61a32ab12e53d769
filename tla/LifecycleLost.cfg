SPECIFICATION FairSpec
CONSTANTS
    Commands = {c1}
    DeviceReports <- NoReports
    MaxDeliver = 1
    MaxCancels = 1
    MaxEvents = 7
    InfoEnabled = TRUE
    c1 = c1
PROPERTY NoCommandForgotten
CHECK_DEADLOCK FALSE
