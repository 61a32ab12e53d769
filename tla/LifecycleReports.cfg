SPECIFICATION DisturbedSpec
CONSTANTS
    Commands = {c1}
    DeviceReports <- FullRun
    MaxDeliver = 2
    MaxCancels = 0
    MaxEvents = 8
    InfoEnabled = FALSE
    c1 = c1
INVARIANTS TaskAgrees OneEventPerKey
PROPERTIES LifeKept
CHECK_DEADLOCK FALSE
