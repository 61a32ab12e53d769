SPECIFICATION FairSpec
CONSTANTS
    Commands = {c1, c2}
    MaxActivations = 2
    c1 = c1
    c2 = c2
INVARIANTS NoStopOverlooked OneStaleSend
PROPERTY StaleEntryGoes
CHECK_DEADLOCK FALSE
