SPECIFICATION LiveSpec
CONSTANTS
    MaxOutput = 2
    MaxCrashes = 1
    MaxLosses = 2
    SetupWaits = FALSE
INVARIANTS
    TypeOK
    EventsTile
    FinalIsWhole
    InOrderOnce
    OkIsWhole
    OneAgent
    GoneIsOver
PROPERTIES
    TurnEnds
CHECK_DEADLOCK FALSE
