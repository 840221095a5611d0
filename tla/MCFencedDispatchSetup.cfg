SPECIFICATION Spec
CONSTANTS
    MaxOutput = 1
    MaxCrashes = 0
    MaxLosses = 2
    SetupWaits = TRUE
INVARIANTS
    OneAgent
CHECK_DEADLOCK FALSE
