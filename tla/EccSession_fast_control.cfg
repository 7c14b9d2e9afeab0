SPECIFICATION Spec
CONSTANTS
    Config <- MCConfig
    AgetRegisters <- MCRegisters
    Launches <- MCLaunches
    MaxFaults = 0
    MaxLaunch = 2
    Overlap = FALSE
INVARIANT
    StartsInFastControl
CHECK_DEADLOCK FALSE
