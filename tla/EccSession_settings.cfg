SPECIFICATION Spec
CONSTANTS
    Config <- MCPeriodicConfig
    AgetRegisters <- MCRegisters
    Launches <- MCConfigureOnly
    MaxFaults = 0
    MaxLaunch = 1
    Overlap = FALSE
INVARIANT
    EverySettingIsMade
CHECK_DEADLOCK FALSE
