SPECIFICATION Spec
CONSTANTS
    Config <- MCConfig
    AgetRegisters <- MCRegisters
    Launches <- MCLaunches
    MaxFaults = 1
    MaxLaunch = 3
    Overlap = FALSE
INVARIANTS
    TypeOK
    AccessFindsItsNode
    AccessFindsItsDevice
    WritesReachTheirTargets
    FieldsAreReadWhereWritten
    RegistersInSlowControl
    
    CheckedRegistersHold
    BuffersShareTheMemory
    StopsWhatItMeans
CHECK_DEADLOCK FALSE
