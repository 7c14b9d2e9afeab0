SPECIFICATION Spec
CONSTANTS
    AGETS_PER_ASAD = 2
    CHANNELS_PER_AGET = 2
    NumAsads = 4
    Source = 20
    Events <- MCEvents
    MaxItems = 2
    MaxEvents = 1
INVARIANTS
    SourcesBegin
CHECK_DEADLOCK FALSE
