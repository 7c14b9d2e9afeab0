SPECIFICATION Spec
CONSTANTS
    AGETS_PER_ASAD = 2
    CHANNELS_PER_AGET = 2
    NumAsads = 3
    Source = 20
    Events <- MCEvents
    MaxItems = 3
    MaxEvents = 2
INVARIANTS
    HitsMatchTheTraces
    HitsDescribeThePeak
    SpecTclSeesTheEvent
CHECK_DEADLOCK FALSE
