SPECIFICATION Spec
CONSTANTS
    Files <- MCFiles
    Formers <- MCFormers
    MaxFaults = 2
INVARIANTS
    TypeOK
    CheckedRegistersHold
    FieldsReadBack
    ChannelsReadBack
    MasksCoverTheChannels
CHECK_DEADLOCK FALSE
