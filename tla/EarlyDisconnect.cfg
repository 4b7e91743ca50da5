CONSTANTS
    MaxInstances = 1
    LinkFails = FALSE
    Patient = FALSE
    Again = FALSE
    MaxUnacked = 1
SPECIFICATION SessionFairSpec
PROPERTY
    DisconnectEnds
CHECK_DEADLOCK FALSE
