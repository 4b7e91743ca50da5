SPECIFICATION SysSpec
CONSTANTS
    NULL = NULL
    Counters = {"messages/received"}
    UnsignedMax = 255
    sys_interval = 2
    Boot = 5
    BlockSizes = {1}
    MaxSeconds = 11
    MaxSysEvents = 3
INVARIANT
    MaximumIsMaximum
CHECK_DEADLOCK FALSE
