SPECIFICATION Spec
CONSTANTS
    NULL = NULL
    Starts <- MCStarts
    Disks <- MCDisks
    MaxReloads = 1
    Traffic <- MCTraffic
    Pieces = {1, 3}
    MaxCuts = 3
    OpenFiles = {"f"}
    HexWords = {"ab"}
    Commands <- MCCommands
    Messages <- MCMessages
    MaxLosses = 2
    Bridges <- MCBridges
    Names <- MCNames
    MaxFaults = 1
    Elements = {1, 2, 3, 4, 5}
    key <- MCKey
    hash <- MCHash
    HASH_INITIAL_NUM_BUCKETS_LOG2 = 1
    HASH_BKT_CAPACITY_THRESH = 1
    MaxBuckets = 16
    PwFiles <- MCPwFiles
    PwCommands <- MCPwCommands
    PwWords <- MCPwWords
    Salts = {"r"}
    MaxCalls = 2
    Databases <- MCDatabases
    OldFiles <- MCOldFiles
    MaxSaves = 2
    Worlds <- MCWorlds
    lower <- MCLower
    inet_pton <- MCPton
    MaxTries = 2
    MainConfigs <- MCMainConfigs
    max_queued = 1
    LogBound = 6
    MaxSignals = 2
    MaxEvents = 2
    Counters = {"messages/received"}
    UnsignedMax = 255
    sys_interval = 2
    Boot = 5
    BlockSizes = {1, 2}
    MaxSeconds = 11
    MaxSysEvents = 3
    Base = 2
    KEY_BUF = 4
    ExportedKeys <- MCExportedKeys
    UINT_MAX = 255
    Keepalives = {4}
    Delay = 1
    LoopTime = 2
    MaxTicks = 22
    MaxPublishes = 1
INVARIANTS
    ConfigIsSound
    MessagesComeThrough
    OptionsTake
    SuccessMeansSent
    BridgeIsSound
    TableIsSound
    StoppedSafely
    PasswordsAsTyped
    DatabaseFileIsSound
    DescriptorsBelong
    NothingInClear
    MainInOrder
    SysTreeTells
    KeysComeBack
    GivenUpWhenGone
PROPERTIES
    ProgramsGetThere
    ConnectedInTheEnd
    ImplementsOrderedTable
    MainGoesOn
CHECK_DEADLOCK FALSE
