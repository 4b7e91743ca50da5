CONSTANTS
    a = a
    b = b
    Users = {a, b}
    Contacts <- OneWay
    Chats <- Nobody
    Flaky = {b}
    MaxRequests = 1
    MaxQueued = 1
    Savers = {b}
    MaxEntries = 3
    MaxInstances = 2
    LinkFails = TRUE
    Patient = FALSE
    Again = TRUE
    MaxUnacked = 2
SPECIFICATION SpecParts
INVARIANTS
    PersistTypeOK
    FriendsByContact
    SessionTypeOK
    DisconnectedMeansClosed
    LeakedMutexIsLast
PROPERTY
    DisconnectReturns
