CONSTANTS
    a = a
    b = b
    Users = {a, b}
    Contacts <- OneWay
    Chats <- Nobody
    Flaky = {b}
    MaxRequests = 1
    MaxQueued = 1
    Savers = {b}
    MaxEntries = 3
    MaxInstances = 1
    LinkFails = TRUE
    Patient = FALSE
    Again = TRUE
    MaxUnacked = 1
SPECIFICATION SpecParts
INVARIANT
    FriendsByConsent
