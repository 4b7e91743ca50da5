CONSTANTS
    a = a
    b = b
    Users = {a, b}
    Contacts <- OneWay
    Chats <- OneWay
    Flaky = {b}
    MaxRequests = 1
    MaxQueued = 1
SPECIFICATION FairSpec
PROPERTY
    NotifiedInRealTime
