CONSTANTS
    a = a
    b = b
    Users = {a, b}
    Contacts <- Others
    Chats <- Nobody
    Flaky = {a, b}
    MaxRequests = 2
    MaxQueued = 1
SPECIFICATION Spec
SYMMETRY Symmetry
PROPERTY
    ImplementsFriendship
INVARIANTS
    TypeOK
    FriendsByConsent
    KnownAtMostTwice
