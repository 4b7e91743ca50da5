CONSTANTS
    a = a
    b = b
    Users = {a, b}
    Contacts <- Others
    Chats <- Nobody
    Flaky = {}
    MaxRequests = 1
    MaxQueued = 2
SPECIFICATION FairSpec
PROPERTIES
    RequestArrives
    AcceptCompletes
