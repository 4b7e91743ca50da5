SPECIFICATION FairSpec
CONSTANTS
    NULL = NULL
    max_inflight = 1
    max_queued = 2
    allow_duplicate_messages = FALSE
    queue_qos0_messages = FALSE
    max_inflight_messages = 0
    max_mid = 2
    Slots <- MCSlots
    Conns <- MCConns
    Qos <- MCQos
    config <- MCConfig
    Loads <- MCLoads
PROPERTIES
    ImplementsQosDelivery
    Delivered
