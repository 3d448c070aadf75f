SPECIFICATION FairSpec
CONSTANTS
    a = a
    b = b
    Nodes = {a}
    Price <- OneNode
    TrafficUnit = 1
    Threshold = 4
    MaxUnpaid = 1
    UpdateInterval = 1
    NanoPayDelay = 1
    SigningFails = FALSE
    MaxUsed = 1
    MaxSessions = 2
PROPERTIES
    PaidAfterReconnect
