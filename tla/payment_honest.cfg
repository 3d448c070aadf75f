SPECIFICATION PromptSpec
CONSTANTS
    a = a
    b = b
    Nodes = {a}
    Price <- OneNode
    TrafficUnit = 1
    Threshold = 2
    MaxUnpaid = 0
    UpdateInterval = 6
    NanoPayDelay = 3
    SigningFails = TRUE
    MaxUsed = 4
    MaxSessions = 1
INVARIANTS
    HonestPayerKept
