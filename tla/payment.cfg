SPECIFICATION FairSpec
CONSTANTS
    a = a
    b = b
    Nodes = {a, b}
    Price <- TwoPrices
    TrafficUnit = 2
    Threshold = 1
    MaxUnpaid = 0
    UpdateInterval = 1
    NanoPayDelay = 1
    SigningFails = TRUE
    MaxUsed = 2
    MaxSessions = 2
INVARIANTS
    TypeOK
    NeverOverpays
    NeverRejected
PROPERTIES
    FreeloaderCutOff
    ImplementsLedger
