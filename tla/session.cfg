SPECIFICATION FairSpec
CONSTANTS
    None = None
    AcceptLoop = AcceptLoop
    Payment = Payment
    User = User
    Conns = {c1}
    Modes <- MixedModes
    MaxSessions = 2
INVARIANTS
    TypeOK
    OneSession
PROPERTIES
    CloseReturns
    PipesEnd
    LossCloses
    TornDown
CHECK_DEADLOCK FALSE
