SPECIFICATION FairSpec
CONSTANTS
    Conns = {c1, c2, c3}
    Modes <- MCModes
    MaxWriters = 2
    MaxLeaks = 1
    None = None
INVARIANTS
    TypeOK
    OneConnection
PROPERTIES
    EndsOnClose
    ServedAgain
CHECK_DEADLOCK FALSE
