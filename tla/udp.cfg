SPECIFICATION FairSpec
CONSTANTS
    None = None
    Exits = {k1, k2}
    Copies = 2
    Capacity = 1
    MaxData = 2
INVARIANTS
    TypeOK
    WriterEncrypts
    AllCounted
PROPERTIES
    CountsKept
    ReaderReturns
CHECK_DEADLOCK FALSE
