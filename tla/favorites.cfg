SPECIFICATION FairSpec
CONSTANTS
    None = None
    Torn = Torn
    Workers = {w1, w2}
    Main = main
    IPs = {i1, i2}
    Speeds = {1, 2}
    MaxFavorite = 1
    Life = 0
    Horizon = 9
    MaxClock = 1
    MaxRounds = 2
INVARIANTS
    TypeOK
    FilesMatchMemory
    BoundedWhenAlone
PROPERTIES
    MeasurementEnds
    ImplementsCopies
CHECK_DEADLOCK FALSE
