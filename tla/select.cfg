SPECIFICATION FairSpec
CONSTANTS
    a = a
    b = b
    c = c
    d = d
    ipA = ipA
    ipB = ipB
    wA = wA
    wB = wB
    wC = wC
    wX = wX
    Nodes = {a, b, c, d}
    Metas <- AllMetas
    BadPrice = BadPrice
    NoPayee = NoPayee
    BadPayee = BadPayee
    WalletOf <- Wallets
    Absent = Absent
    MaxPrice = 1
    Configs <- AllConfigs
    Favorite <- FavoriteB
    MaxUpdates = 1
INVARIANTS
    TypeOK
    ConnectedConsistent
    ConnectedAllowed
    ConnectedEligible
PROPERTIES
    FindsNode
CHECK_DEADLOCK FALSE
