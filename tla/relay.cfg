SPECIFICATION FairSpec
CONSTANTS
    e1 = e1
    e2 = e2
    r1 = r1
    r2 = r2
    r3 = r3
    p1 = p1
    p2 = p2
    dns = dns
    game = game
    Entries = {e1, e2}
    Requests = {r1, r2, r3}
    From <- TwoEntries
    To <- TwoServices
    Ports = {p1, p2}
    Services = {dns, game}
    NoConn = NoConn
    Copies = 2
    QueueLen = 1
    MaxConns = 1
    MaxAsked = 2
    MaxSockets = 2
CHECK_DEADLOCK FALSE
INVARIANTS
    TypeOK
    AllCounted
    OwnService
PROPERTIES
    ImplementsService
    ReaderReturns
