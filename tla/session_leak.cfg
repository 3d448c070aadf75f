SPECIFICATION Spec
CONSTANTS
    None = None
    AcceptLoop = AcceptLoop
    Payment = Payment
    User = User
    Conns = {c1}
    Modes <- ClientMode
    MaxSessions = 2
INVARIANTS
    AllClosed
CHECK_DEADLOCK FALSE
