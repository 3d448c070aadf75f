SPECIFICATION FairSpec
CONSTANTS
    Services = {tcp, udp}
    Durations = {6}
    QueueLen = 2
    MaxRetry = 2
    CheckInterval = 3
    ConfirmTime = 1
    Prompt = TRUE
INVARIANTS TypeOK NeverReplaced
PROPERTIES Renewed EndsOnClose
CHECK_DEADLOCK FALSE
