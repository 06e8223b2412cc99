SPECIFICATION Spec
CONSTANTS
    Peers = {p, q, r}
    MaxSessions = 2
    WorkerThreads = 1
    MaxStarts = 1

PROPERTY StartReturns
CHECK_DEADLOCK FALSE
