SPECIFICATION Spec
CONSTANTS
    Peers = {p, q, r}
    MaxSessions = 2
    WorkerThreads = 1
    MaxStarts = 1
INVARIANTS RegistryExact StoppedIsQuiet
PROPERTIES AdmittedAnswered ConnectedDecided StopReturns
CHECK_DEADLOCK FALSE
