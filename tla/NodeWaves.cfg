\* As Node.cfg, with both consumers' grants in one wave: the states alone.
SPECIFICATION Spec
CONSTANTS
    Nodes = {"c1", "c2"}
    Partitions = {1}
    Selects <- SelectsOne
    ChunkCount = 2
    MaxAttempts = 2
    GrantsPerWave = 2
    MaxIdleWaves = 1
    MaxWaves = 2
    MaxPublishPasses = 8
    FaultModes = {"none", "corrupt", "truncate"}
    Duplicating = {"c1"}
    Probing = {"c1"}
    MaxFaults = 1
    Silent = {"c2"}
INVARIANTS BooksAreIntact AnswersInStep AccountsClose WorkDoneIsResolved NothingStranded
CHECK_DEADLOCK FALSE
