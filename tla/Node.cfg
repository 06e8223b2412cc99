\* Two consumers, one partition of two chunks, two producer processes, one grant a wave.
SPECIFICATION Spec
CONSTANTS
    Nodes = {"c1", "c2"}
    Partitions = {1}
    Selects <- SelectsOne
    ChunkCount = 2
    MaxAttempts = 2
    GrantsPerWave = 1
    MaxIdleWaves = 1
    MaxWaves = 2
    MaxPublishPasses = 8
    FaultModes = {"none", "corrupt", "truncate"}
    Duplicating = {"c1"}
    Probing = {"c1"}
    MaxFaults = 1
    Silent = {"c2"}
INVARIANTS BooksAreIntact AnswersInStep AccountsClose WorkDoneIsResolved NothingStranded
PROPERTY RunsEnd
CHECK_DEADLOCK FALSE
