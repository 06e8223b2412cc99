\* One consumer of two partitions, whose second grant is resolved as superseded.
SPECIFICATION Spec
CONSTANTS
    Nodes = {"c1"}
    Partitions = {1, 2}
    Selects <- SelectsTwo
    ChunkCount = 2
    MaxAttempts = 2
    GrantsPerWave = 2
    MaxIdleWaves = 1
    MaxWaves = 2
    MaxPublishPasses = 8
    FaultModes = {"none", "corrupt", "truncate"}
    Duplicating = {"c1"}
    Probing = {"c1"}
    MaxFaults = 1
    Silent = {}
INVARIANTS BooksAreIntact AnswersInStep AccountsClose WorkDoneIsResolved NothingStranded
PROPERTY RunsEnd
CHECK_DEADLOCK FALSE
