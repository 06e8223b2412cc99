\* A partition produced again because a consumer joined: a node ends with its edge open.
SPECIFICATION Spec
CONSTANTS
    Nodes = {"c1", "c2"}
    Partitions = {1}
    Selects <- SelectsOne
    ChunkCount = 2
    MaxAttempts = 2
    GrantsPerWave = 1
    MaxIdleWaves = 1
    MaxWaves = 2
    MaxPublishPasses = 8
    FaultModes = {"none", "corrupt", "truncate"}
    Duplicating = {"c1"}
    Probing = {"c1"}
    MaxFaults = 0
    Silent = {"c2"}
INVARIANT DoneIsTerminal
CHECK_DEADLOCK FALSE
