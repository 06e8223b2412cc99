SPECIFICATION Spec
CONSTANTS
    Producers = {1}
    Consumers = {11, 12}
    PartitionCount = 1
    Selections = {{0}}
    MaxIncarnation = 2
    MaxGeneration = 2
    MaxAttempts = 2
    ReportedStates = {"Withdrawn"}
    CompactFinished = FALSE
    MaxGrants = 2
    MaxOpens = 2
    MaxCompactions = 0
    MaxCrashes = 0
INVARIANTS
    CompleteMeansResolved
CHECK_DEADLOCK FALSE
