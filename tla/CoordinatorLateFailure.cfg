SPECIFICATION Spec
CONSTANTS
    Producers = {1}
    Consumers = {11}
    PartitionCount = 1
    Selections = {{0}}
    MaxIncarnation = 2
    MaxGeneration = 2
    MaxAttempts = 2
    ReportedStates = {"Failed"}
    CompactFinished = FALSE
    MaxGrants = 2
    MaxOpens = 2
    MaxCompactions = 1
    MaxCrashes = 1
INVARIANTS
    FailuresOfThisEpoch
CHECK_DEADLOCK FALSE
