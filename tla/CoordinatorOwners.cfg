SPECIFICATION Spec
CONSTANTS
    Producers = {1, 2}
    Consumers = {11, 12}
    PartitionCount = 1
    Selections = {{0}}
    MaxIncarnation = 1
    MaxGeneration = 2
    MaxAttempts = 2
    ReportedStates = {"Failed", "Withdrawn"}
    CompactFinished = FALSE
    MaxGrants = 3
    MaxOpens = 1
    MaxCompactions = 0
    MaxCrashes = 0
INVARIANTS
    ResolvedOnce
    AgreedContent
    CountedCompletion
CHECK_DEADLOCK FALSE
