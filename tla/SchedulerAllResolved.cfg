SPECIFICATION MCSpec
CONSTANTS
    ProducerIds = {1}
    ConsumerIds = {1, 2}
    PartitionCount = 2
    Requests <- MCRequests
    Endpoints = {1, 2}
    MaxIncarnation = 2
    ReportedStates = {"Withdrawn"}
    MaxParticipants = 4
    MaxPatterns = 4
    MaxItems = 4
    MaxTopology = 4
    Global = 2
    PerSource = 2
    PerDestination = 1
    GrantsPerWave = 1
    ExaminedPerWave = 5
    MaxAttempts = 2
    MinTicks = 1
    PauseThreshold = 80
    ResumeThreshold = 40
    RequireFresh = FALSE
    ValidityTicks = 1
    Levels = {40, 80}
    Pressured <- MCPressured
    EvidenceAges = {0}
    Unanswering = {2}
    MayCancel = TRUE
    MaxManifests = 1
    MaxTicks = 1
INVARIANT AllResolvedSound
CHECK_DEADLOCK FALSE
