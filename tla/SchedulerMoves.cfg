\* Two producers whose partitions change hands and are produced again.
SPECIFICATION MCSpec
CONSTANTS
    ProducerIds = {1, 2}
    ConsumerIds = {1}
    PartitionCount = 2
    Requests <- MCRequests
    Endpoints = {1, 2}
    MaxIncarnation = 2
    ReportedStates = {"Withdrawn"}
    MaxParticipants = 4
    MaxPatterns = 4
    MaxItems = 4
    MaxTopology = 4
    Global = 2
    PerSource = 2
    PerDestination = 2
    GrantsPerWave = 1
    ExaminedPerWave = 5
    MaxAttempts = 2
    MinTicks = 1
    PauseThreshold = 80
    ResumeThreshold = 40
    RequireFresh = FALSE
    ValidityTicks = 1
    Levels = {}
    Pressured <- MCPressured
    EvidenceAges = {0}
    Unanswering = {}
    MayCancel = TRUE
    MaxManifests = 2
    MaxTicks = 0
INVARIANT InFlightExact
CHECK_DEADLOCK FALSE
