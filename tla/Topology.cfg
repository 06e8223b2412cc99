\* Two producers and two consumers over three partitions, in four patterns of which
\* the table holds three.
SPECIFICATION TopologySpec
CONSTANTS
    ProducerIds = {1, 2}
    ConsumerIds = {1, 2}
    PartitionCount = 3
    Requests <- MCRequests
    Endpoints = {a}
    MaxIncarnation = 2
    ReportedStates = {"Suspect", "Withdrawn"}
    MaxParticipants = 2
    MaxPatterns = 3
    MaxItems = 4
    MaxTopology = 6
INVARIANTS CachesAgree ClosedFormsExact ReturnAccepted
PROPERTY PlansStandWithin
CHECK_DEADLOCK FALSE
