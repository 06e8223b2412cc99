\* What topology.hpp says of covering_consumers(), and the code does not do.
SPECIFICATION TopologySpec
CONSTANTS
    ProducerIds = {1}
    ConsumerIds = {1}
    PartitionCount = 3
    Requests <- MCRequests
    Endpoints = {a}
    MaxIncarnation = 1
    ReportedStates = {"Suspect"}
    MaxParticipants = 1
    MaxPatterns = 3
    MaxItems = 4
    MaxTopology = 3
INVARIANT OnlyAuthorityCovers
CHECK_DEADLOCK FALSE
