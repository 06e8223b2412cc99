\* Two partitions, conflicting claims, generations with room for one retained record, a restart.
SPECIFICATION Spec
CONSTANTS
    c1 = c1
    c2 = c2
    one = one
    other = other
    Partitions = {0, 1}
    KeySpan = 4
    Consumers = {c1, c2}
    Claims = {one, other}
    Outcomes = {"retriable", "authority"}
    NoRecord = NoRecord
    Word = 1000
    MaxTrackedPartitions = 2
    MaxTrackedEdges = 3
    MaxRetained = 1
    MaxDuplicates = 1
    MaxRestarts = 1
    Generations <- TwoGenerations
    BytesOf <- MCBytesOf
SYMMETRY Symmetry
INVARIANTS AccountedIsCovered ResolvedOnce CountersExact
PROPERTIES BytesCountedOnce CompletionsStand
CHECK_DEADLOCK FALSE
