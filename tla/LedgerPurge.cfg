\* The unqualified count of completed edges.
SPECIFICATION Spec
CONSTANTS
    c1 = c1
    c2 = c2
    one = one
    other = other
    Partitions = {0}
    KeySpan = 4
    Consumers = {c1, c2}
    Claims = {one}
    Outcomes = {"permanent"}
    NoRecord = NoRecord
    Word = 1000
    MaxTrackedPartitions = 2
    MaxTrackedEdges = 4
    MaxRetained = 1
    MaxDuplicates = 1
    MaxRestarts = 1
    Generations <- ThreeGenerations
    BytesOf <- MCBytesOf
SYMMETRY Symmetry
INVARIANT CompletedEdgesExact
CHECK_DEADLOCK FALSE
