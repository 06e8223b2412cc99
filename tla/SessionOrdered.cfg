\* A peer that numbers its requests one after the other, and duplicates.
SPECIFICATION Spec
CONSTANTS
    MaxSequence = 6
    Window = 3
    CacheEntries = 2
    MaxForwardJump = 5
    Ordered = TRUE
INVARIANTS AppliedOnce ReplaysOwnAnswer
CHECK_DEADLOCK FALSE
