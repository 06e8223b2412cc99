\* The flush of the emptied journal fails during compaction.
SPECIFICATION Spec
CONSTANTS
    MaxAppends = 4
    MaxCrashes = 2
    MaxFaults = 2
    FaultKinds = {"write", "flush_truncate"}
    NoFile = NoFile
    Damaged = Damaged
    Torn = Torn
    Hole = Hole
INVARIANTS DirectoryIsCurrent
CHECK_DEADLOCK FALSE
