\* Crashes and failing operations at every step.
SPECIFICATION Spec
CONSTANTS
    MaxAppends = 4
    MaxCrashes = 2
    MaxFaults = 2
    FaultKinds = {"write", "truncate", "flush_rollback", "replace"}
    NoFile = NoFile
    Damaged = Damaged
    Torn = Torn
    Hole = Hole
INVARIANT DirectoryIsCurrent
PROPERTY ImplementsLog
CHECK_DEADLOCK FALSE
