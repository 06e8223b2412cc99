\* Any one operation fails, or a snapshot stops decoding.
SPECIFICATION Spec
CONSTANTS
    MaxAppends = 4
    MaxCrashes = 2
    MaxFaults = 1
    FaultKinds = {"write", "truncate", "flush_rollback", "flush_truncate", "replace", "damage"}
    NoFile = NoFile
    Damaged = Damaged
    Torn = Torn
    Hole = Hole
PROPERTY LossIsReported
CHECK_DEADLOCK FALSE
