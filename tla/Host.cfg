\* The coordinator process: four failures or crashes, a snapshot due at every second append.
SPECIFICATION Spec
CONSTANTS
    CompactEvery = 2
    MaxRecords = 10
    MaxFailures = 4
INVARIANTS LiveIsDurable EpochsRise
PROPERTIES ProcessKeepsLog StartDecided
CHECK_DEADLOCK FALSE
