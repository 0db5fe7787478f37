SPECIFICATION FairSpec
CONSTANTS
    CPUs = {c1, c2}
    Capacity = 3
    BatchSize = 2
    Batched = TRUE
    MaxEvents = 3
PROPERTIES
    EveryRecordProcessed
CHECK_DEADLOCK FALSE
