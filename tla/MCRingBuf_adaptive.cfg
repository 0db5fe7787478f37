SPECIFICATION FairSpec
CONSTANTS
    CPUs = {c1, c2}
    Capacity = 2
    BatchSize = 1
    Batched = FALSE
    MaxEvents = 5
INVARIANTS
    NoLostWakeup
PROPERTIES
    EveryRecordProcessed
    ChannelLive
CHECK_DEADLOCK FALSE
