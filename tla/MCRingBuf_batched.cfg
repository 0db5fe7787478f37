SPECIFICATION FairSpec
CONSTANTS
    CPUs = {c1, c2}
    Capacity = 3
    BatchSize = 2
    Batched = TRUE
    MaxEvents = 6
INVARIANTS
    TypeOK
    BacklogWithinBatch
    NoStall
PROPERTIES
    ForcedRecordProcessed
    ChannelSpec
CHECK_DEADLOCK FALSE
