SPECIFICATION FairSpec
CONSTANTS
    Cmds = {get, set}
    Ips = {0, 7}
    Sizes = {3}
    Latencies = {5}
    HistMax = 5
    MaxBacklog = 2
    MaxEvents = 3
    MaxTicks = 1
    MaxCpu = 1
INVARIANTS
    TypeOK
    Conservation
    PanelsInOrder
    DeltasAddUp
    CpuAddsUp
PROPERTIES
    LedgerSpec
    CollectedIsReported
