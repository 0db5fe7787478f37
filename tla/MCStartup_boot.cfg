SPECIFICATION FairSpec
CONSTANTS
    Pids = {2, 3}
    Self = 9
    Frequencies = {0}
    Intervals = {0}
    None = None
    MaxEnv = 2
INVARIANTS
    TypeOK
    OnlyTarget
    ReadersAgree
PROPERTIES
    BootEnds
CHECK_DEADLOCK FALSE
