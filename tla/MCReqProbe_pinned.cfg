SPECIFICATION Spec
CONSTANTS
    Threads = {1, 2}
    Tgid <- MCTgid
    Target = 1
    Socks = {1}
    RcvSaddr <- MCRcvSaddr
    Dport <- MCDport
    Bufs = {1, 2}
    Payloads = {get, set}
    Zero = Zero
    None = None
    RetVals <- MCRetVals
    Elems = {1}
    Spares = {0}
    MaxLatency = 1
    Modulus = 8
    MaxTime = 2
    MaxRecv = 2
    MaxSend = 2
INVARIANTS
    TypeOK
    TrueLatency
    OneSamplePerRequest
    LatestRequest
    OwnData
    NoDanglingIov
CHECK_DEADLOCK FALSE
