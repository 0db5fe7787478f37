SPECIFICATION Spec
CONSTANTS
    Threads = {1, 3}
    Tgid <- MCTgid
    Target = 0
    Socks = {1}
    RcvSaddr <- MCRcvSaddr
    Dport <- MCDport
    Bufs = {1}
    Payloads = {get, set}
    Zero = Zero
    None = None
    RetVals = {5}
    Elems = {1}
    Spares = {0}
    MaxLatency = 1
    Modulus = 8
    MaxTime = 0
    MaxRecv = 3
    MaxSend = 2
INVARIANTS
    LatestRequest
    OwnData
    SameProcess
CHECK_DEADLOCK FALSE
