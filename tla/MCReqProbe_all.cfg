SPECIFICATION Spec
CONSTANTS
    Threads = {1, 2}
    Tgid <- MCTgid
    Target = 0
    Socks = {1}
    RcvSaddr <- MCRcvSaddr
    Dport <- MCDport
    Bufs = {1, 2}
    Payloads = {get}
    Zero = Zero
    None = None
    RetVals = {5}
    Elems = {1}
    Spares = {0}
    MaxLatency = 0
    Modulus = 8
    MaxTime = 1
    MaxRecv = 2
    MaxSend = 1
INVARIANTS
    TrueLatency
CHECK_DEADLOCK FALSE
