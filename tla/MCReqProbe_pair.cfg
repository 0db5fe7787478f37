SPECIFICATION Spec
CONSTANTS
    Threads = {1, 2}
    Tgid <- MCTgid
    Target = 1
    Socks = {1, 2}
    RcvSaddr <- MCRcvSaddr
    Dport <- MCDport
    Bufs = {1, 2}
    Payloads = {get}
    Zero = Zero
    None = None
    RetVals = {5}
    Elems = {1, 2}
    Spares = {0}
    MaxLatency = 1
    Modulus = 8
    MaxTime = 2
    MaxRecv = 2
    MaxSend = 2
INVARIANTS
    RequestResponsePair
CHECK_DEADLOCK FALSE
