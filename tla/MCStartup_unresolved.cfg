SPECIFICATION Spec
CONSTANTS
    Pids = {2, 3}
    Self = 9
    Frequencies = {0}
    Intervals = {0}
    None = None
    MaxEnv = 2
INVARIANTS
    UnresolvedHasNoFlameGraph
CHECK_DEADLOCK FALSE
