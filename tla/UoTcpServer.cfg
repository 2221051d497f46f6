SPECIFICATION FairSpec
CONSTANTS
    Conns = {a, b}
    Fds = {f, g}
    Capacity = 2
    ConnectFails = TRUE
INVARIANTS
    EntriesHaveAnEnd
PROPERTIES
    DestroyAwaitsClosings
    DestroyEnds
CHECK_DEADLOCK FALSE
