SPECIFICATION FairSpec
CONSTANTS
    Handlers <- Any
    Users = {u1, u2}
    Chains = {c1, c2, c3, c4}
    FirstChain = c1
    WritesFail = FALSE
    EpollFails = FALSE
PROPERTIES
    PendingRequestKept
    RequestNotOverlooked
CHECK_DEADLOCK FALSE
