SPECIFICATION FairSpec
CONSTANTS
    Handlers <- Flows
    Users = {}
    Chains = {c1, c2}
    FirstChain = c1
    WritesFail = TRUE
    EpollFails = TRUE
INVARIANTS
    ConnSound
    ReplyOnlyToFullMessage
    AlwaysInCharge
PROPERTY PeerCloseEnds
CHECK_DEADLOCK FALSE
