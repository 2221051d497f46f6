SPECIFICATION HttpSpec
CONSTANTS
    Handlers <- MCHandlers
    Users = {}
    Chains = {c1}
    FirstChain = c1
    WritesFail = TRUE
    EpollFails = FALSE
    PeerMessages <- MCPeerMessages
    AppMessages <- MCAppMessages
    ReqHandlers <- MCReqHandlers
    HasFileServer = TRUE
    BUF_SIZE = 4
    MaxMessages = 2
INVARIANTS
    HttpConnSound
PROPERTIES
    WrittenIsWhole
    DeliveredAsSent
    Answered
    CloseHonoured
CHECK_DEADLOCK FALSE
